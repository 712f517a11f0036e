-------------------------- MODULE TraceCache_proofs --------------------------
(***************************************************************************)
(* What holds of the cache of block traces for any requests, any blocks    *)
(* they share, any failing replays and any number of permits.              *)
(*                                                                         *)
(* The sender of a request that waits is followed from the queue into an   *)
(* entry (Waits); StopBatch messages, timers and running requests each own *)
(* the batch they name (BatchesOwned), which is why a timer always finds   *)
(* its batch.  IInv /\ BatchesOwned is inductive, and relative to it the   *)
(* bound on the counts of the entries is.  So is UndisturbedInv: a block   *)
(* no request disturbs is cached for its batches, replayed once, and       *)
(* replayed by the time its request stops.                                 *)
(***************************************************************************)
EXTENDS TraceCache, FiniteSetTheorems, TLAPS

\* A request that waits for the answer to what it has sent last.
Expecting(c) == client[c].phase \in {"starting", "fetching"} /\ client[c].reply = "none"

\* The block a request asks for.
AsksFor(c) == BlocksOf[c][client[c].fetched + 1]

\* A request fetches no further than its last block.
FetchesInOrder ==
    \A c \in Clients :
        /\ client[c].phase = "idle" => client[c].reply = "none"
        /\ client[c].phase = "fetching" => client[c].fetched < Len(BlocksOf[c])

\* Message i carries the sender of request c.
Carries(i, c) == inbox[i].kind # "StopBatch" /\ inbox[i].from = c

\* Whoever has its sender in the queue waits for that very answer, and nowhere else.
InboxMatches ==
    \A i \in DOMAIN inbox : \A c \in Clients : Carries(i, c) =>
        /\ Expecting(c)
        /\ \A b \in DOMAIN cachedBlocks : c \notin cachedBlocks[b].waiting
        /\ inbox[i].kind = "StartBatch" => client[c].phase = "starting"
        /\ inbox[i].kind = "GetTraces" =>
               client[c].phase = "fetching" /\ inbox[i].block = AsksFor(c)

InboxOnce ==
    \A i, j \in DOMAIN inbox : \A c \in Clients : Carries(i, c) /\ Carries(j, c) => i = j

\* Whoever waits in an entry asks for its block, which is still pooled.
WaitersMatch ==
    \A b \in DOMAIN cachedBlocks : \A c \in cachedBlocks[b].waiting :
        /\ Expecting(c)
        /\ client[c].phase = "fetching"
        /\ b = AsksFor(c)
        /\ IsPooled(b)

\* The sender of a request that waits is in the queue or in an entry.
SenderKept ==
    \A c \in Clients : Expecting(c) =>
        \/ \E i \in DOMAIN inbox : Carries(i, c)
        \/ \E b \in DOMAIN cachedBlocks : c \in cachedBlocks[b].waiting

TracerAlive ==
    \A b \in DOMAIN cachedBlocks :
        IsPooled(b) => <<cachedBlocks[b].tracer, b>> \in DOMAIN tracers \/ Pending("Finished", b)

TracersFinite == IsFiniteSet(DOMAIN tracers)

\* Message i stops batch id.
Stops(i, id) == inbox[i].kind = "StopBatch" /\ inbox[i].batch = id

\* A running request, a StopBatch message and a timer never name the same batch, and
\* no two of a kind do; what they name exists.
BatchesOwned ==
    /\ \A c \in Clients : Active(c) =>
           /\ client[c].batch \in DOMAIN batches \ expirations
           /\ \A i \in DOMAIN inbox : ~Stops(i, client[c].batch)
    /\ \A c, d \in Clients :
           Active(c) /\ Active(d) /\ client[c].batch = client[d].batch => c = d
    /\ \A i \in DOMAIN inbox : \A id \in Nat : Stops(i, id) => id \in DOMAIN batches \ expirations
    /\ \A i, j \in DOMAIN inbox : \A id \in Nat : Stops(i, id) /\ Stops(j, id) => i = j
    /\ \A id \in DOMAIN batches : id < nextBatchId

Waits == FetchesInOrder /\ InboxMatches /\ InboxOnce /\ WaitersMatch /\ SenderKept

IInv == TypeOK /\ Waits /\ TracerAlive /\ TracersFinite

LEMMA InitIInv == Init => IInv
<1> SUFFICES ASSUME Init PROVE IInv OBVIOUS
<1> USE DEF Init
<1>1. TypeOK
  <2>1. client \in [Clients -> [phase : {"idle", "starting", "fetching", "done"},
                               fetched : Nat, batch : Nat,
                               reply : Answers \cup {"none"}]]
    BY DEF Answers
  <2>2. debugPermits \in 0 .. Permits
    BY PermitsAssumption
  <2> QED BY <2>1, <2>2 DEF TypeOK
<1>2. Waits
  BY DEF Waits, FetchesInOrder, InboxMatches, InboxOnce, WaitersMatch, SenderKept, Expecting
<1>3. TracerAlive /\ TracersFinite
  BY FS_EmptySet DEF TracerAlive, TracersFinite
<1> QED BY <1>1, <1>2, <1>3 DEF IInv

-----------------------------------------------------------------------------

\* The blocks a request asks for are blocks, and finite in number.
LEMMA BlocksOfRequest ==
    ASSUME NEW c \in Clients
    PROVE  /\ Len(BlocksOf[c]) \in Nat
           /\ \A n \in 1 .. Len(BlocksOf[c]) : BlocksOf[c][n] \in BlockSet(c)
           /\ BlockSet(c) \subseteq Blocks
           /\ IsFiniteSet(BlockSet(c))
<1>1. BlocksOf[c] \in Seq(BlockSet(c))
  BY ClientsAssumption DEF ClientsAssumption, BlockSet
<1>2. Len(BlocksOf[c]) \in Nat /\ DOMAIN BlocksOf[c] = 1 .. Len(BlocksOf[c])
  BY <1>1
<1>3. BlockSet(c) \subseteq Blocks
  BY DEF Blocks
<1>4. \A n \in 1 .. Len(BlocksOf[c]) : BlocksOf[c][n] \in BlockSet(c)
  BY <1>1, <1>2
<1>5. BlocksOf[c] \in Surjection(1 .. Len(BlocksOf[c]), BlockSet(c))
  BY <1>1, <1>2 DEF Surjection, BlockSet, Range
<1>6. IsFiniteSet(BlockSet(c))
  BY <1>2, <1>5, FS_Surjection, FS_Interval
<1> QED BY <1>2, <1>3, <1>4, <1>6

\* A request with an answer has its sender nowhere.
LEMMA AnsweredNowhere ==
    ASSUME IInv, NEW c \in Clients, ~Expecting(c)
    PROVE  /\ \A i \in DOMAIN inbox : ~Carries(i, c)
           /\ \A b \in DOMAIN cachedBlocks : c \notin cachedBlocks[b].waiting
BY DEF IInv, Waits, InboxMatches, WaitersMatch

\* Appending a message of c, which had none, and asks for something now.
LEMMA SendsRequest ==
    ASSUME IInv, NEW c \in Clients, ~Expecting(c),
           NEW m \in Requests, m.kind # "StopBatch", m.from = c,
           inbox' = Append(inbox, m),
           \A d \in Clients \ {c} : client'[d] = client[d],
           client' \in [Clients -> [phase : {"idle", "starting", "fetching", "done"},
                               fetched : Nat, batch : Nat, reply : Answers \cup {"none"}]],
           Expecting(c)',
           client'[c].phase = "fetching" => client'[c].fetched < Len(BlocksOf[c]),
           m.kind = "StartBatch" => client'[c].phase = "starting",
           m.kind = "GetTraces" => client'[c].phase = "fetching" /\ m.block = AsksFor(c)',
           ClientOnly
    PROVE  IInv'
<1> USE DEF IInv, ClientOnly, cacheVars
<1>0. inbox \in Seq(Requests) /\ inbox' \in Seq(Requests)
  BY DEF TypeOK
<1>1. TypeOK'
  BY <1>0 DEF TypeOK, IsPooled
<1>2. /\ Len(inbox) \in Nat
      /\ DOMAIN inbox = 1 .. Len(inbox)
      /\ DOMAIN inbox' = 1 .. Len(inbox) + 1
      /\ \A i \in DOMAIN inbox : inbox'[i] = inbox[i]
      /\ inbox'[Len(inbox) + 1] = m
  BY <1>0
<1>3. /\ \A i \in DOMAIN inbox : ~Carries(i, c)
      /\ \A b \in DOMAIN cachedBlocks : c \notin cachedBlocks[b].waiting
  BY AnsweredNowhere
<1>4. \A d \in Clients \ {c} : Expecting(d)' = Expecting(d) /\ AsksFor(d)' = AsksFor(d)
  BY DEF Expecting, AsksFor
<1>5. \A i \in DOMAIN inbox', d \in Clients : i = Len(inbox) + 1 => (Carries(i, d)' <=> d = c)
  BY <1>2 DEF Carries
<1>6. \A i \in DOMAIN inbox, d \in Clients : Carries(i, d)' = Carries(i, d)
  BY <1>2 DEF Carries
<1>7. FetchesInOrder'
  BY DEF Waits, FetchesInOrder, Expecting
<1>8. InboxMatches'
  <2> SUFFICES ASSUME NEW i \in DOMAIN inbox', NEW d \in Clients, Carries(i, d)'
               PROVE  /\ Expecting(d)'
                      /\ \A b \in DOMAIN cachedBlocks : d \notin cachedBlocks[b].waiting
                      /\ inbox'[i].kind = "StartBatch" => client'[d].phase = "starting"
                      /\ inbox'[i].kind = "GetTraces" =>
                             client'[d].phase = "fetching" /\ inbox'[i].block = AsksFor(d)'
    BY DEF InboxMatches
  <2>1. CASE i = Len(inbox) + 1
    BY <2>1, <1>2, <1>3, <1>5
  <2>2. CASE i \in DOMAIN inbox
    <3>1. Carries(i, d) /\ d # c
      BY <2>2, <1>3, <1>6
    <3>2. inbox'[i] = inbox[i] /\ client'[d] = client[d]
      BY <3>1, <2>2, <1>2
    <3> QED BY <2>2, <3>1, <3>2, <1>4 DEF Waits, InboxMatches
  <2> QED BY <2>1, <2>2, <1>2
<1>9. InboxOnce'
  BY <1>2, <1>3, <1>5, <1>6 DEF Waits, InboxOnce
<1>10. WaitersMatch'
  <2> SUFFICES ASSUME NEW b \in DOMAIN cachedBlocks, NEW d \in cachedBlocks[b].waiting
               PROVE  /\ Expecting(d)' /\ client'[d].phase = "fetching"
                      /\ b = AsksFor(d)' /\ IsPooled(b)
    BY DEF WaitersMatch, IsPooled
  <2>1. d \in Clients /\ d # c
    BY <1>3 DEF TypeOK, Entries
  <2>2. /\ Expecting(d) /\ client[d].phase = "fetching"
        /\ b = AsksFor(d) /\ IsPooled(b)
    BY <2>1 DEF Waits, WaitersMatch
  <2>3. client'[d] = client[d] /\ (Expecting(d)' <=> Expecting(d)) /\ AsksFor(d)' = AsksFor(d)
    BY <2>1, <1>4
  <2> QED BY <2>2, <2>3
<1>11. SenderKept'
  <2> SUFFICES ASSUME NEW d \in Clients, Expecting(d)'
               PROVE  \/ \E i \in DOMAIN inbox' : Carries(i, d)'
                      \/ \E b \in DOMAIN cachedBlocks : d \in cachedBlocks[b].waiting
    BY DEF SenderKept
  <2>1. CASE d = c
    <3>1. PICK k \in DOMAIN inbox' : k = Len(inbox) + 1
      BY <1>2
    <3>2. Carries(k, d)'
      BY <2>1, <3>1, <1>5
    <3> QED BY <3>2
  <2>2. CASE d # c
    BY <2>2, <1>2, <1>4, <1>6 DEF Waits, SenderKept
  <2> QED BY <2>1, <2>2
<1>12. TracerAlive' /\ TracersFinite'
  BY DEF TracerAlive, TracersFinite, IsPooled, Pending
<1> QED BY <1>1, <1>7, <1>8, <1>9, <1>10, <1>11, <1>12 DEF Waits

\* What a client remembers.
ClientType == [phase : {"idle", "starting", "fetching", "done"},
               fetched : Nat, batch : Nat, reply : Answers \cup {"none"}]

\* A request that is answered stops its batch.
LEMMA StopsBatchKeeps ==
    ASSUME IInv, NEW c \in Clients, ~Expecting(c), StopsBatch(c), ClientOnly
    PROVE  IInv'
<1> USE DEF IInv, ClientOnly, cacheVars
<1> DEFINE m == [kind |-> "StopBatch", batch |-> client[c].batch]
<1>0. m \in Requests /\ inbox \in Seq(Requests) /\ inbox' = Append(inbox, m)
  BY DEF TypeOK, Requests, StopsBatch
<1>1. client' \in [Clients -> [phase : {"idle", "starting", "fetching", "done"},
                               fetched : Nat, batch : Nat, reply : Answers \cup {"none"}]]
  <2>1. client \in [Clients -> ClientType]
    BY DEF TypeOK, ClientType
  <2>2. [client[c] EXCEPT !.phase = "done", !.reply = "none"] \in ClientType
    BY <2>1 DEF ClientType
  <2>3. client' = [client EXCEPT ![c] = [client[c] EXCEPT !.phase = "done", !.reply = "none"]]
    BY DEF StopsBatch
  <2> QED BY <2>1, <2>2, <2>3 DEF ClientType
<1>2. TypeOK'
  <2>1. inbox' \in Seq(Requests)
    BY <1>0
  <2> QED BY <1>1, <2>1 DEF TypeOK, IsPooled
<1>3. /\ Len(inbox) \in Nat
      /\ DOMAIN inbox = 1 .. Len(inbox)
      /\ DOMAIN inbox' = 1 .. Len(inbox) + 1
      /\ \A i \in DOMAIN inbox : inbox'[i] = inbox[i]
      /\ inbox'[Len(inbox) + 1] = m
  BY <1>0
<1>4. /\ \A i \in DOMAIN inbox : ~Carries(i, c)
      /\ \A b \in DOMAIN cachedBlocks : c \notin cachedBlocks[b].waiting
  BY AnsweredNowhere
<1>5. \A d \in Clients \ {c} : client'[d] = client[d]
  BY DEF StopsBatch, TypeOK
<1>6. client'[c].phase = "done"
  BY DEF StopsBatch, TypeOK
<1>7. /\ \A d \in Clients \ {c} : Expecting(d)' = Expecting(d) /\ AsksFor(d)' = AsksFor(d)
      /\ ~Expecting(c)'
  BY <1>5, <1>6 DEF Expecting, AsksFor
<1>8. \A i \in DOMAIN inbox', d \in Clients : i = Len(inbox) + 1 => ~Carries(i, d)'
  BY <1>3 DEF Carries
<1>9. \A i \in DOMAIN inbox, d \in Clients : Carries(i, d)' = Carries(i, d)
  BY <1>3 DEF Carries
<1>10. FetchesInOrder'
  BY <1>5, <1>6 DEF Waits, FetchesInOrder
<1>11. InboxMatches'
  <2> SUFFICES ASSUME NEW i \in DOMAIN inbox', NEW d \in Clients, Carries(i, d)'
               PROVE  /\ Expecting(d)'
                      /\ \A b \in DOMAIN cachedBlocks : d \notin cachedBlocks[b].waiting
                      /\ inbox'[i].kind = "StartBatch" => client'[d].phase = "starting"
                      /\ inbox'[i].kind = "GetTraces" =>
                             client'[d].phase = "fetching" /\ inbox'[i].block = AsksFor(d)'
    BY DEF InboxMatches
  <2>1. i \in DOMAIN inbox
    BY <1>3, <1>8
  <2>2. Carries(i, d) /\ d # c
    BY <2>1, <1>4, <1>9
  <2>3. inbox'[i] = inbox[i] /\ client'[d] = client[d]
    BY <2>1, <2>2, <1>3, <1>5
  <2> QED BY <2>1, <2>2, <2>3, <1>7 DEF Waits, InboxMatches
<1>12. InboxOnce'
  BY <1>3, <1>8, <1>9 DEF Waits, InboxOnce
<1>13. WaitersMatch'
  <2> SUFFICES ASSUME NEW b \in DOMAIN cachedBlocks, NEW d \in cachedBlocks[b].waiting
               PROVE  /\ Expecting(d)' /\ client'[d].phase = "fetching"
                      /\ b = AsksFor(d)' /\ IsPooled(b)
    BY DEF WaitersMatch, IsPooled
  <2>1. d \in Clients /\ d # c
    BY <1>4 DEF TypeOK, Entries
  <2> QED BY <2>1, <1>5, <1>7 DEF Waits, WaitersMatch
<1>14. SenderKept'
  BY <1>3, <1>7, <1>9 DEF Waits, SenderKept
<1>15. TracerAlive' /\ TracersFinite'
  BY DEF TracerAlive, TracersFinite, IsPooled, Pending
<1> QED BY <1>2, <1>10, <1>11, <1>12, <1>13, <1>14, <1>15 DEF Waits

\* The next block of the loop, or the end of it.
LEMMA AsksNextKeeps ==
    ASSUME IInv, NEW c \in Clients, ~Expecting(c), NEW n \in 0 .. Len(BlocksOf[c]),
           AsksNext(c, n), ClientOnly
    PROVE  IInv'
<1>1. CASE n = Len(BlocksOf[c])
  BY <1>1, StopsBatchKeeps DEF AsksNext
<1>2. CASE n # Len(BlocksOf[c])
  <2> DEFINE m == [kind |-> "GetTraces", from |-> c, block |-> BlocksOf[c][n + 1]]
             k == [[[client[c] EXCEPT !.phase = "fetching"] EXCEPT !.fetched = n]
                      EXCEPT !.reply = "none"]
  <2>1. n \in Nat /\ n < Len(BlocksOf[c]) /\ BlocksOf[c][n + 1] \in Blocks
    BY <1>2, BlocksOfRequest
  <2>2. client' = [client EXCEPT ![c] = [@ EXCEPT !.phase = "fetching", !.fetched = n, !.reply = "none"]]
        /\ inbox' = Append(inbox, m)
    BY <1>2 DEF AsksNext
  <2>3. client \in [Clients -> [phase : {"idle", "starting", "fetching", "done"},
                               fetched : Nat, batch : Nat, reply : Answers \cup {"none"}]]
    BY DEF IInv, TypeOK
  <2>4. client' \in [Clients -> [phase : {"idle", "starting", "fetching", "done"},
                               fetched : Nat, batch : Nat, reply : Answers \cup {"none"}]]
    BY <2>1, <2>2, <2>3
  <2>5. /\ \A d \in Clients \ {c} : client'[d] = client[d]
        /\ client'[c].phase = "fetching" /\ client'[c].fetched = n /\ client'[c].reply = "none"
    BY <2>2, <2>3
  <2>6. m \in Requests /\ m.kind # "StopBatch" /\ m.from = c /\ m.kind # "StartBatch"
    BY <2>1 DEF Requests
  <2>7. Expecting(c)' /\ m.block = AsksFor(c)'
    BY <2>5 DEF Expecting, AsksFor
  <2> HIDE DEF m
  <2> QED BY <2>1, <2>2, <2>4, <2>5, <2>6, <2>7, SendsRequest
<1> QED BY <1>1, <1>2

LEMMA RequestsKeep ==
    ASSUME IInv, NEW c \in Clients, Filter(c) \/ Request(c)
    PROVE  IInv'
<1>0. client \in [Clients -> [phase : {"idle", "starting", "fetching", "done"},
                               fetched : Nat, batch : Nat, reply : Answers \cup {"none"}]]
  BY DEF IInv, TypeOK
<1>1. CASE Filter(c)
  <2> DEFINE m == [kind |-> "StartBatch", from |-> c]
  <2>1. client' = [client EXCEPT ![c].phase = "starting"] /\ inbox' = Append(inbox, m) /\ ClientOnly
        /\ client[c].phase = "idle"
    BY <1>1 DEF Filter
  <2>2. client' \in [Clients -> [phase : {"idle", "starting", "fetching", "done"},
                               fetched : Nat, batch : Nat, reply : Answers \cup {"none"}]]
    BY <1>0, <2>1
  <2>3. /\ \A d \in Clients \ {c} : client'[d] = client[d]
        /\ client'[c].phase = "starting" /\ client'[c].reply = client[c].reply
    BY <1>0, <2>1
  <2>4. m \in Requests /\ m.kind # "StopBatch" /\ m.from = c /\ m.kind = "StartBatch" /\ m.kind # "GetTraces"
    BY DEF Requests
  <2>5. ~Expecting(c)
    BY <2>1 DEF Expecting
  <2>6. Expecting(c)'
    BY <2>1, <2>3 DEF Expecting, IInv, Waits, FetchesInOrder
  <2> HIDE DEF m
  <2> QED BY <2>1, <2>2, <2>3, <2>4, <2>5, <2>6, SendsRequest
<1>2. CASE BatchGiven(c)
  <2>1. ~Expecting(c) /\ AsksNext(c, 0) /\ ClientOnly
    BY <1>2 DEF BatchGiven, Expecting
  <2> QED BY <2>1, AsksNextKeeps, BlocksOfRequest
<1>3. CASE TracesGiven(c)
  <2>1. ~Expecting(c) /\ ClientOnly /\ client[c].phase = "fetching"
    BY <1>3 DEF TracesGiven, Expecting
  <2>2. client[c].fetched + 1 \in 0 .. Len(BlocksOf[c])
    BY <2>1, <1>0, BlocksOfRequest DEF IInv, Waits, FetchesInOrder
  <2>3. CASE AsksNext(c, client[c].fetched + 1)
    BY <2>1, <2>2, <2>3, AsksNextKeeps
  <2>4. CASE StopsBatch(c)
    BY <2>1, <2>4, StopsBatchKeeps
  <2> QED BY <1>3, <2>3, <2>4 DEF TracesGiven
<1>4. CASE TracesRefused(c)
  <2>1. ~Expecting(c) /\ StopsBatch(c) /\ ClientOnly
    BY <1>4 DEF TracesRefused, Expecting
  <2> QED BY <2>1, StopsBatchKeeps
<1> QED BY <1>1, <1>2, <1>3, <1>4 DEF Request

-----------------------------------------------------------------------------

\* What the cache task may do to requests that wait: it takes the first s messages
\* from its queue, answers the requests in A, whose senders it drops, and keeps the
\* sender of every other one, that of the message it took in an entry.
KeepsSenders(A, s) ==
    /\ DOMAIN client' = Clients
    /\ \A d \in Clients \ A : client'[d] = client[d]
    /\ \A d \in A : /\ client'[d].phase = client[d].phase
                    /\ client'[d].fetched = client[d].fetched
                    /\ client'[d].reply # "none"
    /\ \A d \in A : \/ s = 1 /\ Carries(1, d)
                    \/ \E b \in DOMAIN cachedBlocks : d \in cachedBlocks[b].waiting
    /\ s \leq Len(inbox)
    /\ DOMAIN inbox' = 1 .. Len(inbox) - s
    /\ \A i \in DOMAIN inbox' : inbox'[i] = inbox[i + s]
    /\ \A b \in DOMAIN cachedBlocks' : \A d \in cachedBlocks'[b].waiting :
           /\ d \in Clients \ A
           /\ IsPooled(b)'
           /\ \/ b \in DOMAIN cachedBlocks /\ d \in cachedBlocks[b].waiting
              \/ s = 1 /\ Carries(1, d) /\ inbox[1].kind = "GetTraces" /\ b = inbox[1].block
    /\ \A b \in DOMAIN cachedBlocks : \A d \in cachedBlocks[b].waiting \ A :
           b \in DOMAIN cachedBlocks' /\ d \in cachedBlocks'[b].waiting
    /\ \A d \in Clients \ A : s = 1 /\ Carries(1, d) =>
           \E b \in DOMAIN cachedBlocks' : d \in cachedBlocks'[b].waiting

\* A task that does no more keeps every request that waits in exactly one place.
LEMMA CacheTaskKeepsSenders ==
    ASSUME IInv, NEW A \in SUBSET Clients, NEW s \in {0, 1}, KeepsSenders(A, s)
    PROVE  Waits'
<1> USE DEF KeepsSenders
<1>0. inbox \in Seq(Requests) /\ Len(inbox) \in Nat /\ DOMAIN inbox = 1 .. Len(inbox)
  BY DEF IInv, TypeOK
<1> HIDE DEF IInv
<1>1. \A i \in DOMAIN inbox' : i + s \in DOMAIN inbox /\ inbox'[i] = inbox[i + s]
  BY <1>0
<1>2. \A d \in A : Expecting(d)
  <2> SUFFICES ASSUME NEW d \in A PROVE Expecting(d)
    OBVIOUS
  <2>1. CASE s = 1 /\ Carries(1, d)
    <3>1. 1 \in DOMAIN inbox
      BY <2>1, <1>0
    <3> QED BY <2>1, <3>1 DEF IInv, Waits, InboxMatches
  <2>2. CASE \E b \in DOMAIN cachedBlocks : d \in cachedBlocks[b].waiting
    BY <2>2 DEF IInv, Waits, WaitersMatch
  <2> QED BY <2>1, <2>2
<1>3. \A d \in Clients : /\ client'[d].phase = client[d].phase /\ AsksFor(d)' = AsksFor(d)
                         /\ Expecting(d)' <=> Expecting(d) /\ d \notin A
  BY DEF AsksFor, Expecting
<1>4. \A i \in DOMAIN inbox', d \in Clients : Carries(i, d)' => Carries(i + s, d)
  BY <1>1 DEF Carries
<1>5. \A i \in DOMAIN inbox', d \in Clients : Carries(i, d)' => ~(s = 1 /\ Carries(1, d))
  <2> SUFFICES ASSUME NEW i \in DOMAIN inbox', NEW d \in Clients, Carries(i, d)',
                      s = 1, Carries(1, d)
               PROVE  FALSE
    OBVIOUS
  <2>1. 1 \in DOMAIN inbox /\ i + 1 \in DOMAIN inbox /\ Carries(i + 1, d)
    BY <1>0, <1>1, <1>4
  <2>2. i + 1 = 1
    BY <2>1 DEF IInv, Waits, InboxOnce
  <2> QED BY <2>2, <1>0
<1>6. FetchesInOrder'
  <2> SUFFICES ASSUME NEW d \in Clients
               PROVE  /\ client'[d].phase = "idle" => client'[d].reply = "none"
                      /\ client'[d].phase = "fetching" => client'[d].fetched < Len(BlocksOf[d])
    BY DEF FetchesInOrder
  <2>1. client'[d].fetched = client[d].fetched /\ (d \notin A => client'[d] = client[d])
    OBVIOUS
  <2> QED BY <2>1, <1>2, <1>3 DEF IInv, Waits, FetchesInOrder, Expecting
<1>7. \A i \in DOMAIN inbox', d \in Clients : Carries(i, d)' =>
          /\ d \notin A
          /\ \A b \in DOMAIN cachedBlocks' : d \notin cachedBlocks'[b].waiting
  <2> SUFFICES ASSUME NEW i \in DOMAIN inbox', NEW d \in Clients, Carries(i, d)'
               PROVE  /\ d \notin A
                      /\ \A b \in DOMAIN cachedBlocks' : d \notin cachedBlocks'[b].waiting
    OBVIOUS
  <2>1. \A b \in DOMAIN cachedBlocks : d \notin cachedBlocks[b].waiting
    BY <1>1, <1>4 DEF IInv, Waits, InboxMatches
  <2> QED BY <2>1, <1>5
<1>8. InboxMatches'
  <2> SUFFICES ASSUME NEW i \in DOMAIN inbox', NEW d \in Clients, Carries(i, d)'
               PROVE  /\ Expecting(d)'
                      /\ \A b \in DOMAIN cachedBlocks' : d \notin cachedBlocks'[b].waiting
                      /\ inbox'[i].kind = "StartBatch" => client'[d].phase = "starting"
                      /\ inbox'[i].kind = "GetTraces" =>
                             client'[d].phase = "fetching" /\ inbox'[i].block = AsksFor(d)'
    BY DEF InboxMatches
  <2>1. Carries(i + s, d) /\ i + s \in DOMAIN inbox /\ inbox'[i] = inbox[i + s]
    BY <1>1, <1>4
  <2>2. /\ Expecting(d)
        /\ inbox[i + s].kind = "StartBatch" => client[d].phase = "starting"
        /\ inbox[i + s].kind = "GetTraces" =>
               client[d].phase = "fetching" /\ inbox[i + s].block = AsksFor(d)
    BY <2>1 DEF IInv, Waits, InboxMatches
  <2> QED BY <2>1, <2>2, <1>3, <1>7
<1>9. InboxOnce'
  <2> SUFFICES ASSUME NEW i \in DOMAIN inbox', NEW j \in DOMAIN inbox', NEW d \in Clients,
                      Carries(i, d)', Carries(j, d)'
               PROVE  i = j
    BY DEF InboxOnce
  <2>1. i + s = j + s
    BY <1>1, <1>4 DEF IInv, Waits, InboxOnce
  <2>2. i \in Int /\ j \in Int /\ s \in Int
    BY <1>0
  <2> QED BY <2>1, <2>2
<1>10. WaitersMatch'
  <2> SUFFICES ASSUME NEW b \in DOMAIN cachedBlocks', NEW d \in cachedBlocks'[b].waiting
               PROVE  /\ Expecting(d)' /\ client'[d].phase = "fetching"
                      /\ b = AsksFor(d)' /\ IsPooled(b)'
    BY DEF WaitersMatch
  <2>1. d \in Clients /\ d \notin A /\ IsPooled(b)'
    OBVIOUS
  <2>2. CASE b \in DOMAIN cachedBlocks /\ d \in cachedBlocks[b].waiting
    BY <2>1, <2>2, <1>3 DEF IInv, Waits, WaitersMatch
  <2>3. CASE s = 1 /\ Carries(1, d) /\ inbox[1].kind = "GetTraces" /\ b = inbox[1].block
    <3>1. 1 \in DOMAIN inbox
      BY <2>3, <1>0
    <3> QED BY <2>1, <2>3, <3>1, <1>3 DEF IInv, Waits, InboxMatches
  <2> QED BY <2>2, <2>3
<1>11. SenderKept'
  <2> SUFFICES ASSUME NEW d \in Clients, Expecting(d)'
               PROVE  \/ \E i \in DOMAIN inbox' : Carries(i, d)'
                      \/ \E b \in DOMAIN cachedBlocks' : d \in cachedBlocks'[b].waiting
    BY DEF SenderKept
  <2>1. Expecting(d) /\ d \notin A
    BY <1>3
  <2>2. CASE \E b \in DOMAIN cachedBlocks : d \in cachedBlocks[b].waiting
    BY <2>1, <2>2
  <2>3. ASSUME NEW j \in DOMAIN inbox, Carries(j, d)
        PROVE  \/ \E i \in DOMAIN inbox' : Carries(i, d)'
               \/ \E b \in DOMAIN cachedBlocks' : d \in cachedBlocks'[b].waiting
    <3>1. CASE s = 1 /\ j = 1
      BY <2>1, <2>3, <3>1
    <3>2. CASE ~(s = 1 /\ j = 1)
      <4>1. j - s \in DOMAIN inbox' /\ (j - s) + s = j
        BY <3>2, <1>0
      <4>2. inbox'[j - s] = inbox[j]
        BY <4>1
      <4>3. \A i \in DOMAIN inbox' : i = j - s => Carries(i, d)'
        BY <2>3, <4>2 DEF Carries
      <4> QED BY <4>1, <4>3
    <3> QED BY <3>1, <3>2
  <2> QED BY <2>1, <2>2, <2>3 DEF IInv, Waits, SenderKept
<1> QED BY <1>6, <1>8, <1>9, <1>10, <1>11 DEF Waits

\* The queue without its first message.
LEMMA TailOfInbox ==
    ASSUME IInv, inbox # <<>>, inbox' = Tail(inbox)
    PROVE  /\ inbox' \in Seq(Requests)
           /\ 1 \leq Len(inbox) /\ Len(inbox) \in Nat
           /\ Head(inbox) = inbox[1] /\ inbox[1] \in Requests
           /\ DOMAIN inbox' = 1 .. Len(inbox) - 1
           /\ \A i \in DOMAIN inbox' : inbox'[i] = inbox[i + 1]
BY DEF IInv, TypeOK

LEMMA StartBatchKeeps == ASSUME IInv, RequestStartBatch PROVE IInv'
<1> DEFINE c == Head(inbox).from
           missing == CacheMisses(c)
<1>1. /\ inbox # <<>> /\ inbox' = Tail(inbox) /\ Head(inbox).kind = "StartBatch"
      /\ batches' = [id \in DOMAIN batches \cup {nextBatchId} |->
                           IF id = nextBatchId THEN BlockSet(c) ELSE batches[id]]
      /\ cachedBlocks' =
                [b \in DOMAIN cachedBlocks \cup missing |->
                    IF b \in missing THEN NewEntry(nextBatchId)
                    ELSE IF b \in BlockSet(c) THEN CacheHit(cachedBlocks[b])
                    ELSE cachedBlocks[b]]
      /\ tracers' = [t \in DOMAIN tracers \cup ({nextBatchId} \X missing) |->
                           IF t \in DOMAIN tracers THEN tracers[t] ELSE "queued"]
      /\ client' = [client EXCEPT ![c].batch = nextBatchId, ![c].reply = "batch"]
      /\ nextBatchId' = nextBatchId + 1
      /\ UNCHANGED <<expirations, channel, debugPermits>>
  BY DEF RequestStartBatch, HeadIs
<1>2. /\ inbox' \in Seq(Requests)
      /\ 1 \leq Len(inbox) /\ Len(inbox) \in Nat
      /\ Head(inbox) = inbox[1] /\ inbox[1] \in Requests
      /\ DOMAIN inbox' = 1 .. Len(inbox) - 1
      /\ \A i \in DOMAIN inbox' : inbox'[i] = inbox[i + 1]
  BY <1>1, TailOfInbox
<1>3. c \in Clients /\ Carries(1, c)
  BY <1>1, <1>2 DEF Requests, Carries
<1>4. BlockSet(c) \subseteq Blocks /\ IsFiniteSet(BlockSet(c))
  BY <1>3, BlocksOfRequest
<1>5. missing \subseteq BlockSet(c) /\ missing \cap DOMAIN cachedBlocks = {} /\ IsFiniteSet(missing)
  <2>1. missing = BlockSet(c) \ DOMAIN cachedBlocks
    BY DEF CacheMisses
  <2> QED BY <2>1, <1>4, FS_Subset
<1> HIDE DEF c, missing
<1>6. \A b \in DOMAIN cachedBlocks :
          /\ b \in DOMAIN cachedBlocks' /\ cachedBlocks[b] \in Entries
          /\ cachedBlocks'[b] \in Entries
          /\ cachedBlocks'[b].waiting = cachedBlocks[b].waiting
          /\ cachedBlocks'[b].state = cachedBlocks[b].state
          /\ cachedBlocks'[b].tracer = cachedBlocks[b].tracer
  <2> SUFFICES ASSUME NEW b \in DOMAIN cachedBlocks
               PROVE  /\ cachedBlocks[b] \in Entries
                      /\ cachedBlocks'[b] \in Entries
                      /\ cachedBlocks'[b].waiting = cachedBlocks[b].waiting
                      /\ cachedBlocks'[b].state = cachedBlocks[b].state
                      /\ cachedBlocks'[b].tracer = cachedBlocks[b].tracer
    BY <1>1
  <2>1. cachedBlocks'[b] \in {cachedBlocks[b], CacheHit(cachedBlocks[b])}
    BY <1>1, <1>5
  <2>2. cachedBlocks[b] \in Entries
    BY DEF IInv, TypeOK
  <2> QED BY <2>1, <2>2 DEF CacheHit, Entries
<1>7. \A b \in missing : cachedBlocks'[b] = NewEntry(nextBatchId)
  BY <1>1
<1>8. DOMAIN cachedBlocks' = DOMAIN cachedBlocks \cup missing
  BY <1>1
<1>9. /\ DOMAIN tracers' = DOMAIN tracers \cup ({nextBatchId} \X missing)
      /\ \A t \in DOMAIN tracers : tracers'[t] = tracers[t]
      /\ \A t \in DOMAIN tracers' : t \notin DOMAIN tracers => tracers'[t] = "queued"
  BY <1>1
<1>10. /\ \A d \in Clients \ {c} : client'[d] = client[d]
       /\ client'[c].phase = client[c].phase
       /\ client'[c].fetched = client[c].fetched
       /\ client'[c].reply = "batch"
       /\ client' \in [Clients -> [phase : {"idle", "starting", "fetching", "done"},
                               fetched : Nat, batch : Nat, reply : Answers \cup {"none"}]]
  <2> DEFINE old == client[c]
             new == [old EXCEPT !.batch = nextBatchId, !.reply = "batch"]
  <2>1. client' = [client EXCEPT ![c] = new]
    BY <1>1
  <2>2. client \in [Clients -> ClientType] /\ nextBatchId \in Nat
    BY DEF IInv, TypeOK, ClientType
  <2>3. /\ new \in ClientType /\ new.phase = old.phase /\ new.fetched = old.fetched
        /\ new.reply = "batch"
    BY <1>3, <2>2 DEF ClientType, Answers
  <2> HIDE DEF old, new
  <2>4. client' \in [Clients -> ClientType] /\ client'[c] = new
    BY <1>3, <2>1, <2>2, <2>3
  <2>5. \A d \in Clients \ {c} : client'[d] = client[d]
    BY <2>1, <2>2
  <2> QED BY <2>3, <2>4, <2>5 DEF old, ClientType
<1>11. TypeOK'
  <2>1. NewEntry(nextBatchId) \in Entries
    BY DEF IInv, TypeOK, NewEntry, Entries
  <2>2. /\ DOMAIN cachedBlocks' \subseteq Blocks
        /\ \A b \in DOMAIN cachedBlocks' : cachedBlocks'[b] \in Entries
    BY <2>1, <1>4, <1>5, <1>6, <1>7, <1>8 DEF IInv, TypeOK
  <2>3. /\ DOMAIN batches' = DOMAIN batches \cup {nextBatchId}
        /\ \A id \in DOMAIN batches' :
               batches'[id] = IF id = nextBatchId THEN BlockSet(c) ELSE batches[id]
    BY <1>1
  <2>4. /\ DOMAIN batches' \subseteq Nat
        /\ \A id \in DOMAIN batches' : batches'[id] \subseteq Blocks
    BY <2>3, <1>4 DEF IInv, TypeOK
  <2>5. /\ DOMAIN tracers' \subseteq Nat \X Blocks
        /\ \A t \in DOMAIN tracers' : tracers'[t] \in {"queued", "granted", "tracing"}
    BY <1>4, <1>5, <1>9 DEF IInv, TypeOK
  <2>6. nextBatchId' \in Nat /\ expirations' \subseteq DOMAIN batches'
    BY <1>1, <2>3 DEF IInv, TypeOK
  <2> QED BY <1>1, <1>2, <1>10, <2>2, <2>4, <2>5, <2>6 DEF IInv, TypeOK
<1>12. Waits'
  <2>1. \A b \in DOMAIN cachedBlocks' : \A d \in cachedBlocks'[b].waiting :
            /\ d \in Clients \ {c} /\ IsPooled(b)'
            /\ b \in DOMAIN cachedBlocks /\ d \in cachedBlocks[b].waiting
    <3> SUFFICES ASSUME NEW b \in DOMAIN cachedBlocks', NEW d \in cachedBlocks'[b].waiting
                 PROVE  /\ d \in Clients \ {c} /\ IsPooled(b)'
                        /\ b \in DOMAIN cachedBlocks /\ d \in cachedBlocks[b].waiting
      OBVIOUS
    <3>1. b \in DOMAIN cachedBlocks /\ d \in cachedBlocks[b].waiting /\ d \in Clients
      BY <1>6, <1>7, <1>8 DEF NewEntry, Entries
    <3>2. d # c
      BY <3>1, <1>2, <1>3 DEF IInv, Waits, InboxMatches
    <3>3. IsPooled(b)
      BY <3>1 DEF IInv, Waits, WaitersMatch
    <3> QED BY <3>1, <3>2, <3>3, <1>6, <1>8 DEF IsPooled
  <2>2. \A b \in DOMAIN cachedBlocks : \A d \in cachedBlocks[b].waiting \ {c} :
            b \in DOMAIN cachedBlocks' /\ d \in cachedBlocks'[b].waiting
    BY <1>6
  <2>3. \A d \in Clients \ {c} : ~Carries(1, d)
    BY <1>3 DEF Carries
  <2>4. KeepsSenders({c}, 1)
    BY <1>2, <1>3, <1>10, <2>1, <2>2, <2>3 DEF KeepsSenders
  <2> QED BY <1>3, <2>4, CacheTaskKeepsSenders
<1>13. TracerAlive'
  <2> SUFFICES ASSUME NEW b \in DOMAIN cachedBlocks', IsPooled(b)'
               PROVE  <<cachedBlocks'[b].tracer, b>> \in DOMAIN tracers' \/ Pending("Finished", b)'
    BY DEF TracerAlive
  <2>1. CASE b \in missing
    BY <2>1, <1>7, <1>9 DEF NewEntry
  <2>2. CASE b \in DOMAIN cachedBlocks
    <3>1. IsPooled(b) /\ cachedBlocks'[b].tracer = cachedBlocks[b].tracer
      BY <2>2, <1>6 DEF IsPooled
    <3>2. Pending("Finished", b)' <=> Pending("Finished", b)
      BY <1>1 DEF Pending
    <3> QED BY <2>2, <3>1, <3>2, <1>9 DEF IInv, TracerAlive
  <2> QED BY <2>1, <2>2, <1>8
<1>14. TracersFinite'
  <2>1. IsFiniteSet({nextBatchId} \X missing)
    BY <1>5, FS_Singleton, FS_Product
  <2>2. IsFiniteSet(DOMAIN tracers)
    BY DEF IInv, TracersFinite
  <2>3. IsFiniteSet(DOMAIN tracers \cup ({nextBatchId} \X missing))
    BY <2>1, <2>2, FS_Union
  <2> QED BY <2>3, <1>9 DEF TracersFinite
<1> QED BY <1>11, <1>12, <1>13, <1>14 DEF IInv

\* What answers some requests and leaves everything else of them.
LEMMA AnsweredFacts ==
    ASSUME IInv, NEW A \in SUBSET Clients, NEW answer \in Answers,
           client' = Answered(A, answer)
    PROVE  /\ DOMAIN client' = Clients
           /\ \A d \in Clients \ A : client'[d] = client[d]
           /\ \A d \in A : /\ client'[d].phase = client[d].phase
                           /\ client'[d].fetched = client[d].fetched
                           /\ client'[d].reply # "none"
           /\ client' \in [Clients -> [phase : {"idle", "starting", "fetching", "done"},
                                       fetched : Nat, batch : Nat,
                                       reply : Answers \cup {"none"}]]
<1>1. client \in [Clients -> [phase : {"idle", "starting", "fetching", "done"},
                               fetched : Nat, batch : Nat, reply : Answers \cup {"none"}]]
  BY DEF IInv, TypeOK
<1>2. answer # "none"
  BY DEF Answers
<1>3. /\ DOMAIN client' = Clients
      /\ \A d \in Clients : client'[d] = IF d \in A THEN [client[d] EXCEPT !.reply = answer]
                                                    ELSE client[d]
  BY DEF Answered
<1> QED BY <1>1, <1>2, <1>3 DEF Answered

LEMMA GetTracesKeeps == ASSUME IInv, RequestGetTraces PROVE IInv'
<1> DEFINE c == Head(inbox).from
           b == Head(inbox).block
<1>1. /\ inbox # <<>> /\ inbox' = Tail(inbox) /\ Head(inbox).kind = "GetTraces"
      /\ UNCHANGED <<batches, nextBatchId, expirations, tracers, channel, debugPermits>>
  BY DEF RequestGetTraces, HeadIs
<1>2. /\ inbox' \in Seq(Requests)
      /\ 1 \leq Len(inbox) /\ Len(inbox) \in Nat
      /\ Head(inbox) = inbox[1] /\ inbox[1] \in Requests
      /\ DOMAIN inbox' = 1 .. Len(inbox) - 1
      /\ \A i \in DOMAIN inbox' : inbox'[i] = inbox[i + 1]
  BY <1>1, TailOfInbox
<1>3. c \in Clients /\ Carries(1, c) /\ inbox[1].kind = "GetTraces" /\ b = inbox[1].block
  BY <1>1, <1>2 DEF Requests, Carries
<1>4. \A d \in Clients \ {c} : ~Carries(1, d)
  BY <1>3 DEF Carries
<1>5. \A x \in DOMAIN cachedBlocks : c \notin cachedBlocks[x].waiting
  BY <1>2, <1>3 DEF IInv, Waits, InboxMatches
<1>6. \A x \in DOMAIN cachedBlocks : \A d \in cachedBlocks[x].waiting : d \in Clients /\ IsPooled(x)
  BY DEF IInv, TypeOK, Entries, Waits, WaitersMatch
<1> HIDE DEF c, b
<1>7. CASE IsPooled(b) /\ cachedBlocks' = [cachedBlocks EXCEPT ![b].waiting = @ \cup {c}]
           /\ UNCHANGED client
  <2>1. /\ b \in DOMAIN cachedBlocks /\ DOMAIN cachedBlocks' = DOMAIN cachedBlocks
        /\ \A x \in DOMAIN cachedBlocks :
               cachedBlocks'[x] = IF x = b THEN [cachedBlocks[b] EXCEPT !.waiting = @ \cup {c}]
                                           ELSE cachedBlocks[x]
    BY <1>7 DEF IsPooled
  <2>2. \A x \in DOMAIN cachedBlocks :
            /\ cachedBlocks'[x] \in Entries
            /\ cachedBlocks'[x].state = cachedBlocks[x].state
            /\ cachedBlocks'[x].tracer = cachedBlocks[x].tracer
            /\ cachedBlocks'[x].waiting =
                   IF x = b THEN cachedBlocks[b].waiting \cup {c} ELSE cachedBlocks[x].waiting
    <3> SUFFICES ASSUME NEW x \in DOMAIN cachedBlocks
                 PROVE  /\ cachedBlocks'[x] \in Entries
                        /\ cachedBlocks'[x].state = cachedBlocks[x].state
                        /\ cachedBlocks'[x].tracer = cachedBlocks[x].tracer
                        /\ cachedBlocks'[x].waiting = IF x = b THEN cachedBlocks[b].waiting \cup {c}
                                                              ELSE cachedBlocks[x].waiting
      OBVIOUS
    <3>1. cachedBlocks[x] \in Entries
      BY DEF IInv, TypeOK
    <3>2. CASE x = b
      <4>1. cachedBlocks'[x] = [cachedBlocks[x] EXCEPT !.waiting = @ \cup {c}]
        BY <2>1, <3>2
      <4> QED BY <3>1, <3>2, <4>1, <1>3 DEF Entries
    <3>3. CASE x # b
      BY <2>1, <3>1, <3>3
    <3> QED BY <3>2, <3>3
  <2>3. \A x \in DOMAIN cachedBlocks : IsPooled(x)' <=> IsPooled(x)
    BY <2>1, <2>2 DEF IsPooled
  <2>4. TypeOK'
    BY <1>1, <1>2, <1>7, <2>1, <2>2 DEF IInv, TypeOK
  <2>5. KeepsSenders({}, 1)
    <3>1. \A x \in DOMAIN cachedBlocks' : \A d \in cachedBlocks'[x].waiting :
             /\ d \in Clients
             /\ IsPooled(x)'
             /\ \/ x \in DOMAIN cachedBlocks /\ d \in cachedBlocks[x].waiting
                \/ Carries(1, d) /\ inbox[1].kind = "GetTraces" /\ x = inbox[1].block
      BY <1>3, <1>6, <1>7, <2>1, <2>2, <2>3
    <3>2. DOMAIN client' = Clients
      BY <1>7 DEF IInv, TypeOK
    <3>3. \A x \in DOMAIN cachedBlocks : \A d \in cachedBlocks[x].waiting :
              x \in DOMAIN cachedBlocks' /\ d \in cachedBlocks'[x].waiting
      BY <2>1, <2>2
    <3>4. \A d \in Clients : Carries(1, d) =>
              \E x \in DOMAIN cachedBlocks' : d \in cachedBlocks'[x].waiting
      BY <1>4, <2>1, <2>2
    <3> QED BY <1>2, <1>7, <3>1, <3>2, <3>3, <3>4 DEF KeepsSenders
  <2>6. Waits'
    BY <2>5, CacheTaskKeepsSenders
  <2>7. TracerAlive' /\ TracersFinite'
    BY <1>1, <2>1, <2>2, <2>3 DEF IInv, TracerAlive, TracersFinite, Pending
  <2> QED BY <2>4, <2>6, <2>7 DEF IInv
<1>8. ASSUME NEW answer \in Answers, client' = Answered({c}, answer), UNCHANGED cachedBlocks
      PROVE  IInv'
  <2>1. /\ DOMAIN client' = Clients
        /\ \A d \in Clients \ {c} : client'[d] = client[d]
        /\ \A d \in {c} : /\ client'[d].phase = client[d].phase
                          /\ client'[d].fetched = client[d].fetched
                          /\ client'[d].reply # "none"
        /\ client' \in [Clients -> [phase : {"idle", "starting", "fetching", "done"},
                                    fetched : Nat, batch : Nat,
                                    reply : Answers \cup {"none"}]]
    BY <1>3, <1>8, AnsweredFacts
  <2>2. \A x : IsPooled(x)' <=> IsPooled(x)
    BY <1>8 DEF IsPooled
  <2>3. TypeOK'
    BY <1>1, <1>2, <1>8, <2>1 DEF IInv, TypeOK
  <2>4. KeepsSenders({c}, 1)
    BY <1>2, <1>3, <1>4, <1>5, <1>6, <1>8, <2>1, <2>2 DEF KeepsSenders
  <2>5. Waits'
    BY <1>3, <2>4, CacheTaskKeepsSenders
  <2>6. TracerAlive' /\ TracersFinite'
    BY <1>1, <1>8, <2>2 DEF IInv, TracerAlive, TracersFinite, Pending
  <2> QED BY <2>3, <2>5, <2>6 DEF IInv
<1>9. CASE b \in DOMAIN cachedBlocks /\ ~IsPooled(b)
           /\ client' = Answered({c}, cachedBlocks[b].state) /\ UNCHANGED cachedBlocks
  <2>1. cachedBlocks[b].state \in Answers
    BY <1>9 DEF IInv, TypeOK, Entries, IsPooled, Answers
  <2> QED BY <2>1, <1>8, <1>9
<1>10. CASE client' = Answered({c}, "unbatched") /\ UNCHANGED cachedBlocks
  BY <1>8, <1>10 DEF Answers
<1> QED BY <1>7, <1>9, <1>10 DEF RequestGetTraces, c, b

\* The entries of the blocks gone are dropped, and those that wait in them answered,
\* while s messages are taken from the queue.
Drops(gone, s) ==
    /\ client' = Answered(WaitingOn(gone), "closed")
    /\ DOMAIN cachedBlocks' = DOMAIN cachedBlocks \ gone
    /\ \A b \in DOMAIN cachedBlocks' :
           /\ cachedBlocks'[b].state = cachedBlocks[b].state
           /\ cachedBlocks'[b].waiting = cachedBlocks[b].waiting
           /\ cachedBlocks'[b].tracer = cachedBlocks[b].tracer
    /\ s \leq Len(inbox)
    /\ DOMAIN inbox' = 1 .. Len(inbox) - s
    /\ \A i \in DOMAIN inbox' : inbox'[i] = inbox[i + s]
    /\ s = 1 => inbox[1].kind = "StopBatch"
    /\ UNCHANGED <<tracers, channel>>

\* Dropping some entries answers those that wait in them and touches nobody else.
LEMMA DropKeeps ==
    ASSUME IInv, NEW gone, NEW s \in {0, 1}, Drops(gone, s)
    PROVE  /\ Waits' /\ TracerAlive' /\ TracersFinite'
           /\ client' \in [Clients -> [phase : {"idle", "starting", "fetching", "done"},
                                       fetched : Nat, batch : Nat,
                                       reply : Answers \cup {"none"}]]
<1> USE DEF Drops
<1> DEFINE A == WaitingOn(gone)
<1>1. \A b \in DOMAIN cachedBlocks : \A d \in cachedBlocks[b].waiting :
          d \in Clients /\ IsPooled(b) /\ b = AsksFor(d)
  BY DEF IInv, TypeOK, Entries, Waits, WaitersMatch
<1>2. A \in SUBSET Clients
  BY <1>1 DEF WaitingOn
<1>3. \A b \in DOMAIN cachedBlocks : \A d \in cachedBlocks[b].waiting : d \in A <=> b \in gone
  <2> SUFFICES ASSUME NEW b \in DOMAIN cachedBlocks, NEW d \in cachedBlocks[b].waiting
               PROVE  d \in A <=> b \in gone
    OBVIOUS
  <2>1. b \in gone => d \in A
    BY DEF WaitingOn
  <2>2. ASSUME d \in A PROVE b \in gone
    <3>1. PICK x \in gone \cap DOMAIN cachedBlocks : d \in cachedBlocks[x].waiting
      BY <2>2 DEF WaitingOn
    <3> QED BY <3>1, <1>1
  <2> QED BY <2>1, <2>2
<1>4. \A d \in A : \E b \in DOMAIN cachedBlocks : d \in cachedBlocks[b].waiting
  BY DEF WaitingOn
<1>5. client' = Answered(A, "closed") /\ "closed" \in Answers
  BY DEF Answers
<1> HIDE DEF A
<1>6. /\ DOMAIN client' = Clients
      /\ \A d \in Clients \ A : client'[d] = client[d]
      /\ \A d \in A : /\ client'[d].phase = client[d].phase
                      /\ client'[d].fetched = client[d].fetched
                      /\ client'[d].reply # "none"
      /\ client' \in [Clients -> [phase : {"idle", "starting", "fetching", "done"},
                                  fetched : Nat, batch : Nat,
                                  reply : Answers \cup {"none"}]]
  BY <1>2, <1>5, AnsweredFacts
<1>7. \A b \in DOMAIN cachedBlocks' : b \in DOMAIN cachedBlocks /\ b \notin gone
                                      /\ (IsPooled(b)' <=> IsPooled(b))
  BY DEF IsPooled
<1>8. KeepsSenders(A, s)
  <2>1. \A b \in DOMAIN cachedBlocks' : \A d \in cachedBlocks'[b].waiting :
            /\ d \in Clients \ A /\ IsPooled(b)'
            /\ b \in DOMAIN cachedBlocks /\ d \in cachedBlocks[b].waiting
    BY <1>1, <1>3, <1>7
  <2>2. \A b \in DOMAIN cachedBlocks : \A d \in cachedBlocks[b].waiting \ A :
            b \in DOMAIN cachedBlocks' /\ d \in cachedBlocks'[b].waiting
    BY <1>3
  <2>3. \A d \in Clients : ~(s = 1 /\ Carries(1, d))
    BY DEF Carries
  <2> QED BY <1>4, <1>6, <2>1, <2>2, <2>3 DEF KeepsSenders
<1>9. Waits'
  BY <1>2, <1>8, CacheTaskKeepsSenders
<1>10. TracerAlive' /\ TracersFinite'
  BY <1>7 DEF IInv, TracerAlive, TracersFinite, Pending
<1> QED BY <1>6, <1>9, <1>10

LEMMA StopBatchKeeps == ASSUME IInv, BatchesOwned, RequestStopBatch PROVE IInv'
<1> DEFINE id == Head(inbox).batch
           gone == Unneeded(id)
<1>1. /\ inbox # <<>> /\ inbox' = Tail(inbox) /\ Head(inbox).kind = "StopBatch"
      /\ expirations' = expirations \cup {id}
      /\ client' = Answered(WaitingOn(gone), "closed")
      /\ cachedBlocks' = DropEntries(gone)
      /\ UNCHANGED <<batches, nextBatchId, tracers, channel, debugPermits>>
  BY DEF RequestStopBatch, HeadIs
<1>2. /\ inbox' \in Seq(Requests)
      /\ 1 \leq Len(inbox) /\ Len(inbox) \in Nat
      /\ Head(inbox) = inbox[1] /\ inbox[1] \in Requests
      /\ DOMAIN inbox' = 1 .. Len(inbox) - 1
      /\ \A i \in DOMAIN inbox' : inbox'[i] = inbox[i + 1]
  BY <1>1, TailOfInbox
<1> HIDE DEF id, gone
<1>3. /\ DOMAIN cachedBlocks' = DOMAIN cachedBlocks \ gone
      /\ \A b \in DOMAIN cachedBlocks' : cachedBlocks'[b] = cachedBlocks[b]
  BY <1>1 DEF DropEntries, Restrict
<1>4. /\ Waits' /\ TracerAlive' /\ TracersFinite'
      /\ client' \in [Clients -> [phase : {"idle", "starting", "fetching", "done"},
                                  fetched : Nat, batch : Nat,
                                  reply : Answers \cup {"none"}]]
  <2>1. Drops(gone, 1)
    BY <1>1, <1>2, <1>3 DEF Drops
  <2> QED BY <2>1, DropKeeps
<1>5. id \in DOMAIN batches
  <2>1. 1 \in DOMAIN inbox /\ id \in Nat /\ Stops(1, id)
    BY <1>1, <1>2 DEF id, Stops, Requests
  <2> QED BY <2>1 DEF BatchesOwned
<1>6. TypeOK'
  BY <1>1, <1>2, <1>3, <1>4, <1>5 DEF IInv, TypeOK
<1> QED BY <1>4, <1>6 DEF IInv

LEMMA ExpiredKeeps == ASSUME IInv, NEW id \in BatchIds, ExpiredBatch(id) PROVE IInv'
<1> DEFINE gone == OnlyUsedBy(id)
<1>1. /\ client' = Answered(WaitingOn(gone), "closed")
      /\ cachedBlocks' =
                [b \in DOMAIN cachedBlocks \ gone |->
                    IF b \in batches[id] THEN [cachedBlocks[b] EXCEPT !.count = @ - 1]
                                         ELSE cachedBlocks[b]]
      /\ batches' = Restrict(batches, DOMAIN batches \ {id})
      /\ expirations' = expirations \ {id}
      /\ UNCHANGED <<inbox, nextBatchId, tracers, channel, debugPermits>>
  BY DEF ExpiredBatch
<1>2. \A b \in DOMAIN cachedBlocks \ gone : b \in batches[id] => cachedBlocks[b].count # 1
  BY DEF OnlyUsedBy
<1> HIDE DEF gone
<1>3. /\ DOMAIN cachedBlocks' = DOMAIN cachedBlocks \ gone
      /\ \A b \in DOMAIN cachedBlocks' :
             /\ cachedBlocks'[b] \in Entries
             /\ cachedBlocks'[b].state = cachedBlocks[b].state
             /\ cachedBlocks'[b].waiting = cachedBlocks[b].waiting
             /\ cachedBlocks'[b].tracer = cachedBlocks[b].tracer
  <2> SUFFICES ASSUME NEW b \in DOMAIN cachedBlocks \ gone
               PROVE  /\ cachedBlocks'[b] \in Entries
                      /\ cachedBlocks'[b].state = cachedBlocks[b].state
                      /\ cachedBlocks'[b].waiting = cachedBlocks[b].waiting
                      /\ cachedBlocks'[b].tracer = cachedBlocks[b].tracer
    BY <1>1
  <2>1. cachedBlocks[b] \in Entries
    BY DEF IInv, TypeOK
  <2>2. CASE b \in batches[id]
    <3>1. cachedBlocks'[b] = [cachedBlocks[b] EXCEPT !.count = @ - 1]
      BY <1>1, <2>2
    <3>2. cachedBlocks[b].count - 1 \in Nat \ {0}
      BY <1>2, <2>1, <2>2 DEF Entries
    <3> QED BY <2>1, <3>1, <3>2 DEF Entries
  <2>3. CASE b \notin batches[id]
    BY <1>1, <2>1, <2>3
  <2> QED BY <2>2, <2>3
<1>4. inbox \in Seq(Requests) /\ Len(inbox) \in Nat /\ DOMAIN inbox = 1 .. Len(inbox)
  BY DEF IInv, TypeOK
<1>5. /\ Waits' /\ TracerAlive' /\ TracersFinite'
      /\ client' \in [Clients -> [phase : {"idle", "starting", "fetching", "done"},
                                  fetched : Nat, batch : Nat,
                                  reply : Answers \cup {"none"}]]
  <2>1. /\ 0 \leq Len(inbox) /\ DOMAIN inbox' = 1 .. Len(inbox) - 0
        /\ \A i \in DOMAIN inbox' : inbox'[i] = inbox[i + 0]
    BY <1>1, <1>4
  <2>2. Drops(gone, 0)
    BY <1>1, <1>3, <2>1 DEF Drops
  <2> QED BY <2>2, DropKeeps
<1>6. TypeOK'
  <2>1. DOMAIN batches' = DOMAIN batches \ {id} /\ \A x \in DOMAIN batches' : batches'[x] = batches[x]
    BY <1>1 DEF Restrict
  <2> QED BY <1>1, <1>3, <1>5, <2>1 DEF IInv, TypeOK
<1> QED BY <1>5, <1>6 DEF IInv

-----------------------------------------------------------------------------

\* What tracers send.
Messages == [kind : {"Started"}, block : Blocks]
            \cup [kind : {"Finished"}, block : Blocks, result : {"traces", "failed"}]

\* Taking a message leaves the pending results of every other block pending.
LEMMA TailOfChannel ==
    ASSUME IInv, channel # <<>>, channel' = Tail(channel)
    PROVE  /\ channel' \in Seq(Messages)
           /\ Head(channel) \in Messages
           /\ \A b : Pending("Finished", b) /\ Head(channel).kind = "Started"
                         => Pending("Finished", b)'
           /\ \A b : Pending("Finished", b) /\ Head(channel).block # b
                         => Pending("Finished", b)'
<1>1. /\ channel \in Seq(Messages) /\ channel' \in Seq(Messages)
      /\ Head(channel) = channel[1] /\ Head(channel) \in Messages
      /\ Len(channel) \in Nat /\ DOMAIN channel = 1 .. Len(channel)
      /\ DOMAIN channel' = 1 .. Len(channel) - 1
      /\ \A i \in DOMAIN channel' : channel'[i] = channel[i + 1]
  <2>1. channel \in Seq(Messages)
    BY DEF IInv, TypeOK, Messages
  <2> QED BY <2>1
<1>2. ASSUME NEW b, Pending("Finished", b),
             Head(channel).kind = "Started" \/ Head(channel).block # b
      PROVE  Pending("Finished", b)'
  <2>1. PICK i \in DOMAIN channel : channel[i].kind = "Finished" /\ channel[i].block = b
    BY <1>2 DEF Pending
  <2>2. i # 1
    BY <1>1, <1>2, <2>1
  <2>3. i - 1 \in DOMAIN channel' /\ channel'[i - 1] = channel[i]
    BY <1>1, <2>2
  <2> QED BY <2>1, <2>3 DEF Pending
<1> QED BY <1>1, <1>2

\* Sending a message leaves the pending results pending and adds its own.
LEMMA ChannelAppended ==
    ASSUME IInv, NEW m \in Messages, channel' = Append(channel, m)
    PROVE  /\ channel' \in Seq(Messages)
           /\ \A b : Pending("Finished", b) => Pending("Finished", b)'
           /\ m.kind = "Finished" => Pending("Finished", m.block)'
<1>1. /\ channel' \in Seq(Messages)
      /\ Len(channel) \in Nat /\ DOMAIN channel = 1 .. Len(channel)
      /\ DOMAIN channel' = 1 .. Len(channel) + 1
      /\ \A i \in DOMAIN channel : channel'[i] = channel[i]
      /\ channel'[Len(channel) + 1] = m
  <2>1. channel \in Seq(Messages)
    BY DEF IInv, TypeOK, Messages
  <2> QED BY <2>1
<1>2. \A b : Pending("Finished", b) => Pending("Finished", b)'
  BY <1>1 DEF Pending
<1>3. m.kind = "Finished" => Pending("Finished", m.block)'
  BY <1>1 DEF Pending
<1> QED BY <1>1, <1>2, <1>3

\* What the tracers' messages do with the queue of requests: nothing.
LEMMA InboxStays ==
    ASSUME IInv, UNCHANGED inbox
    PROVE  /\ inbox' \in Seq(Requests)
           /\ 0 \leq Len(inbox) /\ DOMAIN inbox' = 1 .. Len(inbox) - 0
           /\ \A i \in DOMAIN inbox' : inbox'[i] = inbox[i + 0]
<1>1. inbox \in Seq(Requests) /\ Len(inbox) \in Nat /\ DOMAIN inbox = 1 .. Len(inbox)
  BY DEF IInv, TypeOK
<1> QED BY <1>1

LEMMA BlockingStartedKeeps == ASSUME IInv, BlockingStarted PROVE IInv'
<1> DEFINE b == Head(channel).block
<1>1. /\ channel # <<>> /\ Head(channel).kind = "Started" /\ channel' = Tail(channel)
      /\ cachedBlocks' = IF IsPooled(b) THEN [cachedBlocks EXCEPT ![b].state = "started"]
                                        ELSE cachedBlocks
      /\ UNCHANGED <<client, inbox, batches, nextBatchId, expirations, tracers, debugPermits>>
  BY DEF BlockingStarted
<1> HIDE DEF b
<1>2. /\ DOMAIN cachedBlocks' = DOMAIN cachedBlocks
      /\ \A x \in DOMAIN cachedBlocks :
             /\ cachedBlocks'[x] \in Entries
             /\ cachedBlocks'[x].waiting = cachedBlocks[x].waiting
             /\ cachedBlocks'[x].tracer = cachedBlocks[x].tracer
             /\ IsPooled(x)' <=> IsPooled(x)
  <2>1. DOMAIN cachedBlocks' = DOMAIN cachedBlocks
    BY <1>1
  <2>2. ASSUME NEW x \in DOMAIN cachedBlocks
        PROVE  /\ cachedBlocks'[x] \in Entries
               /\ cachedBlocks'[x].waiting = cachedBlocks[x].waiting
               /\ cachedBlocks'[x].tracer = cachedBlocks[x].tracer
               /\ IsPooled(x)' <=> IsPooled(x)
    <3>1. cachedBlocks[x] \in Entries
      BY DEF IInv, TypeOK
    <3>2. CASE x = b /\ IsPooled(b)
      <4>1. cachedBlocks'[x] = [cachedBlocks[x] EXCEPT !.state = "started"]
        BY <1>1, <3>2
      <4> QED BY <3>1, <3>2, <4>1, <2>1 DEF Entries, IsPooled
    <3>3. CASE ~(x = b /\ IsPooled(b))
      <4>1. cachedBlocks'[x] = cachedBlocks[x]
        BY <1>1, <3>3
      <4> QED BY <3>1, <4>1, <2>1 DEF IsPooled
    <3> QED BY <3>2, <3>3
  <2> QED BY <2>1, <2>2
<1>3. /\ inbox' \in Seq(Requests)
      /\ 0 \leq Len(inbox) /\ DOMAIN inbox' = 1 .. Len(inbox) - 0
      /\ \A i \in DOMAIN inbox' : inbox'[i] = inbox[i + 0]
  BY <1>1, InboxStays
<1>4. \A x \in DOMAIN cachedBlocks : \A d \in cachedBlocks[x].waiting : d \in Clients /\ IsPooled(x)
  BY DEF IInv, TypeOK, Entries, Waits, WaitersMatch
<1>5. Waits'
  <2>1. KeepsSenders({}, 0)
    <3>1. \A x \in DOMAIN cachedBlocks' : \A d \in cachedBlocks'[x].waiting :
              d \in Clients /\ IsPooled(x)' /\ x \in DOMAIN cachedBlocks
              /\ d \in cachedBlocks[x].waiting
      BY <1>2, <1>4
    <3>2. \A x \in DOMAIN cachedBlocks : \A d \in cachedBlocks[x].waiting :
              x \in DOMAIN cachedBlocks' /\ d \in cachedBlocks'[x].waiting
      BY <1>2
    <3>3. DOMAIN client' = Clients /\ client' = client
      BY <1>1 DEF IInv, TypeOK
    <3> QED BY <1>3, <3>1, <3>2, <3>3 DEF KeepsSenders
  <2> QED BY <2>1, CacheTaskKeepsSenders
<1>6. channel' \in Seq(Messages) /\ \A x : Pending("Finished", x) => Pending("Finished", x)'
  BY <1>1, TailOfChannel
<1>7. TypeOK'
  BY <1>1, <1>2, <1>3, <1>6 DEF IInv, TypeOK, Messages
<1>8. TracerAlive' /\ TracersFinite'
  BY <1>1, <1>2, <1>6 DEF IInv, TracerAlive, TracersFinite
<1> QED BY <1>5, <1>7, <1>8 DEF IInv

LEMMA BlockingFinishedKeeps == ASSUME IInv, BlockingFinished PROVE IInv'
<1> DEFINE b == Head(channel).block
           result == Head(channel).result
<1>1. /\ channel # <<>> /\ Head(channel).kind = "Finished" /\ channel' = Tail(channel)
      /\ UNCHANGED <<inbox, batches, nextBatchId, expirations, tracers, debugPermits>>
  BY DEF BlockingFinished
<1>2. /\ channel' \in Seq(Messages) /\ Head(channel) \in Messages
      /\ \A x : Pending("Finished", x) /\ b # x => Pending("Finished", x)'
  BY <1>1, TailOfChannel
<1>3. result \in {"traces", "failed"}
  BY <1>1, <1>2 DEF Messages
<1>4. /\ inbox' \in Seq(Requests)
      /\ 0 \leq Len(inbox) /\ DOMAIN inbox' = 1 .. Len(inbox) - 0
      /\ \A i \in DOMAIN inbox' : inbox'[i] = inbox[i + 0]
  BY <1>1, InboxStays
<1>5. \A x \in DOMAIN cachedBlocks : \A d \in cachedBlocks[x].waiting :
          d \in Clients /\ IsPooled(x) /\ x = AsksFor(d)
  BY DEF IInv, TypeOK, Entries, Waits, WaitersMatch
<1> HIDE DEF b, result
<1>6. CASE IsPooled(b) /\ client' = Answered(cachedBlocks[b].waiting, result)
           /\ cachedBlocks' = [cachedBlocks EXCEPT ![b] =
                                  [@ EXCEPT !.state = result, !.waiting = {}]]
  <2> DEFINE A == cachedBlocks[b].waiting
  <2>1. b \in DOMAIN cachedBlocks /\ A \in SUBSET Clients
    BY <1>5, <1>6 DEF IsPooled
  <2>2. client' = Answered(A, result) /\ result \in Answers
    BY <1>3, <1>6 DEF Answers
  <2>3. DOMAIN cachedBlocks' = DOMAIN cachedBlocks
    BY <1>6
  <2>4. \A x \in DOMAIN cachedBlocks : x # b => cachedBlocks'[x] = cachedBlocks[x]
    BY <1>6
  <2>5. cachedBlocks'[b] \in Entries /\ cachedBlocks'[b].waiting = {}
        /\ cachedBlocks'[b].state = result
    <3>1. cachedBlocks[b] \in Entries
      BY <2>1 DEF IInv, TypeOK
    <3>2. cachedBlocks'[b] = [[cachedBlocks[b] EXCEPT !.state = result] EXCEPT !.waiting = {}]
      BY <1>6, <2>1
    <3> QED BY <1>3, <3>1, <3>2 DEF Entries
  <2>6. \A x \in DOMAIN cachedBlocks : x # b => (IsPooled(x)' <=> IsPooled(x))
    BY <2>3, <2>4 DEF IsPooled
  <2>7. \A x \in DOMAIN cachedBlocks : x = b => ~IsPooled(x)'
    BY <1>3, <2>5 DEF IsPooled
  <2>8. \A x \in DOMAIN cachedBlocks : \A d \in cachedBlocks[x].waiting : d \in A <=> x = b
    BY <1>5, <2>1
  <2> HIDE DEF A
  <2>9. /\ DOMAIN client' = Clients
        /\ \A d \in Clients \ A : client'[d] = client[d]
        /\ \A d \in A : /\ client'[d].phase = client[d].phase
                        /\ client'[d].fetched = client[d].fetched
                        /\ client'[d].reply # "none"
        /\ client' \in [Clients -> [phase : {"idle", "starting", "fetching", "done"},
                                    fetched : Nat, batch : Nat,
                                    reply : Answers \cup {"none"}]]
    BY <2>1, <2>2, AnsweredFacts
  <2>10. Waits'
    <3>1. \A x \in DOMAIN cachedBlocks' : \A d \in cachedBlocks'[x].waiting :
              /\ d \in Clients \ A /\ IsPooled(x)'
              /\ x \in DOMAIN cachedBlocks /\ d \in cachedBlocks[x].waiting
      <4> SUFFICES ASSUME NEW x \in DOMAIN cachedBlocks', NEW d \in cachedBlocks'[x].waiting
                   PROVE  /\ d \in Clients \ A /\ IsPooled(x)'
                          /\ x \in DOMAIN cachedBlocks /\ d \in cachedBlocks[x].waiting
        OBVIOUS
      <4>1. x # b /\ x \in DOMAIN cachedBlocks
        BY <2>3, <2>5
      <4> QED BY <4>1, <1>5, <2>4, <2>6, <2>8
    <3>2. \A x \in DOMAIN cachedBlocks : \A d \in cachedBlocks[x].waiting \ A :
              x \in DOMAIN cachedBlocks' /\ d \in cachedBlocks'[x].waiting
      BY <2>3, <2>4, <2>8
    <3>3. \A d \in A : \E x \in DOMAIN cachedBlocks : d \in cachedBlocks[x].waiting
      BY <2>1 DEF A
    <3>4. KeepsSenders(A, 0)
      BY <1>4, <2>9, <3>1, <3>2, <3>3 DEF KeepsSenders
    <3> QED BY <2>1, <3>4, CacheTaskKeepsSenders
  <2>11. TypeOK'
    <3>1. \A x \in DOMAIN cachedBlocks' : cachedBlocks'[x] \in Entries
      BY <2>3, <2>4, <2>5 DEF IInv, TypeOK
    <3> QED BY <1>1, <1>2, <1>4, <2>3, <2>9, <3>1 DEF IInv, TypeOK, Messages
  <2>12. TracerAlive'
    <3> SUFFICES ASSUME NEW x \in DOMAIN cachedBlocks', IsPooled(x)'
                 PROVE  <<cachedBlocks'[x].tracer, x>> \in DOMAIN tracers'
                        \/ Pending("Finished", x)'
      BY DEF TracerAlive
    <3>1. x # b /\ IsPooled(x) /\ cachedBlocks'[x] = cachedBlocks[x]
      BY <2>3, <2>4, <2>6, <2>7
    <3> QED BY <1>1, <1>2, <2>3, <3>1 DEF IInv, TracerAlive
  <2> QED BY <1>1, <2>10, <2>11, <2>12 DEF IInv, TracersFinite
<1>7. CASE ~IsPooled(b) /\ UNCHANGED <<client, cachedBlocks>>
  <2>1. TypeOK'
    BY <1>1, <1>2, <1>4, <1>7 DEF IInv, TypeOK, Messages
  <2>2. Waits'
    BY <1>1, <1>7 DEF IInv, Waits, FetchesInOrder, InboxMatches, InboxOnce, WaitersMatch,
                      SenderKept, Expecting, AsksFor, Carries, IsPooled
  <2>3. TracerAlive'
    <3> SUFFICES ASSUME NEW x \in DOMAIN cachedBlocks, IsPooled(x)
                 PROVE  <<cachedBlocks[x].tracer, x>> \in DOMAIN tracers
                        \/ Pending("Finished", x)'
      BY <1>1, <1>7 DEF TracerAlive, IsPooled
    <3> QED BY <1>2, <1>7 DEF IInv, TracerAlive
  <2> QED BY <1>1, <2>1, <2>2, <2>3 DEF IInv, TracersFinite
<1> QED BY <1>6, <1>7 DEF BlockingFinished, b, result

\* The cached entries and the requests see nothing of what a tracer does by itself.
LEMMA TracerOnlyKeeps == ASSUME IInv, TracerOnly PROVE Waits'
<1>1. UNCHANGED <<client, inbox, cachedBlocks>>
  BY DEF TracerOnly, cacheVars
<1> QED BY <1>1 DEF IInv, Waits, FetchesInOrder, InboxMatches, InboxOnce, WaitersMatch,
                    SenderKept, Expecting, AsksFor, Carries, IsPooled

\* A tracer that ends leaves those of the other blocks and batches.
LEMMA TracerEnds ==
    ASSUME IInv, NEW t \in DOMAIN tracers, tracers' = Ends(t)
    PROVE  /\ DOMAIN tracers' = DOMAIN tracers \ {t}
           /\ \A u \in DOMAIN tracers' : tracers'[u] \in {"queued", "granted", "tracing"}
           /\ TracersFinite'
           /\ t \in Nat \X Blocks
<1>1. /\ DOMAIN tracers' = DOMAIN tracers \ {t}
      /\ \A u \in DOMAIN tracers' : tracers'[u] = tracers[u]
  BY DEF Ends, Restrict
<1>2. TracersFinite'
  BY <1>1, FS_RemoveElement DEF IInv, TracersFinite
<1> QED BY <1>1, <1>2 DEF IInv, TypeOK

\* A tracer that goes on stays the tracer of its block and batch.
LEMMA TracerGoesOn ==
    ASSUME IInv, NEW t \in DOMAIN tracers, NEW state \in {"granted", "tracing"},
           tracers' = [tracers EXCEPT ![t] = state]
    PROVE  /\ DOMAIN tracers' = DOMAIN tracers
           /\ \A u \in DOMAIN tracers' : tracers'[u] \in {"queued", "granted", "tracing"}
           /\ TracersFinite'
           /\ t \in Nat \X Blocks
<1>1. DOMAIN tracers' = DOMAIN tracers
  OBVIOUS
<1>2. \A u \in DOMAIN tracers : tracers'[u] = IF u = t THEN state ELSE tracers[u]
  OBVIOUS
<1> QED BY <1>1, <1>2 DEF IInv, TypeOK, TracersFinite

LEMMA TracersKeep ==
    ASSUME IInv, NEW t \in DOMAIN tracers,
           Cancelled(t) \/ Acquire(t) \/ SendStarted(t) \/ SendFinished(t)
    PROVE  IInv'
<1>1. TracerOnly
  BY DEF Cancelled, Acquire, SendStarted, SendFinished
<1>2. Waits' /\ UNCHANGED <<client, inbox, cacheVars, debugPermits>>
  BY <1>1, TracerOnlyKeeps DEF TracerOnly
<1>3. \A b : IsPooled(b)' <=> IsPooled(b)
  BY <1>2 DEF IsPooled, cacheVars
<1>4. ASSUME /\ DOMAIN tracers' \subseteq DOMAIN tracers
             /\ \A u \in DOMAIN tracers' : tracers'[u] \in {"queued", "granted", "tracing"},
             channel' \in Seq(Messages)
      PROVE  TypeOK'
  BY <1>2, <1>4 DEF IInv, TypeOK, cacheVars, Messages
<1>5. ASSUME NEW m \in Messages, Sends(m)
      PROVE  /\ channel' \in Seq(Messages)
             /\ \A b : Pending("Finished", b) => Pending("Finished", b)'
             /\ m.kind = "Finished" => Pending("Finished", m.block)'
  BY <1>5, ChannelAppended DEF Sends
<1>6. CASE Cancelled(t)
  <2>1. Unqueued(t) /\ tracers' = Ends(t) /\ UNCHANGED channel
    BY <1>6 DEF Cancelled
  <2>2. /\ DOMAIN tracers' = DOMAIN tracers \ {t} /\ t \in Nat \X Blocks /\ TracersFinite'
        /\ \A u \in DOMAIN tracers' : tracers'[u] \in {"queued", "granted", "tracing"}
    BY <2>1, TracerEnds
  <2>3. TypeOK'
    BY <1>4, <2>1, <2>2 DEF IInv, TypeOK, Messages
  <2>4. TracerAlive'
    <3> SUFFICES ASSUME NEW b \in DOMAIN cachedBlocks, IsPooled(b)
                 PROVE  <<cachedBlocks[b].tracer, b>> \in DOMAIN tracers' \/ Pending("Finished", b)
      BY <1>2, <1>3, <2>1 DEF TracerAlive, cacheVars, Pending
    <3>1. <<cachedBlocks[b].tracer, b>> # t
      BY <2>1, <2>2 DEF Unqueued
    <3> QED BY <2>2, <3>1 DEF IInv, TracerAlive
  <2> QED BY <1>2, <2>2, <2>3, <2>4 DEF IInv
<1>7. CASE Acquire(t)
  <2>1. tracers' = [tracers EXCEPT ![t] = "granted"] /\ UNCHANGED channel
    BY <1>7 DEF Acquire
  <2>2. /\ DOMAIN tracers' = DOMAIN tracers /\ TracersFinite'
        /\ \A u \in DOMAIN tracers' : tracers'[u] \in {"queued", "granted", "tracing"}
    BY <2>1, TracerGoesOn
  <2>3. TypeOK'
    BY <1>4, <2>1, <2>2 DEF IInv, TypeOK, Messages
  <2>4. TracerAlive'
    BY <1>2, <1>3, <2>1, <2>2 DEF IInv, TracerAlive, Pending, cacheVars
  <2> QED BY <1>2, <2>2, <2>3, <2>4 DEF IInv
<1>8. CASE SendStarted(t)
  <2> DEFINE m == [kind |-> "Started", block |-> t[2]]
  <2>1. tracers' = [tracers EXCEPT ![t] = "tracing"] /\ Sends(m)
    BY <1>8 DEF SendStarted
  <2>2. /\ DOMAIN tracers' = DOMAIN tracers /\ t \in Nat \X Blocks /\ TracersFinite'
        /\ \A u \in DOMAIN tracers' : tracers'[u] \in {"queued", "granted", "tracing"}
    BY <2>1, TracerGoesOn
  <2>3. m \in Messages
    BY <2>2 DEF Messages
  <2>4. channel' \in Seq(Messages) /\ \A b : Pending("Finished", b) => Pending("Finished", b)'
    BY <1>5, <2>1, <2>3
  <2>5. TypeOK'
    BY <1>4, <2>2, <2>4
  <2>6. TracerAlive'
    BY <1>2, <1>3, <2>2, <2>4 DEF IInv, TracerAlive, cacheVars
  <2> QED BY <1>2, <2>2, <2>5, <2>6 DEF IInv
<1>9. CASE SendFinished(t)
  <2>1. PICK result \in {"traces", "failed"} :
            Sends([kind |-> "Finished", block |-> t[2], result |-> result])
    BY <1>9 DEF SendFinished
  <2> DEFINE m == [kind |-> "Finished", block |-> t[2], result |-> result]
  <2>2. tracers' = Ends(t)
    BY <1>9 DEF SendFinished
  <2>3. /\ DOMAIN tracers' = DOMAIN tracers \ {t} /\ t \in Nat \X Blocks /\ TracersFinite'
        /\ \A u \in DOMAIN tracers' : tracers'[u] \in {"queued", "granted", "tracing"}
    BY <2>2, TracerEnds
  <2>4. m \in Messages /\ m.kind = "Finished" /\ m.block = t[2]
    BY <2>3 DEF Messages
  <2>5. /\ channel' \in Seq(Messages) /\ \A b : Pending("Finished", b) => Pending("Finished", b)'
        /\ \A b : b = t[2] => Pending("Finished", b)'
    BY <1>5, <2>1, <2>4
  <2>6. TypeOK'
    BY <1>4, <2>3, <2>5
  <2>7. TracerAlive'
    <3> SUFFICES ASSUME NEW b \in DOMAIN cachedBlocks, IsPooled(b)
                 PROVE  <<cachedBlocks[b].tracer, b>> \in DOMAIN tracers' \/ Pending("Finished", b)'
      BY <1>2, <1>3 DEF TracerAlive, cacheVars
    <3>1. CASE b = t[2]
      BY <2>5, <3>1
    <3>2. CASE b # t[2]
      <4>1. <<cachedBlocks[b].tracer, b>> # t
        BY <3>2
      <4> QED BY <2>3, <2>5, <4>1 DEF IInv, TracerAlive
    <3> QED BY <3>1, <3>2
  <2> QED BY <1>2, <2>3, <2>6, <2>7 DEF IInv
<1> QED BY <1>6, <1>7, <1>8, <1>9

\* The debug RPC holds no more permits than the pool has.
LEMMA DebugKeeps == ASSUME IInv, DebugAcquire \/ DebugRelease PROVE IInv'
<1>1. UNCHANGED <<client, inbox, cacheVars, tracers, channel>>
  BY DEF DebugAcquire, DebugRelease
<1>2. debugPermits \in 0 .. Permits /\ Permits \in Nat
  BY PermitsAssumption DEF IInv, TypeOK
<1>3. debugPermits' \in 0 .. Permits
  <2>1. Cardinality(Holding) \in Nat
    <3>1. Holding \subseteq DOMAIN tracers /\ IsFiniteSet(DOMAIN tracers)
      BY DEF Holding, IInv, TracersFinite
    <3> QED BY <3>1, FS_Subset, FS_CardinalityType
  <2>2. CASE DebugAcquire
    BY <1>2, <2>1, <2>2 DEF DebugAcquire, FreePermits
  <2>3. CASE DebugRelease
    BY <1>2, <2>3 DEF DebugRelease
  <2> QED BY <2>2, <2>3
<1>4. TypeOK'
  BY <1>1, <1>3 DEF IInv, TypeOK, cacheVars
<1>5. Waits'
  BY <1>1 DEF IInv, Waits, FetchesInOrder, InboxMatches, InboxOnce, WaitersMatch,
              SenderKept, Expecting, AsksFor, Carries, IsPooled, cacheVars
<1>6. TracerAlive' /\ TracersFinite'
  BY <1>1 DEF IInv, TracerAlive, TracersFinite, IsPooled, Pending, cacheVars
<1> QED BY <1>4, <1>5, <1>6 DEF IInv

LEMMA StepKeepsIInv == ASSUME IInv, BatchesOwned, [Next]_vars PROVE IInv'
<1>1. CASE UNCHANGED vars
  <2>1. UNCHANGED <<client, inbox, cachedBlocks, batches, nextBatchId, expirations, tracers,
                    channel, debugPermits>>
    BY <1>1 DEF vars, cacheVars
  <2>2. TypeOK'
    BY <2>1 DEF IInv, TypeOK
  <2>3. Waits'
    BY <2>1 DEF IInv, Waits, FetchesInOrder, InboxMatches, InboxOnce, WaitersMatch,
                SenderKept, Expecting, AsksFor, Carries, IsPooled
  <2>4. TracerAlive' /\ TracersFinite'
    BY <2>1 DEF IInv, TracerAlive, TracersFinite, IsPooled, Pending
  <2> QED BY <2>2, <2>3, <2>4 DEF IInv
<1>2. CASE Next
  <2>1. CASE \E c \in Clients : Filter(c) \/ Request(c)
    BY <2>1, RequestsKeep
  <2>2. CASE CacheTask
    BY <2>2, StartBatchKeeps, GetTracesKeeps, StopBatchKeeps, BlockingStartedKeeps,
       BlockingFinishedKeeps, ExpiredKeeps DEF CacheTask
  <2>3. CASE \E t \in DOMAIN tracers :
                 Cancelled(t) \/ Acquire(t) \/ SendStarted(t) \/ SendFinished(t)
    BY <2>3, TracersKeep
  <2>4. CASE DebugAcquire \/ DebugRelease
    BY <2>4, DebugKeeps
  <2> QED BY <1>2, <2>1, <2>2, <2>3, <2>4 DEF Next
<1> QED BY <1>1, <1>2

-----------------------------------------------------------------------------

LEMMA InitOwned == Init => BatchesOwned
BY DEF Init, BatchesOwned, Active

\* A step that starts no batch and sends no StopBatch, and that ends the ownership of a
\* batch only by taking its StopBatch, with s messages in all, from the queue.
KeepsOwners(s) ==
    /\ \A d \in Clients : Active(d)' => Active(d) /\ client'[d].batch = client[d].batch
    /\ \A i \in DOMAIN inbox', id \in Nat : Stops(i, id)' =>
           i \in Nat \ {0} /\ i + s \in DOMAIN inbox /\ Stops(i + s, id)
    /\ \A id \in DOMAIN batches \ expirations :
           \/ id \in DOMAIN batches' \ expirations'
           \/ s = 1 /\ 1 \in DOMAIN inbox /\ Stops(1, id)
    /\ DOMAIN batches' \subseteq DOMAIN batches
    /\ nextBatchId' = nextBatchId

LEMMA OwnedKept ==
    ASSUME IInv, BatchesOwned, NEW s \in {0, 1}, KeepsOwners(s)
    PROVE  BatchesOwned'
<1> USE DEF KeepsOwners
<1>1. \A d \in Clients : client[d].batch \in Nat
  BY DEF IInv, TypeOK
<1>2. DOMAIN batches \subseteq Nat
  BY DEF IInv, TypeOK
<1>3. ASSUME NEW c \in Clients, Active(c)'
      PROVE  /\ client'[c].batch \in DOMAIN batches' \ expirations'
             /\ \A i \in DOMAIN inbox' : ~Stops(i, client[c].batch)'
  <2>1. /\ client'[c].batch = client[c].batch /\ Active(c)
        /\ client[c].batch \in DOMAIN batches \ expirations
        /\ \A i \in DOMAIN inbox : ~Stops(i, client[c].batch)
    BY <1>3 DEF BatchesOwned
  <2>2. \A i \in DOMAIN inbox', id \in Nat : id = client[c].batch => ~Stops(i, id)'
    BY <1>1, <2>1
  <2>3. client'[c].batch \in DOMAIN batches' \ expirations'
    BY <2>1
  <2> QED BY <1>1, <2>1, <2>2, <2>3
<1>4. \A c, d \in Clients :
          Active(c)' /\ Active(d)' /\ client'[c].batch = client'[d].batch => c = d
  BY DEF BatchesOwned
<1>5. ASSUME NEW i \in DOMAIN inbox', NEW id \in Nat, Stops(i, id)'
      PROVE  id \in DOMAIN batches' \ expirations'
  <2>1. i \in Nat \ {0} /\ i + s \in DOMAIN inbox /\ Stops(i + s, id)
    BY <1>5
  <2>2. id \in DOMAIN batches \ expirations
    BY <2>1 DEF BatchesOwned
  <2>3. ~(s = 1 /\ 1 \in DOMAIN inbox /\ Stops(1, id))
    <3> SUFFICES ASSUME s = 1, 1 \in DOMAIN inbox, Stops(1, id) PROVE FALSE
      OBVIOUS
    <3>1. i + s = 1
      BY <2>1 DEF BatchesOwned
    <3> QED BY <2>1, <3>1
  <2> QED BY <2>2, <2>3
<1>6. ASSUME NEW i \in DOMAIN inbox', NEW j \in DOMAIN inbox', NEW id \in Nat,
             Stops(i, id)', Stops(j, id)'
      PROVE  i = j
  <2>1. /\ i \in Nat /\ i + s \in DOMAIN inbox /\ Stops(i + s, id)
        /\ j \in Nat /\ j + s \in DOMAIN inbox /\ Stops(j + s, id)
    BY <1>6
  <2>2. i + s = j + s
    BY <2>1 DEF BatchesOwned
  <2> QED BY <2>1, <2>2
<1>7. \A id \in DOMAIN batches' : id < nextBatchId'
  BY DEF BatchesOwned
<1> QED BY <1>3, <1>4, <1>5, <1>6, <1>7 DEF BatchesOwned

\* Answering a request with anything but a batch starts none.
LEMMA AnswersNoBatch ==
    ASSUME IInv, NEW A, NEW answer, answer # "batch",
           client' = Answered(A, answer)
    PROVE  \A d \in Clients : Active(d)' => Active(d) /\ client'[d].batch = client[d].batch
<1> SUFFICES ASSUME NEW d \in Clients, Active(d)'
             PROVE  Active(d) /\ client'[d].batch = client[d].batch
  OBVIOUS
<1>1. client[d] \in [phase : {"idle", "starting", "fetching", "done"},
                     fetched : Nat, batch : Nat, reply : Answers \cup {"none"}]
  BY DEF IInv, TypeOK
<1>2. client'[d] = IF d \in A THEN [client[d] EXCEPT !.reply = answer] ELSE client[d]
  BY DEF Answered
<1>3. CASE d \in A
  <2>1. client'[d] = [client[d] EXCEPT !.reply = answer]
    BY <1>2, <1>3
  <2>2. /\ client'[d].phase = client[d].phase /\ client'[d].batch = client[d].batch
        /\ client'[d].reply = answer
    BY <1>1, <2>1
  <2> QED BY <2>2 DEF Active
<1>4. CASE d \notin A
  BY <1>2, <1>4 DEF Active
<1> QED BY <1>3, <1>4

\* A request that runs stops its batch, once.
LEMMA StopsBatchOwned ==
    ASSUME IInv, BatchesOwned, NEW c \in Clients, Active(c), StopsBatch(c), ClientOnly
    PROVE  BatchesOwned'
<1> DEFINE m == [kind |-> "StopBatch", batch |-> client[c].batch]
<1>1. /\ client \in [Clients -> [phase : {"idle", "starting", "fetching", "done"},
                               fetched : Nat, batch : Nat, reply : Answers \cup {"none"}]]
      /\ inbox \in Seq(Requests)
  BY DEF IInv, TypeOK
<1>2. m \in Requests /\ inbox' = Append(inbox, m)
  BY <1>1 DEF Requests, StopsBatch
<1>3. /\ Len(inbox) \in Nat
      /\ DOMAIN inbox = 1 .. Len(inbox)
      /\ DOMAIN inbox' = 1 .. Len(inbox) + 1
      /\ \A i \in DOMAIN inbox : inbox'[i] = inbox[i]
      /\ inbox'[Len(inbox) + 1] = m
  BY <1>1, <1>2
<1>4. UNCHANGED <<batches, expirations, nextBatchId>>
  BY DEF ClientOnly, cacheVars
<1>5. /\ \A d \in Clients \ {c} : client'[d] = client[d]
      /\ client'[c].phase = "done" /\ client'[c].reply = "none"
  BY <1>1 DEF StopsBatch
<1>6. \A d \in Clients : Active(d)' =>
          d # c /\ Active(d) /\ client'[d].batch = client[d].batch
  BY <1>5 DEF Active
<1>7. \A i \in DOMAIN inbox', id \in Nat : Stops(i, id)' =>
          \/ i \in DOMAIN inbox /\ Stops(i, id)
          \/ i = Len(inbox) + 1 /\ id = client[c].batch
  BY <1>3 DEF Stops
<1>8. /\ client[c].batch \in DOMAIN batches \ expirations
      /\ \A i \in DOMAIN inbox : ~Stops(i, client[c].batch)
  BY DEF BatchesOwned
<1>9. ASSUME NEW d \in Clients, Active(d)'
      PROVE  /\ client'[d].batch \in DOMAIN batches' \ expirations'
             /\ \A i \in DOMAIN inbox' : ~Stops(i, client[d].batch)'
  <2>1. d # c /\ Active(d) /\ client'[d].batch = client[d].batch /\ client[d].batch \in Nat
    BY <1>1, <1>6, <1>9
  <2>2. client[d].batch # client[c].batch
    BY <2>1 DEF BatchesOwned
  <2>3. client[d].batch \in DOMAIN batches \ expirations
        /\ \A i \in DOMAIN inbox : ~Stops(i, client[d].batch)
    BY <2>1 DEF BatchesOwned
  <2>4. \A i \in DOMAIN inbox', id \in Nat : id = client[d].batch => ~Stops(i, id)'
    BY <1>7, <2>2, <2>3
  <2> QED BY <1>4, <2>1, <2>3, <2>4
<1>10. \A d, e \in Clients :
           Active(d)' /\ Active(e)' /\ client'[d].batch = client'[e].batch => d = e
  BY <1>6 DEF BatchesOwned
<1>11. \A i \in DOMAIN inbox', id \in Nat : Stops(i, id)' => id \in DOMAIN batches' \ expirations'
  BY <1>4, <1>7, <1>8 DEF BatchesOwned
<1>12. \A i, j \in DOMAIN inbox', id \in Nat : Stops(i, id)' /\ Stops(j, id)' => i = j
  BY <1>7, <1>8 DEF BatchesOwned
<1>13. \A id \in DOMAIN batches' : id < nextBatchId'
  BY <1>4 DEF BatchesOwned
<1> QED BY <1>9, <1>10, <1>11, <1>12, <1>13 DEF BatchesOwned

\* A request that sends something else owns its batch as before.
LEMMA SendsOwned ==
    ASSUME IInv, BatchesOwned, NEW c \in Clients, NEW m \in Requests, m.kind # "StopBatch",
           inbox' = Append(inbox, m), ClientOnly,
           \A d \in Clients : Active(d)' => Active(d) /\ client'[d].batch = client[d].batch
    PROVE  BatchesOwned'
<1>1. inbox \in Seq(Requests)
  BY DEF IInv, TypeOK
<1>2. /\ Len(inbox) \in Nat
      /\ DOMAIN inbox = 1 .. Len(inbox)
      /\ DOMAIN inbox' = 1 .. Len(inbox) + 1
      /\ \A i \in DOMAIN inbox : inbox'[i] = inbox[i]
      /\ inbox'[Len(inbox) + 1] = m
  BY <1>1
<1>3. \A i \in DOMAIN inbox', id \in Nat : Stops(i, id)' => i \in DOMAIN inbox /\ Stops(i, id)
  BY <1>2 DEF Stops
<1>4. \A i \in DOMAIN inbox', id \in Nat : Stops(i, id)' =>
          i \in Nat \ {0} /\ i + 0 \in DOMAIN inbox /\ Stops(i + 0, id)
  BY <1>2, <1>3
<1>5. UNCHANGED <<batches, expirations, nextBatchId>>
  BY DEF ClientOnly, cacheVars
<1>6. KeepsOwners(0)
  BY <1>4, <1>5 DEF KeepsOwners
<1> QED BY <1>6, OwnedKept

LEMMA AsksNextOwned ==
    ASSUME IInv, BatchesOwned, NEW c \in Clients, Active(c), NEW n \in 0 .. Len(BlocksOf[c]),
           AsksNext(c, n), ClientOnly
    PROVE  BatchesOwned'
<1>1. CASE n = Len(BlocksOf[c])
  BY <1>1, StopsBatchOwned DEF AsksNext
<1>2. CASE n # Len(BlocksOf[c])
  <2> DEFINE m == [kind |-> "GetTraces", from |-> c, block |-> BlocksOf[c][n + 1]]
  <2>1. BlocksOf[c][n + 1] \in Blocks
    BY <1>2, BlocksOfRequest
  <2>2. client' = [client EXCEPT ![c] = [@ EXCEPT !.phase = "fetching", !.fetched = n, !.reply = "none"]]
        /\ inbox' = Append(inbox, m)
    BY <1>2 DEF AsksNext
  <2>3. client \in [Clients -> [phase : {"idle", "starting", "fetching", "done"},
                               fetched : Nat, batch : Nat, reply : Answers \cup {"none"}]]
    BY DEF IInv, TypeOK
  <2>4. \A d \in Clients : Active(d)' => Active(d) /\ client'[d].batch = client[d].batch
    <3>1. \A d \in Clients \ {c} : client'[d] = client[d]
      BY <2>2, <2>3
    <3>2. client'[c].batch = client[c].batch
      BY <2>2, <2>3
    <3> QED BY <3>1, <3>2 DEF Active
  <2>5. m \in Requests /\ m.kind # "StopBatch"
    BY <2>1 DEF Requests
  <2> HIDE DEF m
  <2> QED BY <2>2, <2>4, <2>5, SendsOwned
<1> QED BY <1>1, <1>2

LEMMA RequestsOwned ==
    ASSUME IInv, BatchesOwned, NEW c \in Clients, Filter(c) \/ Request(c)
    PROVE  BatchesOwned'
<1>0. client \in [Clients -> [phase : {"idle", "starting", "fetching", "done"},
                               fetched : Nat, batch : Nat, reply : Answers \cup {"none"}]]
  BY DEF IInv, TypeOK
<1>1. CASE Filter(c)
  <2> DEFINE m == [kind |-> "StartBatch", from |-> c]
  <2>1. client' = [client EXCEPT ![c].phase = "starting"] /\ inbox' = Append(inbox, m) /\ ClientOnly
    BY <1>1 DEF Filter
  <2>2. m \in Requests /\ m.kind # "StopBatch"
    BY DEF Requests
  <2>3. \A d \in Clients : Active(d)' => Active(d) /\ client'[d].batch = client[d].batch
    <3>1. \A d \in Clients \ {c} : client'[d] = client[d]
      BY <2>1, <1>0
    <3>2. client'[c].phase = "starting" /\ client'[c].batch = client[c].batch
          /\ client'[c].reply = client[c].reply
      BY <2>1, <1>0
    <3> QED BY <3>1, <3>2 DEF Active
  <2> HIDE DEF m
  <2> QED BY <2>1, <2>2, <2>3, SendsOwned
<1>2. CASE BatchGiven(c)
  BY <1>2, AsksNextOwned, BlocksOfRequest DEF BatchGiven, Active
<1>3. CASE TracesGiven(c)
  <2>1. Active(c) /\ ClientOnly /\ client[c].phase = "fetching"
    BY <1>3 DEF TracesGiven, Active
  <2>2. client[c].fetched + 1 \in 0 .. Len(BlocksOf[c])
    BY <2>1, <1>0, BlocksOfRequest DEF IInv, Waits, FetchesInOrder
  <2>3. CASE AsksNext(c, client[c].fetched + 1)
    BY <2>1, <2>2, <2>3, AsksNextOwned
  <2>4. CASE StopsBatch(c)
    BY <2>1, <2>4, StopsBatchOwned
  <2> QED BY <1>3, <2>3, <2>4 DEF TracesGiven
<1>4. CASE TracesRefused(c)
  BY <1>4, StopsBatchOwned DEF TracesRefused, Active
<1> QED BY <1>1, <1>2, <1>3, <1>4 DEF Request

\* A step that leaves the queue and the batches alone.
LEMMA InboxStaysOwned ==
    ASSUME IInv, BatchesOwned, UNCHANGED <<inbox, batches, expirations, nextBatchId>>,
           \A d \in Clients : Active(d)' => Active(d) /\ client'[d].batch = client[d].batch
    PROVE  BatchesOwned'
<1>1. Len(inbox) \in Nat /\ DOMAIN inbox = 1 .. Len(inbox)
  BY DEF IInv, TypeOK
<1>2. \A i \in DOMAIN inbox', id \in Nat : Stops(i, id)' =>
          i \in Nat \ {0} /\ i + 0 \in DOMAIN inbox /\ Stops(i + 0, id)
  BY <1>1 DEF Stops
<1>3. KeepsOwners(0)
  BY <1>2 DEF KeepsOwners
<1> QED BY <1>3, OwnedKept

LEMMA StartBatchOwned == ASSUME IInv, BatchesOwned, RequestStartBatch PROVE BatchesOwned'
<1> DEFINE c == Head(inbox).from
<1>1. /\ inbox # <<>> /\ inbox' = Tail(inbox) /\ Head(inbox).kind = "StartBatch"
      /\ batches' = [id \in DOMAIN batches \cup {nextBatchId} |->
                           IF id = nextBatchId THEN BlockSet(c) ELSE batches[id]]
      /\ client' = [client EXCEPT ![c].batch = nextBatchId, ![c].reply = "batch"]
      /\ nextBatchId' = nextBatchId + 1
      /\ UNCHANGED expirations
  BY DEF RequestStartBatch, HeadIs
<1>2. /\ 1 \leq Len(inbox) /\ Len(inbox) \in Nat
      /\ Head(inbox) = inbox[1] /\ inbox[1] \in Requests
      /\ DOMAIN inbox' = 1 .. Len(inbox) - 1
      /\ \A i \in DOMAIN inbox' : inbox'[i] = inbox[i + 1]
      /\ DOMAIN inbox = 1 .. Len(inbox)
  BY <1>1, TailOfInbox DEF IInv, TypeOK
<1>3. c \in Clients
  BY <1>1, <1>2 DEF Requests
<1>4. /\ DOMAIN batches' = DOMAIN batches \cup {nextBatchId}
      /\ DOMAIN batches \subseteq Nat /\ nextBatchId \in Nat
      /\ expirations \subseteq DOMAIN batches
      /\ \A id \in DOMAIN batches : id < nextBatchId
  BY <1>1 DEF IInv, TypeOK, BatchesOwned
<1>5. nextBatchId \notin DOMAIN batches
  BY <1>4
<1> HIDE DEF c
<1>6. /\ \A d \in Clients \ {c} : client'[d] = client[d]
      /\ client'[c].batch = nextBatchId
  BY <1>1, <1>3 DEF IInv, TypeOK
<1>7. \A d \in Clients \ {c} : (Active(d)' => Active(d)) /\ client'[d].batch = client[d].batch
  BY <1>6 DEF Active
<1>8. \A i \in DOMAIN inbox', id \in Nat : Stops(i, id)' =>
          i + 1 \in DOMAIN inbox /\ Stops(i + 1, id) /\ id \in DOMAIN batches \ expirations
  BY <1>2 DEF Stops, BatchesOwned
<1>9. ASSUME NEW d \in Clients, Active(d)'
      PROVE  /\ client'[d].batch \in DOMAIN batches' \ expirations'
             /\ \A i \in DOMAIN inbox' : ~Stops(i, client[d].batch)'
  <2>1. /\ client'[d].batch \in Nat
        /\ client'[d].batch \in DOMAIN batches' \ expirations
        /\ \A i \in DOMAIN inbox, id \in Nat : id = client'[d].batch => ~Stops(i, id)
    <3>1. CASE d = c
      BY <3>1, <1>4, <1>5, <1>6 DEF BatchesOwned
    <3>2. CASE d # c
      <4>1. Active(d) /\ client'[d].batch = client[d].batch /\ client[d].batch \in Nat
        BY <1>7, <1>9, <3>2 DEF IInv, TypeOK
      <4>2. /\ client[d].batch \in DOMAIN batches \ expirations
            /\ \A i \in DOMAIN inbox : ~Stops(i, client[d].batch)
        BY <4>1 DEF BatchesOwned
      <4> QED BY <1>4, <4>1, <4>2
    <3> QED BY <3>1, <3>2
  <2>2. client'[d].batch \in DOMAIN batches' \ expirations'
    BY <1>1, <2>1
  <2>3. \A i \in DOMAIN inbox', id \in Nat : id = client'[d].batch => ~Stops(i, id)'
    BY <1>8, <2>1
  <2> QED BY <2>1, <2>2, <2>3
<1>10. ASSUME NEW d \in Clients, NEW e \in Clients, Active(d)', Active(e)',
              client'[d].batch = client'[e].batch
       PROVE  d = e
  <2>1. \A x \in Clients \ {c} : Active(x)' => client'[x].batch # nextBatchId
    BY <1>5, <1>7 DEF BatchesOwned
  <2>2. CASE d # c /\ e # c
    BY <1>7, <1>10, <2>2 DEF BatchesOwned
  <2> QED BY <1>6, <1>10, <2>1, <2>2
<1>11. \A i \in DOMAIN inbox', id \in Nat : Stops(i, id)' => id \in DOMAIN batches' \ expirations'
  BY <1>1, <1>4, <1>8
<1>12. \A i, j \in DOMAIN inbox', id \in Nat : Stops(i, id)' /\ Stops(j, id)' => i = j
  <2> SUFFICES ASSUME NEW i \in DOMAIN inbox', NEW j \in DOMAIN inbox', NEW id \in Nat,
                      Stops(i, id)', Stops(j, id)'
               PROVE  i = j
    OBVIOUS
  <2>1. i + 1 = j + 1
    BY <1>8 DEF BatchesOwned
  <2> QED BY <2>1, <1>2
<1>13. \A id \in DOMAIN batches' : id < nextBatchId'
  BY <1>1, <1>4
<1> QED BY <1>9, <1>10, <1>11, <1>12, <1>13 DEF BatchesOwned

LEMMA StepKeepsOwned == ASSUME IInv, BatchesOwned, [Next]_vars PROVE BatchesOwned'
<1>1. CASE \E c \in Clients : Filter(c) \/ Request(c)
  BY <1>1, RequestsOwned
<1>2. CASE RequestGetTraces
  <2>1. /\ inbox # <<>> /\ inbox' = Tail(inbox) /\ Head(inbox).kind = "GetTraces"
        /\ UNCHANGED <<batches, expirations, nextBatchId>>
    BY <1>2 DEF RequestGetTraces, HeadIs
  <2>2. \A d \in Clients : Active(d)' => Active(d) /\ client'[d].batch = client[d].batch
    <3>1. CASE UNCHANGED client
      BY <3>1 DEF Active
    <3>2. ASSUME NEW b \in DOMAIN cachedBlocks, ~IsPooled(b),
                 client' = Answered({Head(inbox).from}, cachedBlocks[b].state)
          PROVE  \A d \in Clients : Active(d)' => Active(d) /\ client'[d].batch = client[d].batch
      <4>1. cachedBlocks[b].state # "batch"
        BY DEF IInv, TypeOK, Entries
      <4> QED BY <3>2, <4>1, AnswersNoBatch
    <3>3. CASE client' = Answered({Head(inbox).from}, "unbatched")
      BY <3>3, AnswersNoBatch
    <3> QED BY <1>2, <3>1, <3>2, <3>3 DEF RequestGetTraces
  <2>3. KeepsOwners(1)
    <3>1. \A i \in DOMAIN inbox', id \in Nat : Stops(i, id)' =>
              i \in Nat \ {0} /\ i + 1 \in DOMAIN inbox /\ Stops(i + 1, id)
      BY <2>1, TailOfInbox DEF IInv, TypeOK, Stops
    <3> QED BY <2>1, <2>2, <3>1 DEF KeepsOwners
  <2> QED BY <2>3, OwnedKept
<1>3. CASE RequestStopBatch
  <2>1. /\ inbox # <<>> /\ inbox' = Tail(inbox) /\ Head(inbox).kind = "StopBatch"
        /\ expirations' = expirations \cup {Head(inbox).batch}
        /\ client' = Answered(WaitingOn(Unneeded(Head(inbox).batch)), "closed")
        /\ UNCHANGED <<batches, nextBatchId>>
    BY <1>3 DEF RequestStopBatch, HeadIs
  <2>2. \A d \in Clients : Active(d)' => Active(d) /\ client'[d].batch = client[d].batch
    BY <2>1, AnswersNoBatch
  <2>3. KeepsOwners(1)
    <3>1. \A i \in DOMAIN inbox', id \in Nat : Stops(i, id)' =>
              i \in Nat \ {0} /\ i + 1 \in DOMAIN inbox /\ Stops(i + 1, id)
      BY <2>1, TailOfInbox DEF IInv, TypeOK, Stops
    <3>2. 1 \in DOMAIN inbox /\ Stops(1, Head(inbox).batch)
      BY <2>1, TailOfInbox DEF IInv, TypeOK, Stops
    <3>3. \A id \in DOMAIN batches \ expirations :
              id \in DOMAIN batches' \ expirations' \/ Stops(1, id)
      BY <2>1, <3>2
    <3> QED BY <2>1, <2>2, <3>1, <3>2, <3>3 DEF KeepsOwners
  <2> QED BY <2>3, OwnedKept
<1>4. CASE BlockingStarted
  BY <1>4, InboxStaysOwned DEF BlockingStarted, Active
<1>5. CASE BlockingFinished
  <2>1. UNCHANGED <<inbox, batches, expirations, nextBatchId>>
    BY <1>5 DEF BlockingFinished
  <2>2. \A d \in Clients : Active(d)' => Active(d) /\ client'[d].batch = client[d].batch
    <3>1. CASE UNCHANGED client
      BY <3>1 DEF Active
    <3>2. CASE client' = Answered(cachedBlocks[Head(channel).block].waiting, Head(channel).result)
      <4>1. channel # <<>> /\ channel' = Tail(channel) /\ Head(channel).kind = "Finished"
        BY <1>5 DEF BlockingFinished
      <4>2. Head(channel) \in Messages
        BY <4>1, TailOfChannel
      <4>3. Head(channel).result # "batch"
        BY <4>1, <4>2 DEF Messages
      <4> QED BY <3>2, <4>3, AnswersNoBatch
    <3> QED BY <1>5, <3>1, <3>2 DEF BlockingFinished
  <2> QED BY <2>1, <2>2, InboxStaysOwned
<1>6. ASSUME NEW id \in BatchIds, ExpiredBatch(id) PROVE BatchesOwned'
  <2>1. /\ client' = Answered(WaitingOn(OnlyUsedBy(id)), "closed")
        /\ DOMAIN batches' = DOMAIN batches \ {id}
        /\ expirations' = expirations \ {id}
        /\ id \in expirations
        /\ UNCHANGED <<inbox, nextBatchId>>
    BY <1>6 DEF ExpiredBatch, Restrict
  <2>2. \A d \in Clients : Active(d)' => Active(d) /\ client'[d].batch = client[d].batch
    BY <2>1, AnswersNoBatch
  <2>3. \A i \in DOMAIN inbox', x \in Nat : Stops(i, x)' =>
            i \in Nat \ {0} /\ i + 0 \in DOMAIN inbox /\ Stops(i + 0, x)
    <3>1. Len(inbox) \in Nat /\ DOMAIN inbox = 1 .. Len(inbox)
      BY DEF IInv, TypeOK
    <3> QED BY <2>1, <3>1 DEF Stops
  <2>4. \A x \in DOMAIN batches \ expirations : x \in DOMAIN batches' \ expirations'
    BY <2>1
  <2>5. KeepsOwners(0)
    BY <2>1, <2>2, <2>3, <2>4 DEF KeepsOwners
  <2> QED BY <2>5, OwnedKept
<1>7. CASE \E t \in DOMAIN tracers :
               Cancelled(t) \/ Acquire(t) \/ SendStarted(t) \/ SendFinished(t)
  <2>1. UNCHANGED <<client, inbox, cacheVars>>
    BY <1>7 DEF Cancelled, Acquire, SendStarted, SendFinished, TracerOnly
  <2> QED BY <2>1, InboxStaysOwned DEF Active, cacheVars
<1>8. CASE DebugAcquire \/ DebugRelease \/ UNCHANGED vars
  <2>1. UNCHANGED <<client, inbox, cacheVars>>
    BY <1>8 DEF DebugAcquire, DebugRelease, vars
  <2> QED BY <2>1, InboxStaysOwned DEF Active, cacheVars
<1> QED BY <1>1, <1>2, <1>3, <1>4, <1>5, <1>6, <1>7, <1>8, StartBatchOwned DEF Next, CacheTask

-----------------------------------------------------------------------------

\* Batches are finite in number: each has an id below the next one.
LEMMA UsersFinite ==
    ASSUME IInv, BatchesOwned, NEW b
    PROVE  /\ IsFiniteSet(Users(b))
           /\ Cardinality(Users(b)) \in Nat
           /\ nextBatchId \notin Users(b)
<1>1. IsFiniteSet(0 .. nextBatchId - 1)
  BY FS_Interval DEF IInv, TypeOK
<1>2. Users(b) \subseteq 0 .. nextBatchId - 1
  BY DEF Users, IInv, TypeOK, BatchesOwned
<1>3. IsFiniteSet(Users(b)) /\ Cardinality(Users(b)) \in Nat
  BY <1>1, <1>2, FS_Subset, FS_CardinalityType
<1>4. nextBatchId \notin 0 .. nextBatchId - 1
  BY DEF IInv, TypeOK
<1> QED BY <1>2, <1>3, <1>4

\* A step that opens and closes no batch and raises no count.
LEMMA CountsKept ==
    ASSUME CountBounded, UNCHANGED batches,
           \A b \in DOMAIN cachedBlocks' :
               b \in DOMAIN cachedBlocks /\ cachedBlocks'[b].count = cachedBlocks[b].count
    PROVE  CountBounded'
BY DEF CountBounded, Users

LEMMA StartBatchCounts ==
    ASSUME IInv, BatchesOwned, CountBounded, RequestStartBatch
    PROVE  CountBounded'
<1> DEFINE c == Head(inbox).from
           id == nextBatchId
<1>1. /\ batches' = [i \in DOMAIN batches \cup {id} |-> IF i = id THEN BlockSet(c) ELSE batches[i]]
      /\ cachedBlocks' = [b \in DOMAIN cachedBlocks \cup CacheMisses(c) |->
                             IF b \in CacheMisses(c) THEN NewEntry(id)
                             ELSE IF b \in BlockSet(c) THEN CacheHit(cachedBlocks[b])
                             ELSE cachedBlocks[b]]
  BY DEF RequestStartBatch
<1> SUFFICES ASSUME NEW b \in DOMAIN cachedBlocks'
             PROVE  cachedBlocks'[b].count \in 1 .. Cardinality(Users(b)')
  BY DEF CountBounded
<1>2. /\ IsFiniteSet(Users(b))
      /\ Cardinality(Users(b)) \in Nat
      /\ id \notin Users(b)
      /\ \A i \in DOMAIN batches : i # id
  <2>1. IsFiniteSet(Users(b)) /\ Cardinality(Users(b)) \in Nat /\ id \notin Users(b)
    BY UsersFinite
  <2>2. nextBatchId \in Nat /\ \A i \in DOMAIN batches : i \in Nat /\ i < nextBatchId
    BY DEF BatchesOwned, IInv, TypeOK
  <2>3. \A i \in DOMAIN batches : i # id
    BY <2>2
  <2> QED BY <2>1, <2>3
<1>3. CASE b \in BlockSet(c)
  <2>1. Users(b)' = Users(b) \cup {id}
    BY <1>1, <1>2, <1>3 DEF Users
  <2>2. Cardinality(Users(b)') = Cardinality(Users(b)) + 1
    BY <1>2, <2>1, FS_AddElement
  <2>3. CASE b \in CacheMisses(c)
    <3>1. cachedBlocks'[b].count = 1
      BY <1>1, <2>3 DEF NewEntry
    <3> QED BY <1>2, <2>2, <3>1
  <2>4. CASE b \notin CacheMisses(c)
    <3>1. b \in DOMAIN cachedBlocks /\ cachedBlocks[b] \in Entries
      BY <1>3, <2>4 DEF CacheMisses, IInv, TypeOK
    <3>2. cachedBlocks'[b].count = cachedBlocks[b].count + 1
      BY <1>1, <1>3, <2>4, <3>1 DEF CacheHit, Entries
    <3> QED BY <1>2, <2>2, <3>1, <3>2 DEF CountBounded
  <2> QED BY <2>3, <2>4
<1>4. CASE b \notin BlockSet(c)
  <2>1. b \notin CacheMisses(c) /\ b \in DOMAIN cachedBlocks
    BY <1>1, <1>4 DEF CacheMisses
  <2>2. cachedBlocks'[b] = cachedBlocks[b]
    BY <1>1, <1>4, <2>1
  <2>3. Users(b)' = Users(b)
    BY <1>1, <1>2, <1>4 DEF Users
  <2> QED BY <2>1, <2>2, <2>3 DEF CountBounded
<1> QED BY <1>3, <1>4

LEMMA ExpiredCounts ==
    ASSUME IInv, BatchesOwned, CountBounded, NEW id \in BatchIds, ExpiredBatch(id)
    PROVE  CountBounded'
<1>1. /\ id \in DOMAIN batches
      /\ batches' = [i \in DOMAIN batches \ {id} |-> batches[i]]
      /\ cachedBlocks' = [b \in DOMAIN cachedBlocks \ OnlyUsedBy(id) |->
                             IF b \in batches[id] THEN [cachedBlocks[b] EXCEPT !.count = @ - 1]
                                                  ELSE cachedBlocks[b]]
  <2>1. DOMAIN batches \ {id} = (DOMAIN batches \ {id}) \cap DOMAIN batches
    OBVIOUS
  <2> QED BY <2>1 DEF ExpiredBatch, Restrict, IInv, TypeOK
<1> SUFFICES ASSUME NEW b \in DOMAIN cachedBlocks'
             PROVE  cachedBlocks'[b].count \in 1 .. Cardinality(Users(b)')
  BY DEF CountBounded
<1>2. /\ b \in DOMAIN cachedBlocks /\ b \notin OnlyUsedBy(id)
      /\ cachedBlocks[b] \in Entries
  BY <1>1 DEF IInv, TypeOK
<1>3. CASE b \in batches[id]
  <2>1. Users(b)' = Users(b) \ {id} /\ id \in Users(b)
    BY <1>1, <1>3 DEF Users
  <2>2. Cardinality(Users(b)') = Cardinality(Users(b)) - 1
    BY <2>1, UsersFinite, FS_RemoveElement
  <2>3. cachedBlocks'[b].count = cachedBlocks[b].count - 1
    BY <1>1, <1>2, <1>3 DEF Entries
  <2>4. cachedBlocks[b].count # 1
    BY <1>2, <1>3 DEF OnlyUsedBy
  <2> QED BY <1>2, <2>2, <2>3, <2>4, UsersFinite DEF CountBounded
<1>4. CASE b \notin batches[id]
  <2>1. Users(b)' = Users(b)
    BY <1>1, <1>4 DEF Users
  <2> QED BY <1>1, <1>2, <1>4, <2>1 DEF CountBounded
<1> QED BY <1>3, <1>4

LEMMA StepKeepsCounts ==
    ASSUME IInv, BatchesOwned, CountBounded, [Next]_vars
    PROVE  CountBounded'
<1>1. CASE \E c \in Clients : Filter(c) \/ Request(c)
  <2>1. UNCHANGED cacheVars
    BY <1>1 DEF Filter, Request, BatchGiven, TracesGiven, TracesRefused, ClientOnly
  <2> QED BY <2>1, CountsKept DEF cacheVars
<1>2. CASE RequestGetTraces
  <2>1. \A b \in DOMAIN cachedBlocks : cachedBlocks[b] \in Entries
    BY DEF IInv, TypeOK
  <2>2. UNCHANGED batches /\ DOMAIN cachedBlocks' = DOMAIN cachedBlocks
    BY <1>2 DEF RequestGetTraces
  <2>3. \A b \in DOMAIN cachedBlocks : cachedBlocks'[b].count = cachedBlocks[b].count
    BY <1>2, <2>1 DEF RequestGetTraces, Entries
  <2> QED BY <2>2, <2>3, CountsKept
<1>3. CASE RequestStopBatch
  <2>1. UNCHANGED batches /\ cachedBlocks' = DropEntries(Unneeded(Head(inbox).batch))
    BY <1>3 DEF RequestStopBatch
  <2> QED BY <2>1, CountsKept DEF DropEntries, Restrict
<1>4. CASE BlockingStarted \/ BlockingFinished
  <2>1. \A b \in DOMAIN cachedBlocks : cachedBlocks[b] \in Entries
    BY DEF IInv, TypeOK
  <2>2. UNCHANGED batches /\ DOMAIN cachedBlocks' = DOMAIN cachedBlocks
    BY <1>4 DEF BlockingStarted, BlockingFinished
  <2>3. ASSUME NEW b \in DOMAIN cachedBlocks
        PROVE  cachedBlocks'[b].count = cachedBlocks[b].count
    <3> DEFINE h == Head(channel).block
    <3>1. CASE BlockingStarted
      BY <2>1, <3>1 DEF BlockingStarted, Entries
    <3>2. CASE BlockingFinished /\ ~IsPooled(h)
      BY <3>2 DEF BlockingFinished
    <3>3. CASE BlockingFinished /\ IsPooled(h)
      <4>1. cachedBlocks' = [cachedBlocks EXCEPT ![h] =
                [@ EXCEPT !.state = Head(channel).result, !.waiting = {}]]
        BY <3>3 DEF BlockingFinished
      <4> QED BY <2>1, <4>1 DEF Entries
    <3> QED BY <1>4, <3>1, <3>2, <3>3
  <2> QED BY <2>2, <2>3, CountsKept
<1>5. CASE \E t \in DOMAIN tracers :
               Cancelled(t) \/ Acquire(t) \/ SendStarted(t) \/ SendFinished(t)
  <2>1. UNCHANGED cacheVars
    BY <1>5 DEF Cancelled, Acquire, SendStarted, SendFinished, TracerOnly
  <2> QED BY <2>1, CountsKept DEF cacheVars
<1>6. CASE DebugAcquire \/ DebugRelease \/ UNCHANGED vars
  <2>1. UNCHANGED cacheVars
    BY <1>6 DEF DebugAcquire, DebugRelease, vars
  <2> QED BY <2>1, CountsKept DEF cacheVars
<1> QED BY <1>1, <1>2, <1>3, <1>4, <1>5, <1>6, StartBatchCounts, ExpiredCounts DEF Next, CacheTask

-----------------------------------------------------------------------------
(* Undisturbed blocks                                                      *)

\* Block b has been replayed and its result is in the cache.
Replayed(b) == b \in DOMAIN cachedBlocks /\ ~IsPooled(b)

OwnBlocks == \A c \in Clients : Active(c) => batches[client[c].batch] = BlockSet(c)

\* Of the undisturbed blocks, those a running request has its answer for are replayed.
AnsweredReplayed ==
    \A c \in Clients : client[c].phase = "fetching" =>
        /\ client[c].reply # "batch"
        /\ \A k \in 1 .. client[c].fetched :
               BlocksOf[c][k] \notin Disturbed => Replayed(BlocksOf[c][k])
        /\ client[c].reply # "none" /\ AsksFor(c) \notin Disturbed => Replayed(AsksFor(c))

\* The undisturbed blocks of a batch are cached, and replayed once its request stopped.
CachedForBatches ==
    \A id \in DOMAIN batches : \A b \in batches[id] \ Disturbed :
        /\ b \in DOMAIN cachedBlocks
        /\ (\A c \in Clients : Active(c) => client[c].batch # id) => Replayed(b)

CountsExact ==
    \A b \in DOMAIN cachedBlocks \ Disturbed : cachedBlocks[b].count = Cardinality(Users(b))

\* Message i is a result of block b.
ResultOf(i, b) == channel[i].kind = "Finished" /\ channel[i].block = b

\* An undisturbed block has a tracer or a result on its way, never two of them, and
\* only while its entry is pooled.
OneReplay ==
    \A b \in Blocks \ Disturbed :
        /\ \A t \in DOMAIN tracers : t[2] = b =>
              /\ IsPooled(b) /\ cachedBlocks[b].tracer = t[1]
              /\ \A i \in DOMAIN channel : ~ResultOf(i, b)
        /\ \A i \in DOMAIN channel : ResultOf(i, b) => IsPooled(b)
        /\ \A i, j \in DOMAIN channel : ResultOf(i, b) /\ ResultOf(j, b) => i = j

UndisturbedInv ==
    OwnBlocks /\ AnsweredReplayed /\ CachedForBatches /\ CountsExact /\ OneReplay

\* A block once disturbed stays so.
LEMMA DisturbedStays ==
    ASSUME \A c \in Clients : client[c].phase = "done" =>
               client'[c].phase = "done" /\ client'[c].fetched = client[c].fetched
    PROVE  Disturbed \subseteq Disturbed'
BY DEF Disturbed, StoppedEarly

\* What cannot be disturbed by a request that only gets an answer.
LEMMA AnsweredStays ==
    ASSUME IInv, NEW A, NEW answer, client' = Answered(A, answer)
    PROVE  /\ Disturbed' = Disturbed
           /\ \A d \in Clients : /\ client'[d].phase = client[d].phase
                                 /\ client'[d].fetched = client[d].fetched
                                 /\ client'[d].batch = client[d].batch
                                 /\ client'[d].reply = IF d \in A THEN answer ELSE client[d].reply
<1>1. client \in [Clients -> ClientType]
  BY DEF IInv, TypeOK, ClientType
<1>2. \A d \in Clients : client'[d] = IF d \in A THEN [client[d] EXCEPT !.reply = answer]
                                                 ELSE client[d]
  BY DEF Answered
<1>3. \A d \in Clients : /\ client'[d].phase = client[d].phase
                         /\ client'[d].fetched = client[d].fetched
                         /\ client'[d].batch = client[d].batch
                         /\ client'[d].reply = IF d \in A THEN answer ELSE client[d].reply
  <2> TAKE d \in Clients
  <2>1. client[d] \in ClientType
    BY <1>1
  <2>2. CASE d \in A
    <3>1. client'[d] = [client[d] EXCEPT !.reply = answer]
      BY <1>2, <2>2
    <3> QED BY <2>1, <2>2, <3>1 DEF ClientType
  <2>3. CASE d \notin A
    BY <1>2, <2>3
  <2> QED BY <2>2, <2>3
<1>4. Disturbed' = Disturbed
  BY <1>3 DEF Disturbed, StoppedEarly
<1> QED BY <1>3, <1>4

\* A running request is a user of its blocks; the undisturbed ones are cached.
LEMMA RunningUses ==
    ASSUME IInv, BatchesOwned, OwnBlocks, CachedForBatches,
           NEW c \in Clients, Active(c), NEW b \in BlockSet(c)
    PROVE  /\ client[c].batch \in Users(b) \ expirations
           /\ b \notin Disturbed => b \in DOMAIN cachedBlocks
<1>1. client[c].batch \in DOMAIN batches \ expirations
  BY DEF BatchesOwned
<1>2. batches[client[c].batch] = BlockSet(c)
  BY DEF OwnBlocks
<1> QED BY <1>1, <1>2 DEF Users, CachedForBatches

-----------------------------------------------------------------------------
(* The tracers                                                             *)

LEMMA TracersKeepUndisturbed ==
    ASSUME IInv, UndisturbedInv, NEW t \in DOMAIN tracers,
           Cancelled(t) \/ Acquire(t) \/ SendStarted(t) \/ SendFinished(t)
    PROVE  UndisturbedInv'
<1>1. UNCHANGED <<client, inbox, cachedBlocks, batches>>
  BY DEF Cancelled, Acquire, SendStarted, SendFinished, TracerOnly, cacheVars
<1>2. Disturbed' = Disturbed /\ \A b : (IsPooled(b)' <=> IsPooled(b)) /\ Users(b)' = Users(b)
  BY <1>1 DEF Disturbed, StoppedEarly, IsPooled, Users
<1>3. OwnBlocks' /\ AnsweredReplayed' /\ CachedForBatches' /\ CountsExact'
  BY <1>1, <1>2 DEF UndisturbedInv, OwnBlocks, AnsweredReplayed, CachedForBatches, CountsExact,
                    Active, Replayed, AsksFor
<1>4. t \in Nat \X Blocks /\ DOMAIN tracers \subseteq Nat \X Blocks
  BY DEF IInv, TypeOK
<1>5. channel \in Seq(Messages)
  BY DEF IInv, TypeOK, Messages
<1>6. ASSUME DOMAIN tracers' \subseteq DOMAIN tracers,
             \A b : \A i \in DOMAIN channel' : ResultOf(i, b)' => i \in DOMAIN channel /\ ResultOf(i, b)
      PROVE  OneReplay'
  BY <1>1, <1>2, <1>6 DEF UndisturbedInv, OneReplay
<1>7. CASE Cancelled(t) \/ Acquire(t)
  <2>1. DOMAIN tracers' \subseteq DOMAIN tracers /\ UNCHANGED channel
    BY <1>7, TracerEnds, TracerGoesOn DEF Cancelled, Acquire
  <2> QED BY <1>3, <1>6, <2>1 DEF UndisturbedInv, ResultOf
<1>8. CASE SendStarted(t)
  <2>1. DOMAIN tracers' \subseteq DOMAIN tracers
    BY <1>8, TracerGoesOn DEF SendStarted
  <2>2. channel' = Append(channel, [kind |-> "Started", block |-> t[2]])
    BY <1>8 DEF SendStarted, Sends
  <2>3. \A b : \A i \in DOMAIN channel' : ResultOf(i, b)' => i \in DOMAIN channel /\ ResultOf(i, b)
    BY <1>5, <2>2 DEF ResultOf
  <2> QED BY <1>3, <1>6, <2>1, <2>3 DEF UndisturbedInv
<1>9. CASE SendFinished(t)
  <2>1. PICK result \in {"traces", "failed"} :
            channel' = Append(channel, [kind |-> "Finished", block |-> t[2], result |-> result])
    BY <1>9 DEF SendFinished, Sends
  <2>2. DOMAIN tracers' = DOMAIN tracers \ {t}
    BY <1>9, TracerEnds DEF SendFinished
  <2>3. /\ DOMAIN channel' = DOMAIN channel \cup {Len(channel) + 1}
        /\ \A i \in DOMAIN channel : channel'[i] = channel[i]
        /\ channel'[Len(channel) + 1].kind = "Finished"
        /\ channel'[Len(channel) + 1].block = t[2]
    BY <1>5, <2>1
  <2>4. \A b : \A i \in DOMAIN channel' : ResultOf(i, b)' =>
            \/ i \in DOMAIN channel /\ ResultOf(i, b)
            \/ i = Len(channel) + 1 /\ b = t[2]
    BY <2>3 DEF ResultOf
  <2>5. OneReplay'
    <3> SUFFICES ASSUME NEW b \in Blocks \ Disturbed
                 PROVE  /\ \A u \in DOMAIN tracers' : u[2] = b =>
                               /\ IsPooled(b) /\ cachedBlocks[b].tracer = u[1]
                               /\ \A i \in DOMAIN channel' : ~ResultOf(i, b)'
                        /\ \A i \in DOMAIN channel' : ResultOf(i, b)' => IsPooled(b)
                        /\ \A i, j \in DOMAIN channel' : ResultOf(i, b)' /\ ResultOf(j, b)' => i = j
      BY <1>1, <1>2 DEF OneReplay
    <3>1. CASE b # t[2]
      BY <2>2, <2>4, <3>1 DEF UndisturbedInv, OneReplay
    <3>2. CASE b = t[2]
      <4>1. /\ IsPooled(b) /\ cachedBlocks[b].tracer = t[1]
            /\ \A i \in DOMAIN channel : ~ResultOf(i, b)
        BY <3>2 DEF UndisturbedInv, OneReplay
      <4>2. \A u \in DOMAIN tracers' : u[2] # b
        <5> SUFFICES ASSUME NEW u \in DOMAIN tracers, u # t, u[2] = b PROVE FALSE
          BY <2>2
        <5>1. cachedBlocks[b].tracer = u[1]
          BY DEF UndisturbedInv, OneReplay
        <5>2. u \in Nat \X Blocks
          BY <1>4
        <5>3. u = <<u[1], u[2]>> /\ t = <<t[1], t[2]>>
          BY <1>4, <5>2
        <5>4. u[1] = t[1] /\ u[2] = t[2]
          BY <3>2, <4>1, <5>1
        <5> QED BY <5>3, <5>4
      <4> QED BY <2>4, <4>1, <4>2
    <3> QED BY <3>1, <3>2
  <2> QED BY <1>3, <2>5 DEF UndisturbedInv
<1> QED BY <1>7, <1>8, <1>9

-----------------------------------------------------------------------------
(* The requests                                                            *)

\* A step of request c alone that leaves the cache; a request that stops has its answer
\* for every block, or disturbs its blocks.
LEMMA RequestKeepsUndisturbed ==
    ASSUME IInv, BatchesOwned, UndisturbedInv, NEW c \in Clients, ClientOnly,
           \A d \in Clients \ {c} : client'[d] = client[d],
           client[c].phase # "done",
           Active(c)' => Active(c) /\ client'[c].batch = client[c].batch,
           client'[c].phase = "fetching" =>
               /\ client'[c].reply = "none"
               /\ client'[c].fetched <= Len(BlocksOf[c])
               /\ \A k \in 1 .. client'[c].fetched :
                      BlocksOf[c][k] \notin Disturbed => Replayed(BlocksOf[c][k]),
           Active(c) /\ ~Active(c)' => \A b \in BlockSet(c) \ Disturbed' : Replayed(b)
    PROVE  UndisturbedInv'
<1>1. UNCHANGED <<cachedBlocks, batches, expirations, tracers, channel>>
  BY DEF ClientOnly, cacheVars
<1>2. \A d \in Clients \ {c} : (Active(d)' <=> Active(d)) /\ (AsksFor(d)' = AsksFor(d))
  BY DEF Active, AsksFor
<1>3. Disturbed \subseteq Disturbed'
  BY DisturbedStays
<1>4. \A b : (IsPooled(b)' <=> IsPooled(b)) /\ (Replayed(b)' <=> Replayed(b))
             /\ Users(b)' = Users(b)
  BY <1>1 DEF IsPooled, Replayed, Users
<1>5. OwnBlocks'
  <2> SUFFICES ASSUME NEW d \in Clients, Active(d)'
               PROVE  batches[client'[d].batch] = BlockSet(d)
    BY <1>1 DEF OwnBlocks
  <2>1. Active(d) /\ client'[d].batch = client[d].batch
    BY <1>2
  <2> QED BY <2>1 DEF UndisturbedInv, OwnBlocks
<1>6. AnsweredReplayed'
  <2> SUFFICES ASSUME NEW d \in Clients, client'[d].phase = "fetching"
               PROVE  /\ client'[d].reply # "batch"
                      /\ \A k \in 1 .. client'[d].fetched :
                             BlocksOf[d][k] \notin Disturbed' => Replayed(BlocksOf[d][k])'
                      /\ client'[d].reply # "none" /\ AsksFor(d)' \notin Disturbed'
                             => Replayed(AsksFor(d))'
    BY DEF AnsweredReplayed
  <2>1. CASE d = c
    BY <1>3, <1>4, <2>1
  <2>2. CASE d # c
    <3>1. client'[d] = client[d] /\ client[d].phase = "fetching" /\ AsksFor(d)' = AsksFor(d)
      BY <1>2, <2>2
    <3>2. /\ client[d].reply # "batch"
          /\ \A k \in 1 .. client[d].fetched :
                 BlocksOf[d][k] \notin Disturbed => Replayed(BlocksOf[d][k])
          /\ client[d].reply # "none" /\ AsksFor(d) \notin Disturbed => Replayed(AsksFor(d))
      BY <3>1 DEF UndisturbedInv, AnsweredReplayed
    <3>3. Replayed(AsksFor(d))' <=> Replayed(AsksFor(d))
      BY <1>1, <3>1 DEF Replayed, IsPooled
    <3> QED BY <1>3, <1>4, <3>1, <3>2, <3>3
  <2> QED BY <2>1, <2>2
<1>7. CachedForBatches'
  <2> SUFFICES ASSUME NEW id \in DOMAIN batches, NEW b \in batches[id] \ Disturbed'
               PROVE  /\ b \in DOMAIN cachedBlocks
                      /\ (\A d \in Clients : Active(d)' => client'[d].batch # id) => Replayed(b)
    BY <1>1, <1>4 DEF CachedForBatches
  <2>1. /\ b \in DOMAIN cachedBlocks
        /\ (\A d \in Clients : Active(d) => client[d].batch # id) => Replayed(b)
    BY <1>3 DEF UndisturbedInv, CachedForBatches
  <2>2. ASSUME \A d \in Clients : Active(d)' => client'[d].batch # id,
               NEW e \in Clients, Active(e), client[e].batch = id
        PROVE  Replayed(b)
    <3>1. e = c
      BY <1>2, <2>2
    <3>2. ~Active(c)'
      BY <2>2, <3>1
    <3>3. b \in BlockSet(c) \ Disturbed'
      BY <2>2, <3>1 DEF UndisturbedInv, OwnBlocks
    <3> QED BY <2>2, <3>1, <3>2, <3>3
  <2> QED BY <2>1, <2>2
<1>8. CountsExact'
  BY <1>1, <1>3, <1>4 DEF UndisturbedInv, CountsExact
<1>9. OneReplay'
  BY <1>1, <1>3, <1>4 DEF UndisturbedInv, OneReplay, ResultOf
<1> QED BY <1>5, <1>6, <1>7, <1>8, <1>9 DEF UndisturbedInv

\* A request that stops disturbs its blocks, or has all its answers.
LEMMA StopsUndisturbed ==
    ASSUME IInv, BatchesOwned, UndisturbedInv, NEW c \in Clients, ClientOnly, StopsBatch(c),
           \/ client[c].phase = "fetching" /\ client[c].reply # "none"
           \/ client[c].phase = "starting" /\ Len(BlocksOf[c]) = 0
    PROVE  UndisturbedInv'
<1>1. client \in [Clients -> ClientType]
  BY DEF IInv, TypeOK, ClientType
<1>2. client[c] \in ClientType
  BY <1>1
<1>3. /\ \A d \in Clients \ {c} : client'[d] = client[d]
      /\ client'[c].phase = "done" /\ client'[c].reply = "none"
      /\ client'[c].fetched = client[c].fetched
  BY <1>1, <1>2 DEF StopsBatch, ClientType
<1>4. client[c].phase # "done" /\ ~Active(c)'
  BY <1>3 DEF Active
<1>5. Disturbed \subseteq Disturbed'
  BY <1>3, <1>4, DisturbedStays
<1>6. /\ Len(BlocksOf[c]) \in Nat
      /\ BlockSet(c) = {BlocksOf[c][k] : k \in 1 .. Len(BlocksOf[c])}
  <2>1. BlocksOf[c] \in Seq(BlockSet(c))
    BY ClientsAssumption DEF ClientsAssumption, BlockSet
  <2> QED BY <2>1 DEF BlockSet, Range
<1>7. ASSUME NEW b \in BlockSet(c) \ Disturbed'
      PROVE  Replayed(b)
  <2>1. PICK k \in 1 .. Len(BlocksOf[c]) : b = BlocksOf[c][k]
    BY <1>6
  <2>2. client[c].phase = "fetching" /\ client[c].reply # "none"
    BY <1>6, <2>1
  <2>3. b \notin Disturbed
    BY <1>5
  <2>4. ~StoppedEarly(c)'
    BY DEF Disturbed
  <2>5. client[c].fetched \in Nat /\ ~(client[c].fetched + 1 < Len(BlocksOf[c]))
    BY <1>2, <1>3, <2>4 DEF StoppedEarly, ClientType
  <2>6. CASE k <= client[c].fetched
    <3>1. k \in 1 .. client[c].fetched
      BY <1>6, <2>5, <2>6
    <3> QED BY <2>1, <2>2, <2>3, <3>1 DEF UndisturbedInv, AnsweredReplayed
  <2>7. CASE ~(k <= client[c].fetched)
    <3>1. k = client[c].fetched + 1
      BY <1>6, <2>5, <2>7
    <3>2. b = AsksFor(c)
      BY <2>1, <3>1 DEF AsksFor
    <3> QED BY <2>2, <2>3, <3>2 DEF UndisturbedInv, AnsweredReplayed
  <2> QED BY <2>6, <2>7
<1> QED BY <1>3, <1>4, <1>7, RequestKeepsUndisturbed

\* A request that goes on after n blocks has them replayed, unless they are disturbed.
LEMMA AsksNextUndisturbed ==
    ASSUME IInv, BatchesOwned, UndisturbedInv, NEW c \in Clients, ClientOnly,
           NEW n \in Nat, AsksNext(c, n), Active(c),
           \/ client[c].phase = "fetching" /\ client[c].reply # "none" /\ n = client[c].fetched + 1
           \/ client[c].phase = "starting" /\ n = 0
    PROVE  UndisturbedInv'
<1>1. client \in [Clients -> ClientType]
  BY DEF IInv, TypeOK, ClientType
<1>2. client[c] \in ClientType /\ Len(BlocksOf[c]) \in Nat
  BY <1>1, BlocksOfRequest
<1>3. CASE n = Len(BlocksOf[c])
  <2>1. StopsBatch(c)
    BY <1>3 DEF AsksNext
  <2> QED BY <1>3, <2>1, StopsUndisturbed
<1>4. CASE n # Len(BlocksOf[c])
  <2>1. client' = [client EXCEPT ![c] =
                      [@ EXCEPT !.phase = "fetching", !.fetched = n, !.reply = "none"]]
    BY <1>4 DEF AsksNext
  <2>2. /\ \A d \in Clients \ {c} : client'[d] = client[d]
        /\ client'[c].phase = "fetching" /\ client'[c].reply = "none"
        /\ client'[c].fetched = n /\ client'[c].batch = client[c].batch
    BY <1>1, <1>2, <2>1 DEF ClientType
  <2>3. n <= Len(BlocksOf[c])
    BY <1>2, <1>4 DEF IInv, Waits, FetchesInOrder, ClientType
  <2>4. \A k \in 1 .. n : BlocksOf[c][k] \notin Disturbed => Replayed(BlocksOf[c][k])
    <3>1. CASE n = 0
      BY <3>1
    <3>2. CASE client[c].phase = "fetching" /\ client[c].reply # "none" /\ n = client[c].fetched + 1
      <4> SUFFICES ASSUME NEW k \in 1 .. n, BlocksOf[c][k] \notin Disturbed
                   PROVE  Replayed(BlocksOf[c][k])
        OBVIOUS
      <4>1. client[c].fetched \in Nat
        BY <1>2 DEF ClientType
      <4>2. CASE k = n
        BY <3>2, <4>2 DEF UndisturbedInv, AnsweredReplayed, AsksFor
      <4>3. CASE k # n
        <5>1. k \in 1 .. client[c].fetched
          BY <3>2, <4>1, <4>3
        <5> QED BY <3>2, <5>1 DEF UndisturbedInv, AnsweredReplayed
      <4> QED BY <4>2, <4>3
    <3> QED BY <3>1, <3>2
  <2>5. Active(c)' /\ client[c].phase # "done"
    BY <2>2 DEF Active
  <2> QED BY <2>2, <2>3, <2>4, <2>5, RequestKeepsUndisturbed
<1> QED BY <1>3, <1>4

LEMMA RequestsUndisturbed ==
    ASSUME IInv, BatchesOwned, UndisturbedInv, NEW c \in Clients, Filter(c) \/ Request(c)
    PROVE  UndisturbedInv'
<1>0. client \in [Clients -> ClientType]
  BY DEF IInv, TypeOK, ClientType
<1>1. CASE Filter(c)
  <2>1. /\ client[c].phase = "idle" /\ client[c].reply = "none" /\ ClientOnly
        /\ client' = [client EXCEPT ![c].phase = "starting"]
    BY <1>1 DEF Filter, IInv, Waits, FetchesInOrder
  <2>2. /\ \A d \in Clients \ {c} : client'[d] = client[d]
        /\ client'[c].phase = "starting" /\ client'[c].reply = "none"
    BY <1>0, <2>1 DEF ClientType
  <2>3. ~Active(c) /\ ~Active(c)'
    BY <2>1, <2>2 DEF Active
  <2> QED BY <2>1, <2>2, <2>3, RequestKeepsUndisturbed
<1>2. CASE BatchGiven(c)
  BY <1>2, AsksNextUndisturbed DEF BatchGiven, Active
<1>3. CASE TracesGiven(c)
  <2>1. client[c].phase = "fetching" /\ client[c].reply = "traces" /\ ClientOnly /\ Active(c)
    BY <1>3 DEF TracesGiven, Active
  <2>2. CASE AsksNext(c, client[c].fetched + 1)
    <3>1. client[c].fetched + 1 \in Nat
      BY <1>0 DEF ClientType
    <3> QED BY <2>1, <2>2, <3>1, AsksNextUndisturbed
  <2>3. CASE StopsBatch(c)
    BY <2>1, <2>3, StopsUndisturbed
  <2> QED BY <1>3, <2>2, <2>3 DEF TracesGiven
<1>4. CASE TracesRefused(c)
  <2>1. client[c].phase = "fetching" /\ client[c].reply # "none" /\ ClientOnly /\ StopsBatch(c)
    BY <1>4 DEF TracesRefused
  <2> QED BY <2>1, StopsUndisturbed
<1> QED BY <1>1, <1>2, <1>3, <1>4 DEF Request

-----------------------------------------------------------------------------
(* The tracers' messages and requests for traces                           *)

\* What is left of the results when one message is taken.
LEMMA ResultsAfterTail ==
    ASSUME IInv, channel # <<>>, channel' = Tail(channel)
    PROVE  /\ 1 \in DOMAIN channel /\ Head(channel) = channel[1]
           /\ \A b : \A i \in DOMAIN channel' : ResultOf(i, b)' =>
                  i + 1 \in DOMAIN channel /\ ResultOf(i + 1, b) /\ i \in Nat \ {0}
<1>1. channel \in Seq(Messages)
  BY DEF IInv, TypeOK, Messages
<1>2. /\ Head(channel) = channel[1] /\ 1 \in DOMAIN channel
      /\ DOMAIN channel' = 1 .. Len(channel) - 1 /\ Len(channel) \in Nat
      /\ DOMAIN channel = 1 .. Len(channel)
      /\ \A i \in DOMAIN channel' : channel'[i] = channel[i + 1]
  BY <1>1
<1> QED BY <1>2 DEF ResultOf

LEMMA BlockingStartedUndisturbed ==
    ASSUME IInv, UndisturbedInv, BlockingStarted
    PROVE  UndisturbedInv'
<1>1. /\ UNCHANGED <<client, batches, tracers>>
      /\ channel # <<>> /\ channel' = Tail(channel)
  BY DEF BlockingStarted
<1>2. \A b \in DOMAIN cachedBlocks : cachedBlocks[b] \in Entries
  BY DEF IInv, TypeOK
<1>3. /\ DOMAIN cachedBlocks' = DOMAIN cachedBlocks
      /\ \A b \in DOMAIN cachedBlocks :
             /\ cachedBlocks'[b].count = cachedBlocks[b].count
             /\ cachedBlocks'[b].tracer = cachedBlocks[b].tracer
             /\ \/ cachedBlocks'[b].state = cachedBlocks[b].state
                \/ IsPooled(b) /\ cachedBlocks'[b].state = "started"
  BY <1>2 DEF BlockingStarted, Entries, IsPooled
<1>4. \A b : (IsPooled(b)' <=> IsPooled(b)) /\ (Replayed(b)' <=> Replayed(b))
             /\ Users(b)' = Users(b)
  BY <1>1, <1>3 DEF IsPooled, Replayed, Users
<1>5. Disturbed' = Disturbed
  BY <1>1 DEF Disturbed, StoppedEarly
<1>6. OwnBlocks' /\ AnsweredReplayed' /\ CachedForBatches' /\ CountsExact'
  BY <1>1, <1>3, <1>4, <1>5 DEF UndisturbedInv, OwnBlocks, AnsweredReplayed, CachedForBatches,
                                CountsExact, Active, AsksFor
<1>7. OneReplay'
  <2>1. \A b : \A i \in DOMAIN channel' : ResultOf(i, b)' =>
                  i + 1 \in DOMAIN channel /\ ResultOf(i + 1, b) /\ i \in Nat \ {0}
    BY <1>1, ResultsAfterTail
  <2> SUFFICES ASSUME NEW b \in Blocks \ Disturbed
               PROVE  /\ \A t \in DOMAIN tracers : t[2] = b =>
                            /\ IsPooled(b) /\ cachedBlocks'[b].tracer = t[1]
                            /\ \A i \in DOMAIN channel' : ~ResultOf(i, b)'
                      /\ \A i \in DOMAIN channel' : ResultOf(i, b)' => IsPooled(b)
                      /\ \A i, j \in DOMAIN channel' : ResultOf(i, b)' /\ ResultOf(j, b)' => i = j
    BY <1>1, <1>4, <1>5 DEF OneReplay
  <2>2. \A t \in DOMAIN tracers : t[2] = b =>
            /\ IsPooled(b) /\ cachedBlocks'[b].tracer = t[1]
            /\ \A i \in DOMAIN channel' : ~ResultOf(i, b)'
    BY <1>3, <2>1 DEF UndisturbedInv, OneReplay, IsPooled
  <2>3. \A i \in DOMAIN channel' : ResultOf(i, b)' => IsPooled(b)
    BY <2>1 DEF UndisturbedInv, OneReplay
  <2>4. ASSUME NEW i \in DOMAIN channel', NEW j \in DOMAIN channel', ResultOf(i, b)', ResultOf(j, b)'
        PROVE  i = j
    <3>1. i + 1 = j + 1 /\ i \in Nat /\ j \in Nat
      BY <2>1, <2>4 DEF UndisturbedInv, OneReplay
    <3> QED BY <3>1
  <2> QED BY <2>2, <2>3, <2>4
<1> QED BY <1>6, <1>7 DEF UndisturbedInv

\* Answers to fetching requests: right where the block asked for is replayed or disturbed.
LEMMA AnswersUndisturbed ==
    ASSUME IInv, UndisturbedInv, NEW A \in SUBSET Clients, NEW answer \in Answers \ {"batch"},
           client' = Answered(A, answer),
           \A d \in A : client[d].phase = "fetching",
           \A d \in Clients : Active(d) => batches'[client[d].batch] = batches[client[d].batch],
           \A d \in A : \A b \in {AsksFor(d)} \ Disturbed : Replayed(b)',
           \A d \in Clients : \A b \in BlockSet(d) \ Disturbed :
               Active(d) /\ Replayed(b) => Replayed(b)'
    PROVE  /\ OwnBlocks' /\ AnsweredReplayed'
           /\ Disturbed' = Disturbed
           /\ \A d \in Clients : (Active(d)' <=> Active(d)) /\ client'[d].batch = client[d].batch
<1>1. /\ Disturbed' = Disturbed
      /\ \A d \in Clients : /\ client'[d].phase = client[d].phase
                            /\ client'[d].fetched = client[d].fetched
                            /\ client'[d].batch = client[d].batch
                            /\ client'[d].reply = IF d \in A THEN answer ELSE client[d].reply
  BY AnsweredStays
<1>2. \A d \in Clients : Active(d)' <=> Active(d)
  BY <1>1 DEF Active
<1>3. OwnBlocks'
  BY <1>1, <1>2 DEF UndisturbedInv, OwnBlocks
<1>4. AnsweredReplayed'
  <2> SUFFICES ASSUME NEW d \in Clients, client[d].phase = "fetching"
               PROVE  /\ client'[d].reply # "batch"
                      /\ \A k \in 1 .. client[d].fetched :
                             BlocksOf[d][k] \notin Disturbed => Replayed(BlocksOf[d][k])'
                      /\ client'[d].reply # "none" /\ AsksFor(d)' \notin Disturbed
                             => Replayed(AsksFor(d))'
    BY <1>1 DEF AnsweredReplayed
  <2>1. /\ client[d].fetched \in Nat /\ client[d].fetched < Len(BlocksOf[d])
        /\ Len(BlocksOf[d]) \in Nat
        /\ \A n \in 1 .. Len(BlocksOf[d]) : BlocksOf[d][n] \in BlockSet(d)
    BY BlocksOfRequest DEF IInv, TypeOK, Waits, FetchesInOrder
  <2>2. AsksFor(d) \in BlockSet(d) /\ \A k \in 1 .. client[d].fetched : BlocksOf[d][k] \in BlockSet(d)
    BY <2>1 DEF AsksFor
  <2>3. Active(d)
    BY DEF Active
  <2>4. /\ client[d].reply # "batch"
        /\ \A k \in 1 .. client[d].fetched : BlocksOf[d][k] \notin Disturbed => Replayed(BlocksOf[d][k])
        /\ client[d].reply # "none" /\ AsksFor(d) \notin Disturbed => Replayed(AsksFor(d))
    BY DEF UndisturbedInv, AnsweredReplayed
  <2>5. \A k \in 1 .. client[d].fetched : BlocksOf[d][k] \notin Disturbed => Replayed(BlocksOf[d][k])'
    BY <2>2, <2>3, <2>4
  <2>6. AsksFor(d)' = AsksFor(d)
    BY <1>1 DEF AsksFor
  <2>7. client'[d].reply # "none" => \A b \in {AsksFor(d)} \ Disturbed : Replayed(b)'
    <3>1. CASE d \in A
      BY <3>1
    <3>2. CASE d \notin A
      BY <1>1, <2>2, <2>3, <2>4, <3>2
    <3> QED BY <3>1, <3>2
  <2>8. client'[d].reply # "none" /\ AsksFor(d)' \notin Disturbed => Replayed(AsksFor(d))'
    BY <2>6, <2>7 DEF Replayed, IsPooled
  <2> QED BY <1>1, <2>4, <2>5, <2>8
<1> QED BY <1>1, <1>2, <1>3, <1>4

\* A step that leaves the batches, and the undisturbed entries but for their state.
LEMMA EntriesUndisturbed ==
    ASSUME UndisturbedInv, Disturbed' = Disturbed, UNCHANGED batches,
           \A d \in Clients : (Active(d)' <=> Active(d)) /\ client'[d].batch = client[d].batch,
           DOMAIN cachedBlocks' \subseteq DOMAIN cachedBlocks,
           \A b \in DOMAIN cachedBlocks \ Disturbed :
               /\ b \in DOMAIN cachedBlocks'
               /\ cachedBlocks'[b].count = cachedBlocks[b].count
               /\ Replayed(b) => Replayed(b)'
    PROVE  CachedForBatches' /\ CountsExact'
<1>1. \A b : Users(b)' = Users(b)
  BY DEF Users
<1>2. CountsExact'
  BY <1>1 DEF UndisturbedInv, CountsExact
<1>3. CachedForBatches'
  <2> SUFFICES ASSUME NEW id \in DOMAIN batches, NEW b \in batches[id] \ Disturbed
               PROVE  /\ b \in DOMAIN cachedBlocks'
                      /\ (\A d \in Clients : Active(d) => client[d].batch # id) => Replayed(b)'
    BY DEF CachedForBatches
  <2> QED BY DEF UndisturbedInv, CachedForBatches
<1> QED BY <1>2, <1>3

LEMMA BlockingFinishedUndisturbed ==
    ASSUME IInv, UndisturbedInv, BlockingFinished
    PROVE  UndisturbedInv'
<1> DEFINE h == Head(channel).block
<1>1. /\ UNCHANGED <<batches, tracers>>
      /\ channel # <<>> /\ channel' = Tail(channel) /\ Head(channel).kind = "Finished"
  BY DEF BlockingFinished
<1>2. /\ 1 \in DOMAIN channel /\ ResultOf(1, h) /\ h \in Blocks
      /\ Head(channel).result \in {"traces", "failed"}
      /\ \A b : \A i \in DOMAIN channel' : ResultOf(i, b)' =>
             i + 1 \in DOMAIN channel /\ ResultOf(i + 1, b) /\ i \in Nat \ {0}
  <2>1. 1 \in DOMAIN channel /\ Head(channel) = channel[1] /\ Head(channel) \in Messages
    BY <1>1, ResultsAfterTail, TailOfChannel
  <2>2. h \in Blocks /\ Head(channel).result \in {"traces", "failed"}
    BY <1>1, <2>1 DEF Messages
  <2>3. ResultOf(1, h)
    BY <1>1, <2>1 DEF ResultOf
  <2> QED BY <1>1, <2>1, <2>2, <2>3, ResultsAfterTail
<1>3. \A b \in DOMAIN cachedBlocks : cachedBlocks[b] \in Entries
  BY DEF IInv, TypeOK
<1>4. ASSUME NEW b \in Blocks \ Disturbed, NEW i \in DOMAIN channel', ResultOf(i, b)'
      PROVE  b # h /\ IsPooled(b) /\ \A t \in DOMAIN tracers : t[2] # b
  <2>1. i + 1 \in DOMAIN channel /\ ResultOf(i + 1, b) /\ i + 1 # 1
    BY <1>2, <1>4
  <2>2. b # h
    BY <1>2, <2>1 DEF UndisturbedInv, OneReplay
  <2> QED BY <2>1, <2>2 DEF UndisturbedInv, OneReplay
<1>5. ASSUME NEW b \in Blocks \ Disturbed, NEW i \in DOMAIN channel', NEW j \in DOMAIN channel',
             ResultOf(i, b)', ResultOf(j, b)'
      PROVE  i = j
  <2>1. i + 1 = j + 1 /\ i \in Nat /\ j \in Nat
    BY <1>2, <1>5 DEF UndisturbedInv, OneReplay
  <2> QED BY <2>1
<1> HIDE DEF h
<1>6. CASE ~IsPooled(h)
  <2>1. UNCHANGED <<client, cachedBlocks>>
    BY <1>6 DEF BlockingFinished, h
  <2>2. /\ Disturbed' = Disturbed
        /\ \A b : (IsPooled(b)' <=> IsPooled(b)) /\ (Replayed(b)' <=> Replayed(b))
                  /\ Users(b)' = Users(b)
    BY <1>1, <2>1 DEF IsPooled, Replayed, Users, Disturbed, StoppedEarly
  <2>3. OwnBlocks' /\ AnsweredReplayed' /\ CachedForBatches' /\ CountsExact'
    BY <1>1, <2>1, <2>2 DEF UndisturbedInv, OwnBlocks, AnsweredReplayed, CachedForBatches,
                            CountsExact, Active, AsksFor
  <2>4. OneReplay'
    <3> SUFFICES ASSUME NEW b \in Blocks \ Disturbed
                 PROVE  /\ \A t \in DOMAIN tracers : t[2] = b =>
                              /\ IsPooled(b) /\ cachedBlocks[b].tracer = t[1]
                              /\ \A i \in DOMAIN channel' : ~ResultOf(i, b)'
                        /\ \A i \in DOMAIN channel' : ResultOf(i, b)' => IsPooled(b)
                        /\ \A i, j \in DOMAIN channel' : ResultOf(i, b)' /\ ResultOf(j, b)' => i = j
      BY <1>1, <2>1, <2>2 DEF OneReplay
    <3>1. \A t \in DOMAIN tracers : t[2] = b => IsPooled(b) /\ cachedBlocks[b].tracer = t[1]
      BY DEF UndisturbedInv, OneReplay
    <3> QED BY <1>4, <1>5, <3>1
  <2> QED BY <2>3, <2>4 DEF UndisturbedInv
<1>7. CASE IsPooled(h)
  <2> DEFINE A == cachedBlocks[h].waiting
             result == Head(channel).result
  <2>1. /\ client' = Answered(A, result)
        /\ cachedBlocks' = [cachedBlocks EXCEPT ![h] =
                      [@ EXCEPT !.state = result, !.waiting = {}]]
    BY <1>7 DEF BlockingFinished, h
  <2>2. A \in SUBSET Clients /\ result \in Answers \ {"batch"} /\ h \in DOMAIN cachedBlocks
    BY <1>2, <1>3, <1>7 DEF Entries, Answers, IsPooled
  <2>3. /\ DOMAIN cachedBlocks' = DOMAIN cachedBlocks
        /\ \A b \in DOMAIN cachedBlocks : b # h => cachedBlocks'[b] = cachedBlocks[b]
        /\ \A b \in DOMAIN cachedBlocks :
               /\ cachedBlocks'[b].count = cachedBlocks[b].count
               /\ cachedBlocks'[b].tracer = cachedBlocks[b].tracer
        /\ cachedBlocks'[h].state = result
    BY <1>3, <2>1, <2>2 DEF Entries
  <2>4. /\ \A b : Replayed(b) \/ b = h => Replayed(b)'
        /\ \A b : IsPooled(b) /\ b # h => IsPooled(b)'
    BY <1>2, <2>2, <2>3 DEF Replayed, IsPooled
  <2>5. \A d \in A : client[d].phase = "fetching" /\ AsksFor(d) = h
    BY <2>2 DEF IInv, Waits, WaitersMatch
  <2>6. \A d \in A : \A b \in {AsksFor(d)} \ Disturbed : Replayed(b)'
    BY <2>4, <2>5
  <2> HIDE DEF A, result
  <2>7. /\ OwnBlocks' /\ AnsweredReplayed'
        /\ Disturbed' = Disturbed
        /\ \A d \in Clients : (Active(d)' <=> Active(d)) /\ client'[d].batch = client[d].batch
    BY <1>1, <2>1, <2>2, <2>4, <2>5, <2>6, AnswersUndisturbed
  <2>8. CachedForBatches' /\ CountsExact'
    BY <1>1, <2>3, <2>4, <2>7, EntriesUndisturbed
  <2>9. OneReplay'
    <3> SUFFICES ASSUME NEW b \in Blocks \ Disturbed
                 PROVE  /\ \A t \in DOMAIN tracers : t[2] = b =>
                              /\ IsPooled(b)' /\ cachedBlocks'[b].tracer = t[1]
                              /\ \A i \in DOMAIN channel' : ~ResultOf(i, b)'
                        /\ \A i \in DOMAIN channel' : ResultOf(i, b)' => IsPooled(b)'
                        /\ \A i, j \in DOMAIN channel' : ResultOf(i, b)' /\ ResultOf(j, b)' => i = j
      BY <1>1, <2>7 DEF OneReplay
    <3>1. ASSUME NEW t \in DOMAIN tracers, t[2] = b
          PROVE  /\ IsPooled(b)' /\ cachedBlocks'[b].tracer = t[1]
      <4>1. /\ IsPooled(b) /\ cachedBlocks[b].tracer = t[1]
            /\ \A i \in DOMAIN channel : ~ResultOf(i, b)
        BY <3>1 DEF UndisturbedInv, OneReplay
      <4>2. b # h
        BY <1>2, <4>1
      <4> QED BY <2>3, <2>4, <4>1, <4>2 DEF IsPooled
    <3>2. \A i \in DOMAIN channel' : ResultOf(i, b)' => IsPooled(b)' /\ \A t \in DOMAIN tracers : t[2] # b
      BY <1>4, <2>4
    <3> QED BY <1>5, <3>1, <3>2
  <2> QED BY <2>7, <2>8, <2>9 DEF UndisturbedInv
<1> QED BY <1>6, <1>7

LEMMA GetTracesUndisturbed ==
    ASSUME IInv, BatchesOwned, UndisturbedInv, RequestGetTraces
    PROVE  UndisturbedInv'
<1> DEFINE c == Head(inbox).from
           h == Head(inbox).block
<1>1. /\ UNCHANGED <<batches, tracers, channel>>
      /\ inbox # <<>> /\ inbox' = Tail(inbox) /\ Head(inbox).kind = "GetTraces"
  BY DEF RequestGetTraces, HeadIs
<1>2. /\ c \in Clients /\ client[c].phase = "fetching" /\ h = AsksFor(c)
  <2>1. /\ 1 \in DOMAIN inbox /\ inbox[1] = Head(inbox) /\ Head(inbox) \in Requests
    BY <1>1, TailOfInbox DEF IInv, TypeOK
  <2>2. c \in Clients /\ Carries(1, c)
    BY <1>1, <2>1 DEF Requests, Carries
  <2> QED BY <1>1, <2>1, <2>2 DEF IInv, Waits, InboxMatches
<1>3. \A b \in DOMAIN cachedBlocks : cachedBlocks[b] \in Entries
  BY DEF IInv, TypeOK
<1> HIDE DEF c, h
<1>4. CASE IsPooled(h) /\ cachedBlocks' = [cachedBlocks EXCEPT ![h].waiting = @ \cup {c}]
           /\ UNCHANGED client
  <2>1. /\ DOMAIN cachedBlocks' = DOMAIN cachedBlocks
        /\ \A b \in DOMAIN cachedBlocks :
               /\ cachedBlocks'[b].count = cachedBlocks[b].count
               /\ cachedBlocks'[b].tracer = cachedBlocks[b].tracer
               /\ cachedBlocks'[b].state = cachedBlocks[b].state
    BY <1>3, <1>4 DEF Entries
  <2>2. \A b : (IsPooled(b)' <=> IsPooled(b)) /\ (Replayed(b)' <=> Replayed(b))
               /\ Users(b)' = Users(b)
    BY <1>1, <2>1 DEF IsPooled, Replayed, Users
  <2>3. Disturbed' = Disturbed
    BY <1>4 DEF Disturbed, StoppedEarly
  <2>4. OwnBlocks' /\ AnsweredReplayed' /\ CachedForBatches' /\ CountsExact'
    BY <1>1, <1>4, <2>1, <2>2, <2>3
    DEF UndisturbedInv, OwnBlocks, AnsweredReplayed, CachedForBatches, CountsExact, Active, AsksFor
  <2>5. OneReplay'
    BY <1>1, <2>1, <2>2, <2>3 DEF UndisturbedInv, OneReplay, ResultOf, IsPooled
  <2> QED BY <2>4, <2>5 DEF UndisturbedInv
<1>5. ASSUME NEW answer \in Answers \ {"batch"}, client' = Answered({c}, answer),
             UNCHANGED cachedBlocks, h \notin Disturbed => Replayed(h)
      PROVE  UndisturbedInv'
  <2>1. \A b : (IsPooled(b)' <=> IsPooled(b)) /\ (Replayed(b)' <=> Replayed(b))
    BY <1>5 DEF IsPooled, Replayed
  <2>3. \A b \in {AsksFor(c)} \ Disturbed : Replayed(b)'
    BY <1>2, <1>5, <2>1
  <2>4. /\ OwnBlocks' /\ AnsweredReplayed'
        /\ Disturbed' = Disturbed
        /\ \A d \in Clients : (Active(d)' <=> Active(d)) /\ client'[d].batch = client[d].batch
    <3>1. \A d \in {c} : \A b \in {AsksFor(d)} \ Disturbed : Replayed(b)'
      BY <2>3
    <3>2. {c} \in SUBSET Clients /\ \A d \in {c} : client[d].phase = "fetching"
      BY <1>2
    <3> QED BY <1>1, <1>5, <2>1, <3>1, <3>2, AnswersUndisturbed
  <2>5. CachedForBatches' /\ CountsExact'
    BY <1>1, <1>5, <2>1, <2>4, EntriesUndisturbed
  <2>6. OneReplay'
    BY <1>1, <1>5, <2>1, <2>4 DEF UndisturbedInv, OneReplay, ResultOf
  <2> QED BY <2>4, <2>5, <2>6 DEF UndisturbedInv
<1>6. CASE h \in DOMAIN cachedBlocks /\ ~IsPooled(h)
           /\ client' = Answered({c}, cachedBlocks[h].state) /\ UNCHANGED cachedBlocks
  <2>1. cachedBlocks[h].state \in Answers \ {"batch"}
    BY <1>3, <1>6 DEF Entries, Answers, IsPooled
  <2>2. Replayed(h)
    BY <1>6 DEF Replayed
  <2> QED BY <1>5, <1>6, <2>1, <2>2
<1>7. CASE h \notin DOMAIN cachedBlocks /\ client' = Answered({c}, "unbatched")
           /\ UNCHANGED cachedBlocks
  <2>1. h \in BlockSet(c) /\ Active(c)
    <3>1. /\ client[c].fetched \in Nat /\ client[c].fetched < Len(BlocksOf[c])
          /\ Len(BlocksOf[c]) \in Nat
          /\ \A n \in 1 .. Len(BlocksOf[c]) : BlocksOf[c][n] \in BlockSet(c)
      BY <1>2, BlocksOfRequest DEF IInv, TypeOK, Waits, FetchesInOrder
    <3> QED BY <1>2, <3>1 DEF AsksFor, Active
  <2>2. h \in Disturbed
    BY <1>2, <1>7, <2>1, RunningUses DEF UndisturbedInv
  <2>3. "unbatched" \in Answers \ {"batch"}
    BY DEF Answers
  <2> QED BY <1>5, <1>7, <2>2, <2>3
<1> QED BY <1>4, <1>6, <1>7 DEF RequestGetTraces, c, h

-----------------------------------------------------------------------------
(* Stopped and expired batches                                             *)

\* Entries of disturbed blocks may go, with an answer to who waits in them.
LEMMA DropsUndisturbed ==
    ASSUME IInv, UndisturbedInv, NEW gone, gone \cap DOMAIN cachedBlocks \subseteq Disturbed,
           client' = Answered(WaitingOn(gone), "closed"),
           cachedBlocks' = DropEntries(gone),
           UNCHANGED <<batches, tracers, channel>>
    PROVE  UndisturbedInv'
<1>1. /\ DOMAIN cachedBlocks' = DOMAIN cachedBlocks \ gone
      /\ \A b \in DOMAIN cachedBlocks' : cachedBlocks'[b] = cachedBlocks[b]
  BY DEF DropEntries, Restrict
<1>2. \A b : b \notin Disturbed =>
             (IsPooled(b)' <=> IsPooled(b)) /\ (Replayed(b)' <=> Replayed(b))
  BY <1>1 DEF IsPooled, Replayed
<1>3. /\ WaitingOn(gone) \in SUBSET Clients
      /\ \A d \in WaitingOn(gone) : client[d].phase = "fetching" /\ AsksFor(d) \in Disturbed
  <2>1. \A d \in WaitingOn(gone) :
            \E b \in gone \cap DOMAIN cachedBlocks : d \in cachedBlocks[b].waiting
    BY DEF WaitingOn
  <2>2. \A b \in DOMAIN cachedBlocks : cachedBlocks[b].waiting \in SUBSET Clients
    BY DEF IInv, TypeOK, Entries
  <2>3. \A b \in DOMAIN cachedBlocks : \A d \in cachedBlocks[b].waiting :
            client[d].phase = "fetching" /\ b = AsksFor(d)
    BY DEF IInv, Waits, WaitersMatch
  <2>4. WaitingOn(gone) \in SUBSET Clients
    BY <2>1, <2>2
  <2> QED BY <2>1, <2>3, <2>4
<1>4. "closed" \in Answers \ {"batch"}
  BY DEF Answers
<1>5. /\ OwnBlocks' /\ AnsweredReplayed'
      /\ Disturbed' = Disturbed
      /\ \A d \in Clients : (Active(d)' <=> Active(d)) /\ client'[d].batch = client[d].batch
  BY <1>2, <1>3, <1>4, AnswersUndisturbed
<1>6. CachedForBatches' /\ CountsExact'
  BY <1>1, <1>2, <1>5, EntriesUndisturbed
<1>7. OneReplay'
  <2> SUFFICES ASSUME NEW b \in Blocks \ Disturbed
               PROVE  /\ \A t \in DOMAIN tracers : t[2] = b =>
                            /\ IsPooled(b)' /\ cachedBlocks'[b].tracer = t[1]
                            /\ \A i \in DOMAIN channel : ~ResultOf(i, b)
                      /\ \A i \in DOMAIN channel : ResultOf(i, b) => IsPooled(b)'
                      /\ \A i, j \in DOMAIN channel : ResultOf(i, b) /\ ResultOf(j, b) => i = j
    BY <1>5 DEF OneReplay, ResultOf
  <2>1. IsPooled(b) => cachedBlocks'[b] = cachedBlocks[b]
    BY <1>1 DEF IsPooled
  <2> QED BY <1>2, <2>1 DEF UndisturbedInv, OneReplay
<1> QED BY <1>5, <1>6, <1>7 DEF UndisturbedInv

LEMMA StopBatchUndisturbed ==
    ASSUME IInv, BatchesOwned, UndisturbedInv, RequestStopBatch
    PROVE  UndisturbedInv'
<1> DEFINE id == Head(inbox).batch
<1>1. /\ inbox # <<>> /\ inbox' = Tail(inbox) /\ Head(inbox).kind = "StopBatch"
      /\ client' = Answered(WaitingOn(Unneeded(id)), "closed")
      /\ cachedBlocks' = DropEntries(Unneeded(id))
      /\ UNCHANGED <<batches, tracers, channel>>
  BY DEF RequestStopBatch, HeadIs
<1>2. 1 \in DOMAIN inbox /\ Stops(1, id) /\ id \in Nat
  <2>1. 1 \in DOMAIN inbox /\ inbox[1] = Head(inbox) /\ Head(inbox) \in Requests
    BY <1>1, TailOfInbox DEF IInv, TypeOK
  <2> QED BY <1>1, <2>1 DEF Stops, Requests
<1>3. id \in DOMAIN batches /\ \A c \in Clients : Active(c) => client[c].batch # id
  BY <1>2 DEF BatchesOwned
<1>4. Unneeded(id) \cap DOMAIN cachedBlocks \subseteq Disturbed
  BY <1>3 DEF UndisturbedInv, CachedForBatches, Unneeded, Replayed, IsPooled
<1> HIDE DEF id
<1> QED BY <1>1, <1>4, DropsUndisturbed

\* The last batch of an undisturbed block has stopped when it expires: nothing replays the
\* block any more and no running request has it.
LEMMA ExpiredUndisturbed ==
    ASSUME IInv, BatchesOwned, UndisturbedInv, NEW id \in BatchIds, ExpiredBatch(id)
    PROVE  UndisturbedInv'
<1> DEFINE gone == OnlyUsedBy(id)
<1>1. /\ id \in expirations /\ id \in DOMAIN batches
      /\ DOMAIN batches' = DOMAIN batches \ {id}
      /\ \A i \in DOMAIN batches' : batches'[i] = batches[i]
      /\ client' = Answered(WaitingOn(gone), "closed")
      /\ cachedBlocks' = [b \in DOMAIN cachedBlocks \ gone |->
                             IF b \in batches[id] THEN [cachedBlocks[b] EXCEPT !.count = @ - 1]
                                                  ELSE cachedBlocks[b]]
      /\ UNCHANGED <<tracers, channel>>
  BY DEF ExpiredBatch, Restrict, IInv, TypeOK
<1>2. \A c \in Clients : Active(c) => client[c].batch # id
  BY <1>1 DEF BatchesOwned
<1>3. \A b : Users(b)' = Users(b) \ {id}
  BY <1>1 DEF Users
<1>4. \A b \in DOMAIN cachedBlocks : cachedBlocks[b] \in Entries
  BY DEF IInv, TypeOK
<1>5. ASSUME NEW b \in gone \ Disturbed
      PROVE  Users(b) = {id} /\ Replayed(b)
  <2>1. b \in batches[id] /\ b \in DOMAIN cachedBlocks /\ cachedBlocks[b].count = 1
    BY <1>5 DEF OnlyUsedBy
  <2>2. Cardinality(Users(b)) = 1
    BY <1>5, <2>1 DEF UndisturbedInv, CountsExact
  <2>3. id \in Users(b)
    BY <1>1, <2>1 DEF Users
  <2>4. \A u \in Users(b) : u = id
    BY <2>2, <2>3, UsersFinite, FS_Singleton
  <2>5. Replayed(b)
    BY <1>1, <1>2, <1>5, <2>1 DEF UndisturbedInv, CachedForBatches
  <2> QED BY <2>3, <2>4, <2>5
<1> HIDE DEF gone
<1>6. /\ DOMAIN cachedBlocks' = DOMAIN cachedBlocks \ gone
      /\ \A b \in DOMAIN cachedBlocks' :
             /\ cachedBlocks'[b].state = cachedBlocks[b].state
             /\ cachedBlocks'[b].tracer = cachedBlocks[b].tracer
             /\ b \notin batches[id] => cachedBlocks'[b].count = cachedBlocks[b].count
             /\ b \in batches[id] => cachedBlocks'[b].count = cachedBlocks[b].count - 1
  BY <1>1, <1>4 DEF Entries
<1>7. \A b : b \notin Disturbed /\ Replayed(b) /\ b \notin gone => Replayed(b)'
  BY <1>6 DEF Replayed, IsPooled
<1>8. \A b : b \notin Disturbed => (IsPooled(b)' <=> IsPooled(b))
  <2>1. \A b : b \notin gone => (IsPooled(b)' <=> IsPooled(b))
    BY <1>6 DEF IsPooled
  <2>2. \A b \in gone \ Disturbed : ~IsPooled(b) /\ ~IsPooled(b)'
    BY <1>5, <1>6 DEF IsPooled, Replayed
  <2> QED BY <2>1, <2>2
<1>9. \A d \in Clients : \A b \in BlockSet(d) \ Disturbed : Active(d) => b \notin gone
  <2> SUFFICES ASSUME NEW d \in Clients, NEW b \in BlockSet(d) \ Disturbed, Active(d), b \in gone
               PROVE  FALSE
    OBVIOUS
  <2>1. client[d].batch \in Users(b)
    BY RunningUses DEF UndisturbedInv
  <2> QED BY <1>2, <1>5, <2>1
<1>10. /\ WaitingOn(gone) \in SUBSET Clients
       /\ \A d \in WaitingOn(gone) : client[d].phase = "fetching" /\ AsksFor(d) \in Disturbed
  <2>1. \A d \in WaitingOn(gone) :
            \E b \in gone \cap DOMAIN cachedBlocks : d \in cachedBlocks[b].waiting
    BY DEF WaitingOn
  <2>2. \A b \in DOMAIN cachedBlocks : cachedBlocks[b].waiting \in SUBSET Clients
    BY <1>4 DEF Entries
  <2>3. \A b \in DOMAIN cachedBlocks : \A d \in cachedBlocks[b].waiting :
            client[d].phase = "fetching" /\ b = AsksFor(d) /\ IsPooled(b)
    BY DEF IInv, Waits, WaitersMatch
  <2>4. \A b \in gone \ Disturbed : ~IsPooled(b)
    BY <1>5 DEF Replayed
  <2>5. WaitingOn(gone) \in SUBSET Clients
    BY <2>1, <2>2
  <2> QED BY <2>1, <2>3, <2>4, <2>5
<1>11. "closed" \in Answers \ {"batch"}
  BY DEF Answers
<1>12. \A d \in Clients : Active(d) => batches'[client[d].batch] = batches[client[d].batch]
  BY <1>1, <1>2 DEF BatchesOwned
<1>13. /\ OwnBlocks' /\ AnsweredReplayed'
       /\ Disturbed' = Disturbed
       /\ \A d \in Clients : (Active(d)' <=> Active(d)) /\ client'[d].batch = client[d].batch
  BY <1>1, <1>7, <1>9, <1>10, <1>11, <1>12, AnswersUndisturbed
<1>14. CachedForBatches'
  <2> SUFFICES ASSUME NEW i \in DOMAIN batches', NEW b \in batches[i] \ Disturbed
               PROVE  /\ b \in DOMAIN cachedBlocks'
                      /\ (\A d \in Clients : Active(d) => client[d].batch # i) => Replayed(b)'
    BY <1>1, <1>13 DEF CachedForBatches
  <2>1. i \in DOMAIN batches /\ i # id
    BY <1>1
  <2>2. /\ b \in DOMAIN cachedBlocks
        /\ (\A d \in Clients : Active(d) => client[d].batch # i) => Replayed(b)
    BY <2>1 DEF UndisturbedInv, CachedForBatches
  <2>3. b \notin gone
    <3>1. i \in Users(b)
      BY <2>1 DEF Users
    <3> QED BY <1>5, <2>1, <3>1
  <2> QED BY <1>6, <1>7, <2>2, <2>3
<1>15. CountsExact'
  <2> SUFFICES ASSUME NEW b \in DOMAIN cachedBlocks' \ Disturbed
               PROVE  cachedBlocks'[b].count = Cardinality(Users(b)')
    BY <1>13 DEF CountsExact
  <2>1. b \in DOMAIN cachedBlocks /\ cachedBlocks[b].count = Cardinality(Users(b))
    BY <1>6 DEF UndisturbedInv, CountsExact
  <2>2. IsFiniteSet(Users(b)) /\ Cardinality(Users(b)) \in Nat
    BY UsersFinite
  <2>3. CASE b \in batches[id]
    <3>1. id \in Users(b)
      BY <1>1, <2>3 DEF Users
    <3>2. Cardinality(Users(b)') = Cardinality(Users(b)) - 1
      BY <1>3, <2>2, <3>1, FS_RemoveElement
    <3> QED BY <1>6, <2>1, <2>3, <3>2
  <2>4. CASE b \notin batches[id]
    <3>1. Users(b)' = Users(b)
      BY <1>3, <2>4 DEF Users
    <3> QED BY <1>6, <2>1, <2>4, <3>1
  <2> QED BY <2>3, <2>4
<1>16. OneReplay'
  <2>0. tracers' = tracers /\ channel' = channel
    BY <1>1
  <2> SUFFICES ASSUME NEW b \in Blocks \ Disturbed'
               PROVE  /\ \A t \in DOMAIN tracers' : t[2] = b =>
                            /\ IsPooled(b)' /\ cachedBlocks'[b].tracer = t[1]
                            /\ \A i \in DOMAIN channel' : ~ResultOf(i, b)'
                      /\ \A i \in DOMAIN channel' : ResultOf(i, b)' => IsPooled(b)'
                      /\ \A i, j \in DOMAIN channel' : ResultOf(i, b)' /\ ResultOf(j, b)' => i = j
    BY DEF OneReplay
  <2>1. b \in Blocks \ Disturbed
    BY <1>13
  <2>2. IsPooled(b)' => cachedBlocks'[b].tracer = cachedBlocks[b].tracer
    BY <1>6 DEF IsPooled
  <2>3. IsPooled(b)' <=> IsPooled(b)
    BY <1>8, <2>1
  <2>4. \A i : ResultOf(i, b)' <=> ResultOf(i, b)
    BY <2>0 DEF ResultOf
  <2>5. /\ \A t \in DOMAIN tracers : t[2] = b =>
              /\ IsPooled(b) /\ cachedBlocks[b].tracer = t[1]
              /\ \A i \in DOMAIN channel : ~ResultOf(i, b)
        /\ \A i \in DOMAIN channel : ResultOf(i, b) => IsPooled(b)
        /\ \A i, j \in DOMAIN channel : ResultOf(i, b) /\ ResultOf(j, b) => i = j
    BY <2>1 DEF UndisturbedInv, OneReplay
  <2> QED BY <2>0, <2>2, <2>3, <2>4, <2>5
<1> QED BY <1>13, <1>14, <1>15, <1>16 DEF UndisturbedInv

-----------------------------------------------------------------------------
(* A new batch                                                             *)

\* A block of the new batch that is not cached has no user, no tracer and no result on its
\* way, unless it is disturbed.
LEMMA MissingIsUnused ==
    ASSUME IInv, UndisturbedInv, NEW b \in Blocks \ Disturbed, b \notin DOMAIN cachedBlocks
    PROVE  /\ Users(b) = {}
           /\ \A t \in DOMAIN tracers : t[2] # b
           /\ \A i \in DOMAIN channel : ~ResultOf(i, b)
BY DEF UndisturbedInv, CachedForBatches, Users, OneReplay, IsPooled

LEMMA StartBatchUndisturbed ==
    ASSUME IInv, BatchesOwned, UndisturbedInv, RequestStartBatch
    PROVE  UndisturbedInv'
<1> DEFINE c == Head(inbox).from
           new == CacheMisses(c)
           id == nextBatchId
<1>1. /\ inbox # <<>> /\ inbox' = Tail(inbox) /\ Head(inbox).kind = "StartBatch"
      /\ batches' = [i \in DOMAIN batches \cup {id} |-> IF i = id THEN BlockSet(c) ELSE batches[i]]
      /\ cachedBlocks' = [b \in DOMAIN cachedBlocks \cup new |->
                             IF b \in new THEN NewEntry(id)
                             ELSE IF b \in BlockSet(c) THEN CacheHit(cachedBlocks[b])
                             ELSE cachedBlocks[b]]
      /\ DOMAIN tracers' = DOMAIN tracers \cup ({id} \X new)
      /\ client' = [client EXCEPT ![c].batch = id, ![c].reply = "batch"]
      /\ UNCHANGED channel
  BY DEF RequestStartBatch, HeadIs
<1>2. c \in Clients /\ client[c].phase = "starting" /\ client[c].reply = "none"
  <2>1. 1 \in DOMAIN inbox /\ inbox[1] = Head(inbox) /\ Head(inbox) \in Requests
    BY <1>1, TailOfInbox DEF IInv, TypeOK
  <2>2. c \in Clients /\ Carries(1, c)
    BY <1>1, <2>1 DEF Requests, Carries
  <2> QED BY <1>1, <2>1, <2>2 DEF IInv, Waits, InboxMatches, Expecting
<1>3. BlockSet(c) \subseteq Blocks /\ new \subseteq BlockSet(c) /\ new \cap DOMAIN cachedBlocks = {}
  BY <1>2, BlocksOfRequest DEF CacheMisses
<1>4. id \notin DOMAIN batches /\ id \in Nat
  BY DEF BatchesOwned, IInv, TypeOK
<1>5. client \in [Clients -> ClientType]
  BY DEF IInv, TypeOK, ClientType
<1>6. \A b \in DOMAIN cachedBlocks : cachedBlocks[b] \in Entries
  BY DEF IInv, TypeOK
<1> HIDE DEF c, new
<1>7. /\ \A d \in Clients \ {c} : client'[d] = client[d]
      /\ client'[c].phase = "starting" /\ client'[c].reply = "batch" /\ client'[c].batch = id
  <2>1. client' = [client EXCEPT ![c] = [[client[c] EXCEPT !.batch = id] EXCEPT !.reply = "batch"]]
    BY <1>1, <1>2, <1>5
  <2>2. client[c] \in ClientType
    BY <1>2, <1>5
  <2>3. client'[c] = [[client[c] EXCEPT !.batch = id] EXCEPT !.reply = "batch"]
    BY <1>2, <1>5, <2>1
  <2> QED BY <1>2, <1>5, <2>1, <2>2, <2>3 DEF ClientType
<1>8. Disturbed' = Disturbed
  BY <1>2, <1>7 DEF Disturbed, StoppedEarly
<1>9. /\ \A d \in Clients \ {c} : Active(d)' <=> Active(d)
      /\ ~Active(c) /\ \A d \in {c} : Active(d)'
  BY <1>2, <1>7 DEF Active
<1>10. \A d \in Clients : Active(d) => client[d].batch \in DOMAIN batches /\ client[d].batch # id
  BY <1>4 DEF BatchesOwned
<1>11. /\ DOMAIN batches' = DOMAIN batches \cup {id}
       /\ batches'[id] = BlockSet(c)
       /\ \A i \in DOMAIN batches : batches'[i] = batches[i]
  BY <1>1, <1>4
<1>12. /\ DOMAIN cachedBlocks' = DOMAIN cachedBlocks \cup new
       /\ \A b \in new : /\ cachedBlocks'[b].count = 1 /\ cachedBlocks'[b].tracer = id
                         /\ cachedBlocks'[b].state = "pooled"
       /\ \A b \in DOMAIN cachedBlocks :
              /\ cachedBlocks'[b].state = cachedBlocks[b].state
              /\ cachedBlocks'[b].tracer = cachedBlocks[b].tracer
              /\ cachedBlocks'[b].count =
                     IF b \in BlockSet(c) THEN cachedBlocks[b].count + 1 ELSE cachedBlocks[b].count
  <2>1. \A b \in new : cachedBlocks'[b] = NewEntry(id)
    BY <1>1
  <2>2. \A b \in DOMAIN cachedBlocks :
            cachedBlocks'[b] = IF b \in BlockSet(c) THEN CacheHit(cachedBlocks[b]) ELSE cachedBlocks[b]
    BY <1>1, <1>3
  <2>3. DOMAIN cachedBlocks' = DOMAIN cachedBlocks \cup new
    BY <1>1
  <2>4. \A b \in DOMAIN cachedBlocks :
              /\ cachedBlocks'[b].state = cachedBlocks[b].state
              /\ cachedBlocks'[b].tracer = cachedBlocks[b].tracer
              /\ cachedBlocks'[b].count =
                     IF b \in BlockSet(c) THEN cachedBlocks[b].count + 1 ELSE cachedBlocks[b].count
    BY <1>6, <2>2 DEF CacheHit, Entries
  <2> QED BY <2>1, <2>3, <2>4 DEF NewEntry
<1>13. /\ \A b : Replayed(b) => Replayed(b)'
       /\ \A b : IsPooled(b) => IsPooled(b)'
       /\ \A b \in new : IsPooled(b)'
  BY <1>3, <1>12 DEF Replayed, IsPooled
<1>14. OwnBlocks'
  <2> SUFFICES ASSUME NEW d \in Clients, Active(d)'
               PROVE  batches'[client'[d].batch] = BlockSet(d)
    BY DEF OwnBlocks
  <2>1. CASE d = c
    BY <1>7, <1>11, <2>1
  <2>2. CASE d # c
    BY <1>7, <1>9, <1>10, <1>11, <2>2 DEF UndisturbedInv, OwnBlocks
  <2> QED BY <2>1, <2>2
<1>15. AnsweredReplayed'
  <2> SUFFICES ASSUME NEW d \in Clients, client'[d].phase = "fetching"
               PROVE  /\ client'[d].reply # "batch"
                      /\ \A k \in 1 .. client'[d].fetched :
                             BlocksOf[d][k] \notin Disturbed => Replayed(BlocksOf[d][k])'
                      /\ client'[d].reply # "none" /\ AsksFor(d)' \notin Disturbed
                             => Replayed(AsksFor(d))'
    BY <1>8 DEF AnsweredReplayed
  <2>1. client'[d] = client[d]
    BY <1>7
  <2>2. /\ client[d].reply # "batch"
        /\ \A k \in 1 .. client[d].fetched : BlocksOf[d][k] \notin Disturbed => Replayed(BlocksOf[d][k])
        /\ client[d].reply # "none" /\ AsksFor(d) \notin Disturbed => Replayed(AsksFor(d))
    BY <2>1 DEF UndisturbedInv, AnsweredReplayed
  <2>3. \A k \in 1 .. client[d].fetched : BlocksOf[d][k] \notin Disturbed => Replayed(BlocksOf[d][k])'
    BY <1>13, <2>2
  <2>4. AsksFor(d)' = AsksFor(d)
    BY <2>1 DEF AsksFor
  <2>5. client[d].reply # "none" => \A b \in {AsksFor(d)} \ Disturbed : Replayed(b)'
    BY <1>13, <2>2
  <2>6. client[d].reply # "none" /\ AsksFor(d)' \notin Disturbed => Replayed(AsksFor(d))'
    BY <2>4, <2>5 DEF Replayed, IsPooled
  <2> QED BY <2>1, <2>2, <2>3, <2>6
<1>16. CachedForBatches'
  <2> SUFFICES ASSUME NEW i \in DOMAIN batches', NEW b \in batches'[i] \ Disturbed
               PROVE  /\ b \in DOMAIN cachedBlocks'
                      /\ (\A d \in Clients : Active(d)' => client'[d].batch # i) => Replayed(b)'
    BY <1>8 DEF CachedForBatches
  <2>1. CASE i = id
    <3>1. b \in BlockSet(c)
      BY <1>11, <2>1
    <3>2. b \in DOMAIN cachedBlocks'
      BY <1>12, <3>1 DEF CacheMisses, new
    <3> QED BY <1>2, <1>7, <1>9, <2>1, <3>2
  <2>2. CASE i # id
    <3>1. i \in DOMAIN batches /\ b \in batches[i]
      BY <1>11, <2>2
    <3>2. /\ b \in DOMAIN cachedBlocks
          /\ (\A d \in Clients : Active(d) => client[d].batch # i) => Replayed(b)
      BY <3>1 DEF UndisturbedInv, CachedForBatches
    <3>3. ASSUME \A d \in Clients : Active(d)' => client'[d].batch # i
          PROVE  \A d \in Clients : Active(d) => client[d].batch # i
      BY <1>7, <1>9, <3>3
    <3> QED BY <1>12, <1>13, <3>2, <3>3
  <2> QED BY <2>1, <2>2
<1>17. \A b : Users(b)' = IF b \in BlockSet(c) THEN Users(b) \cup {id} ELSE Users(b)
  BY <1>4, <1>11 DEF Users
<1>18. CountsExact'
  <2> SUFFICES ASSUME NEW b \in DOMAIN cachedBlocks' \ Disturbed
               PROVE  cachedBlocks'[b].count = Cardinality(Users(b)')
    BY <1>8 DEF CountsExact
  <2>1. CASE b \in new
    <3>1. Users(b) = {}
      BY <1>3, <2>1, MissingIsUnused
    <3>2. Users(b)' = {id}
      BY <1>3, <1>17, <2>1, <3>1
    <3> QED BY <1>12, <2>1, <3>2, FS_Singleton
  <2>2. CASE b \notin new
    <3>1. b \in DOMAIN cachedBlocks /\ cachedBlocks[b].count = Cardinality(Users(b))
      BY <1>12, <2>2 DEF UndisturbedInv, CountsExact
    <3>2. IsFiniteSet(Users(b)) /\ Cardinality(Users(b)) \in Nat /\ id \notin Users(b)
      BY UsersFinite
    <3>3. CASE b \in BlockSet(c)
      <4>1. Cardinality(Users(b) \cup {id}) = Cardinality(Users(b)) + 1
        BY <3>2, FS_AddElement
      <4> QED BY <1>12, <1>17, <3>1, <3>3, <4>1
    <3>4. CASE b \notin BlockSet(c)
      BY <1>12, <1>17, <3>1, <3>4
    <3> QED BY <3>3, <3>4
  <2> QED BY <2>1, <2>2
<1>19. OneReplay'
  <2>0. UNCHANGED channel /\ \A i, b : ResultOf(i, b)' <=> ResultOf(i, b)
    BY <1>1 DEF ResultOf
  <2> SUFFICES ASSUME NEW b \in Blocks \ Disturbed
               PROVE  /\ \A t \in DOMAIN tracers' : t[2] = b =>
                            /\ IsPooled(b)' /\ cachedBlocks'[b].tracer = t[1]
                            /\ \A i \in DOMAIN channel : ~ResultOf(i, b)
                      /\ \A i \in DOMAIN channel : ResultOf(i, b) => IsPooled(b)'
                      /\ \A i, j \in DOMAIN channel : ResultOf(i, b) /\ ResultOf(j, b) => i = j
    BY <1>8, <2>0 DEF OneReplay
  <2>1. CASE b \in new
    <3>1. /\ \A t \in DOMAIN tracers : t[2] # b
          /\ \A i \in DOMAIN channel : ~ResultOf(i, b)
      BY <1>3, <2>1, MissingIsUnused
    <3>2. \A t \in DOMAIN tracers' : t[2] = b => t[1] = id
      <4> SUFFICES ASSUME NEW t \in {id} \X new, t[2] = b PROVE t[1] = id
        BY <1>1, <3>1
      <4> QED OBVIOUS
    <3> QED BY <1>12, <1>13, <2>1, <3>1, <3>2
  <2>2. CASE b \notin new
    <3>1. \A t \in DOMAIN tracers' : t[2] = b => t \in DOMAIN tracers
      <4>1. \A t \in {id} \X new : t[2] \in new
        OBVIOUS
      <4> QED BY <1>1, <2>2, <4>1
    <3>2. IsPooled(b) => cachedBlocks'[b].tracer = cachedBlocks[b].tracer
      BY <1>12 DEF IsPooled
    <3> QED BY <1>13, <3>1, <3>2 DEF UndisturbedInv, OneReplay
  <2> QED BY <2>1, <2>2
<1> QED BY <1>14, <1>15, <1>16, <1>18, <1>19 DEF UndisturbedInv

LEMMA InitUndisturbed == Init => UndisturbedInv
BY DEF Init, UndisturbedInv, OwnBlocks, AnsweredReplayed, CachedForBatches, CountsExact,
       OneReplay, Active

LEMMA StepKeepsUndisturbed ==
    ASSUME IInv, BatchesOwned, UndisturbedInv, [Next]_vars
    PROVE  UndisturbedInv'
<1>1. CASE \E t \in DOMAIN tracers :
               Cancelled(t) \/ Acquire(t) \/ SendStarted(t) \/ SendFinished(t)
  BY <1>1, TracersKeepUndisturbed
<1>2. CASE DebugAcquire \/ DebugRelease \/ UNCHANGED vars
  <2>1. UNCHANGED <<client, cachedBlocks, batches, tracers, channel>>
    BY <1>2 DEF DebugAcquire, DebugRelease, vars, cacheVars
  <2>2. /\ Disturbed' = Disturbed
        /\ \A b : (IsPooled(b)' <=> IsPooled(b)) /\ (Replayed(b)' <=> Replayed(b))
                  /\ Users(b)' = Users(b)
    BY <2>1 DEF IsPooled, Replayed, Users, Disturbed, StoppedEarly
  <2> QED BY <2>1, <2>2 DEF UndisturbedInv, OwnBlocks, AnsweredReplayed, CachedForBatches,
                            CountsExact, OneReplay, ResultOf, Active, AsksFor
<1>3. CASE \E c \in Clients : Filter(c) \/ Request(c)
  BY <1>3, RequestsUndisturbed
<1>4. CASE \E id \in BatchIds : ExpiredBatch(id)
  BY <1>4, ExpiredUndisturbed
<1> QED
  BY <1>1, <1>2, <1>3, <1>4, StartBatchUndisturbed, GetTracesUndisturbed, StopBatchUndisturbed,
     BlockingStartedUndisturbed, BlockingFinishedUndisturbed DEF Next, CacheTask

LEMMA UndisturbedIsExact ==
    ASSUME IInv, BatchesOwned, UndisturbedInv, CountBounded
    PROVE  CacheExact
<1> SUFFICES ASSUME NEW b \in Blocks \ Disturbed
             PROVE  /\ (\E c \in Clients : Active(c) /\ b \in BlockSet(c)) => b \in DOMAIN cachedBlocks
                    /\ b \in DOMAIN cachedBlocks => cachedBlocks[b].count = Cardinality(Users(b))
                    /\ b \in DOMAIN cachedBlocks /\ ~IsPooled(b) => \A t \in Holding : t[2] # b
  BY DEF CacheExact
<1>1. (\E c \in Clients : Active(c) /\ b \in BlockSet(c)) => b \in DOMAIN cachedBlocks
  BY RunningUses DEF UndisturbedInv
<1>2. b \in DOMAIN cachedBlocks => cachedBlocks[b].count = Cardinality(Users(b))
  BY DEF UndisturbedInv, CountsExact
<1>3. ~IsPooled(b) => \A t \in Holding : t[2] # b
  BY DEF UndisturbedInv, OneReplay, Holding
<1> QED BY <1>1, <1>2, <1>3

-----------------------------------------------------------------------------

LEMMA IInvImpliesNobodyForgotten == IInv => NobodyForgotten
<1> SUFFICES ASSUME IInv PROVE NobodyForgotten
  OBVIOUS
<1>1. ASSUME NEW c \in Clients, Expecting(c)
      PROVE  \/ Queued(c) /\ Waiting(c) = {}
             \/ ~Queued(c) /\ Waiting(c) = {AsksFor(c)} /\ \A b \in Waiting(c) : IsPooled(b)
  <2>1. Queued(c) <=> \E i \in DOMAIN inbox : Carries(i, c)
    BY DEF Queued, Carries
  <2>2. CASE Queued(c)
    <3>1. \A b \in DOMAIN cachedBlocks : c \notin cachedBlocks[b].waiting
      BY <2>1, <2>2 DEF IInv, Waits, InboxMatches
    <3> QED BY <2>2, <3>1 DEF Waiting
  <2>3. CASE ~Queued(c)
    <3>1. Waiting(c) # {}
      BY <1>1, <2>1, <2>3 DEF IInv, Waits, SenderKept, Waiting
    <3>2. \A b \in Waiting(c) : b = AsksFor(c) /\ IsPooled(b)
      BY DEF IInv, Waits, WaitersMatch, Waiting
    <3> QED BY <2>3, <3>1, <3>2
  <2> QED BY <2>2, <2>3
<1> QED BY <1>1 DEF IInv, TracerAlive, NobodyForgotten, Expecting, AsksFor

LEMMA Invariance == Spec => [](IInv /\ BatchesOwned)
<1>1. Init => IInv /\ BatchesOwned
  BY InitIInv, InitOwned
<1>2. IInv /\ BatchesOwned /\ [Next]_vars => (IInv /\ BatchesOwned)'
  BY StepKeepsIInv, StepKeepsOwned
<1> QED BY <1>1, <1>2, PTL DEF Spec

\* For any requests, any failing replays and any pool of permits, every variable stays in
\* its range; in particular the count of an entry never reaches zero, so the decrement of
\* expired_batch cannot underflow, and a stopped batch is one that exists (expired_batch
\* finds it).
THEOREM TypeCorrect == Spec => []TypeOK
<1>1. IInv => TypeOK
  BY DEF IInv
<1> QED BY <1>1, Invariance, PTL

\* For any requests, any failing replays and any pool of permits, removals and failures
\* answer everybody: a request that waits has its sender in the queue or in exactly one
\* pooled entry, and a pooled entry has its tracer or a result of it on the way.
THEOREM NobodyIsForgotten == Spec => []NobodyForgotten
BY Invariance, IInvImpliesNobodyForgotten, PTL

\* For any requests, however early they stop, any failing replays and any pool of
\* permits, the count of a cached block is at least one and at most the number of
\* batches that hold the block and have not expired: expired_batch never decrements
\* below one, and the last of these batches to expire removes the entry.
THEOREM CountsBounded == Spec => []CountBounded
<1>1. Init => CountBounded
  BY DEF Init, CountBounded
<1>2. IInv /\ BatchesOwned /\ CountBounded /\ [Next]_vars => CountBounded'
  BY StepKeepsCounts
<1> QED BY <1>1, <1>2, Invariance, PTL DEF Spec

\* For any requests, failing replays and pool of permits: of a block that no request
\* disturbs by stopping early, the entry is there for every request that has it, counts
\* exactly the batches that do, and is not replayed again while it holds a result.
THEOREM CacheIsExact == Spec => []CacheExact
<1>1. Init => UndisturbedInv /\ CountBounded
  BY InitUndisturbed DEF Init, CountBounded
<1>2. IInv /\ BatchesOwned /\ UndisturbedInv /\ CountBounded /\ [Next]_vars
          => (UndisturbedInv /\ CountBounded)'
  BY StepKeepsUndisturbed, StepKeepsCounts
<1>3. IInv /\ BatchesOwned /\ UndisturbedInv /\ CountBounded => CacheExact
  BY UndisturbedIsExact
<1> QED BY <1>1, <1>2, <1>3, Invariance, PTL DEF Spec
=============================================================================
