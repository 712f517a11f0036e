-------------------------- MODULE EvmReaders_proofs --------------------------
(***************************************************************************)
(* Two programs read what the EVM did in a block and keep a record of it:  *)
(* the listener of client/evm-tracing (CallList) reads its events, the     *)
(* indexer of the requests (QuStreamIndexer) its logs.  Here each is       *)
(* proved to hold what happened.                                           *)
(*                                                                         *)
(* The listener holds, for every block and every order of the events that  *)
(* CallList allows, the traces of what was executed.  Its invariant, IInv, *)
(* says what it holds at every moment of a transaction (Good): the last    *)
(* map has an entry for each frame that has ended, the contexts are the    *)
(* running frames, and the index counts both; the maps before it hold the  *)
(* transactions before it (Past).  A step adds a frame (PushGood,          *)
(* LeafGood), ends the innermost one (PopGood) or opens the next map       *)
(* (FreshGood), and no step touches an earlier map (Extends).              *)
(*                                                                         *)
(* The tables of the indexer mirror the contract (Mirror), on every branch *)
(* of every tree of blocks.  Its invariant, IndexerInv, says of the chain  *)
(* that the logs of each block lead from tables that mirror the contract   *)
(* before it to tables that mirror the one after it (Leads), whatever      *)
(* tables these are; of the database and of a batch that each of their     *)
(* blocks has the mirror of its contract (Line), that the blocks to come   *)
(* follow each other (Todo), and that the tables of the batch are on the   *)
(* way through the logs of the first of them (AtBlock).                    *)
(***************************************************************************)
EXTENDS CallList, QuStreamIndexer, Sums_proofs, SequenceTheorems

-----------------------------------------------------------------------------
(* Paths: PathTo is a recursive function                                   *)

\* The callers of the first n frames come before them.
Rooted(frames, n) == \A g \in 1 .. n : frames[g].parent \in 0 .. g - 1

\* h has the paths of the first n frames.
Paths(h, frames, n) ==
    h = [g \in 1 .. n |->
            IF frames[g].parent = 0 THEN <<>>
            ELSE Append(h[frames[g].parent], Cardinality(SiblingsBefore(frames, g)))]

LEMMA PathUnfolds ==
    ASSUME NEW frames, NEW f
    PROVE  PathTo(frames, f) = (CHOOSE h : Paths(h, frames, f))[f]
BY Zenon DEF PathTo, Paths

LEMMA PathsExist ==
    ASSUME NEW frames, NEW n \in Nat, Rooted(frames, n)
    PROVE  \E h : Paths(h, frames, n)
<1> DEFINE S == {m \in 0 .. n : \E h : Paths(h, frames, m)}
<1>1. 0 \in S
  <2>1. Paths([g \in 1 .. 0 |-> <<>>], frames, 0)
    BY DEF Paths
  <2> QED BY <2>1
<1>2. ASSUME NEW i \in 1 .. n, i - 1 \in S PROVE i \in S
  <2>1. PICK h : Paths(h, frames, i - 1)
    BY <1>2
  <2> DEFINE q == frames[i].parent
             e == IF q = 0 THEN <<>> ELSE Append(h[q], Cardinality(SiblingsBefore(frames, i)))
             k == [g \in 1 .. i |-> IF g = i THEN e ELSE h[g]]
  <2>2. \A g \in 1 .. i : frames[g].parent \in 0 .. g - 1
    BY DEF Rooted
  <2>3. ASSUME NEW g \in 1 .. i
        PROVE  k[g] = IF frames[g].parent = 0 THEN <<>>
                      ELSE Append(k[frames[g].parent], Cardinality(SiblingsBefore(frames, g)))
    <3> DEFINE p == frames[g].parent
               c == Cardinality(SiblingsBefore(frames, g))
    <3>1. p \in 0 .. g - 1
      BY <2>2
    <3>2. p # 0 => k[p] = h[p]
      BY <3>1
    <3>3. CASE g = i
      <4>1. k[g] = e
        BY <3>3
      <4>2. p = q /\ c = Cardinality(SiblingsBefore(frames, i))
        BY <3>3
      <4> HIDE DEF k, p, c
      <4>3. e = IF p = 0 THEN <<>> ELSE Append(h[p], c)
        BY <4>2
      <4> HIDE DEF e, q
      <4> QED BY <3>2, <4>1, <4>3 DEF p, c
    <3>4. CASE g # i
      <4>1. g \in 1 .. i - 1 /\ k[g] = h[g]
        BY <3>4
      <4>2. h[g] = IF p = 0 THEN <<>> ELSE Append(h[p], c)
        BY <2>1, <4>1 DEF Paths
      <4> HIDE DEF k, p, c
      <4> QED BY <3>2, <4>1, <4>2 DEF p, c
    <3> QED BY <3>3, <3>4
  <2>4. k = [g \in 1 .. i |-> k[g]]
    OBVIOUS
  <2> HIDE DEF k
  <2>5. Paths(k, frames, i)
    BY <2>3, <2>4 DEF Paths
  <2> QED BY <2>5
<1>3. 0 .. n \subseteq S
  <2> HIDE DEF S
  <2> QED BY <1>1, <1>2, StepsKeep
<1> QED BY <1>3

\* Frames with the same callers have the same paths.
SameCallers(F, G, f) == \A g \in 1 .. f : G[g].parent = F[g].parent

LEMMA PathsAgree ==
    ASSUME NEW F, NEW G, NEW n \in Nat, NEW m \in Nat, NEW f \in Nat, f <= n, f <= m,
           Rooted(F, f), SameCallers(F, G, f), NEW h, Paths(h, F, n), NEW k, Paths(k, G, m)
    PROVE  \A g \in 1 .. f : h[g] = k[g]
<1> DEFINE S == {i \in 0 .. f : \A g \in 1 .. i : h[g] = k[g]}
<1>1. 0 \in S
  OBVIOUS
<1>2. ASSUME NEW i \in 1 .. f, i - 1 \in S PROVE i \in S
  <2> DEFINE p == F[i].parent
             c == Cardinality(SiblingsBefore(F, i))
  <2>1. G[i].parent = p /\ p \in 0 .. i - 1 /\ \A g \in 1 .. i : G[g].parent = F[g].parent
    BY DEF SameCallers, Rooted
  <2>2. SiblingsBefore(G, i) = SiblingsBefore(F, i)
    BY <2>1 DEF SiblingsBefore
  <2>3. h[i] = IF p = 0 THEN <<>> ELSE Append(h[p], c)
    <3>1. i \in 1 .. n
      OBVIOUS
    <3> QED BY <3>1 DEF Paths
  <2>4. k[i] = IF G[i].parent = 0 THEN <<>>
               ELSE Append(k[G[i].parent], Cardinality(SiblingsBefore(G, i)))
    <3>1. i \in 1 .. m
      OBVIOUS
    <3> QED BY <3>1 DEF Paths
  <2>5. p # 0 => h[p] = k[p]
    BY <1>2, <2>1
  <2>6. h[i] = k[i]
    <3> HIDE DEF p, c
    <3>1. k[i] = IF p = 0 THEN <<>> ELSE Append(k[p], c)
      BY <2>1, <2>2, <2>4 DEF c
    <3> QED BY <2>3, <2>5, <3>1
  <2>7. \A g \in 1 .. i : h[g] = k[g]
    BY <1>2, <2>6
  <2> QED BY <2>7
<1>3. 0 .. f \subseteq S
  <2> HIDE DEF S
  <2> QED BY <1>1, <1>2, StepsKeep
<1> QED BY <1>3

LEMMA PathIs ==
    ASSUME NEW F, NEW G, NEW f \in Nat \ {0}, NEW n \in Nat, f <= n, Rooted(F, f),
           SameCallers(F, G, f), NEW k, Paths(k, G, n)
    PROVE  PathTo(F, f) = k[f]
<1> DEFINE h == CHOOSE h : Paths(h, F, f)
<1>1. Paths(h, F, f)
  BY PathsExist
<1>2. PathTo(F, f) = h[f]
  BY PathUnfolds
<1> HIDE DEF h
<1>3. \A g \in 1 .. f : h[g] = k[g]
  BY <1>1, PathsAgree
<1> QED BY <1>2, <1>3

LEMMA PathSame ==
    ASSUME NEW F, NEW G, NEW f \in Nat \ {0}, Rooted(F, f), SameCallers(F, G, f)
    PROVE  PathTo(G, f) = PathTo(F, f)
<1>1. Rooted(G, f) /\ SameCallers(G, G, f)
  BY DEF Rooted, SameCallers
<1>2. PICK k : Paths(k, G, f)
  BY <1>1, PathsExist
<1> QED BY <1>1, <1>2, PathIs

\* The path of a frame is the path of its caller and its number among the children.
LEMMA PathChild ==
    ASSUME NEW F, NEW f \in Nat \ {0}, Rooted(F, f)
    PROVE  /\ F[f].parent = 0 => PathTo(F, f) = <<>>
           /\ F[f].parent # 0 =>
                  PathTo(F, f) = Append(PathTo(F, F[f].parent), Cardinality(SiblingsBefore(F, f)))
<1> DEFINE p == F[f].parent
           c == Cardinality(SiblingsBefore(F, f))
<1>1. PICK k : Paths(k, F, f)
  BY PathsExist
<1>2. SameCallers(F, F, f)
  BY DEF SameCallers
<1>3. PathTo(F, f) = k[f]
  BY <1>1, <1>2, PathIs
<1>4. k[f] = IF p = 0 THEN <<>> ELSE Append(k[p], c)
  <2>1. f \in 1 .. f
    OBVIOUS
  <2>2. k[f] = IF F[f].parent = 0 THEN <<>>
               ELSE Append(k[F[f].parent], Cardinality(SiblingsBefore(F, f)))
    BY <1>1, <2>1 DEF Paths
  <2> QED BY Zenon, <2>2 DEF p, c
<1>5. ASSUME p # 0 PROVE PathTo(F, p) = k[p]
  <2>1. p \in 1 .. f - 1
    BY <1>5 DEF Rooted
  <2> HIDE DEF p
  <2>2. p \in Nat \ {0} /\ p <= f /\ Rooted(F, p) /\ SameCallers(F, F, p)
    BY <2>1 DEF Rooted, SameCallers
  <2> QED BY <1>1, <2>2, PathIs
<1> QED BY <1>3, <1>4, <1>5

-----------------------------------------------------------------------------
(* What the listener holds of a transaction                                *)

Kinds == CallTypes \cup {"call", "create", "selfdestruct"}

Results == Reasons \cup {"open", "none"}

Frame == [type : Kinds, parent : Nat, res : Results, entered : BOOLEAN]

\* The entries of the frames F of transaction t.
EntriesOf(t, F) ==
    [f \in 1 .. Len(F) |->
        Entry(F[f].type, <<t, f>>, PathTo(F, f), Cardinality(Children(F, f)), F[f].res)]

\* The map of the entries of frames S, the first of which has index b.
MapOf(E, b, S) == [k \in {(b + f) - 1 : f \in S} |-> E[(k - b) + 1]]

\* The contexts of the running frames o.
ContextOf(t, F, b, f) ==
    [index |-> (b + f) - 1, type |-> F[f].type, to |-> <<t, f>>,
     trace |-> PathTo(F, f), subtraces |-> Cardinality(Children(F, f))]

ContextsOf(t, F, b, o) == [i \in 1 .. Len(o) |-> ContextOf(t, F, b, o[i])]

OpenSet(o) == {o[i] : i \in 1 .. Len(o)}

OpenIn(F, o) ==
    /\ \A i \in 1 .. Len(o) : o[i] \in 1 .. Len(F)
    /\ \A i, j \in 1 .. Len(o) : i < j => o[i] < o[j]

\* The last map, which the entries go to.
Current(e) == IF e = <<>> THEN <<>> ELSE e[Len(e)]

Into(map, key, entry) ==
    [k \in DOMAIN map \cup {key} |-> IF k = key THEN entry ELSE map[k]]

Inserted(e, key, entry) ==
    IF e = <<>> THEN <<Into(<<>>, key, entry)>>
    ELSE [e EXCEPT ![Len(e)] = Into(@, key, entry)]

\* The entries e are a sequence.
Listed(e) == \E S : e \in Seq(S)

Good(e, n, c, t, F, o) ==
    /\ n \in Nat /\ Len(F) <= n
    /\ Rooted(F, Len(F))
    /\ OpenIn(F, o)
    /\ c = ContextsOf(t, F, n - Len(F), o)
    /\ Current(e) = MapOf(EntriesOf(t, F), n - Len(F), (1 .. Len(F)) \ OpenSet(o))
    /\ Listed(e)

-----------------------------------------------------------------------------
(* Maps                                                                    *)

\* The entries D and E agree on the frames S.
Agree(D, E, S) == \A f \in S : D[f] = E[f]

\* The entry of frame p goes into the map of the frames S.
GrowsTo(E, D, b, S, p) == Into(MapOf(E, b, S), (b + p) - 1, D[p]) = MapOf(D, b, S \cup {p})

SameMap(D, E, b, S) == MapOf(D, b, S) = MapOf(E, b, S)

LEMMA MapSame ==
    ASSUME NEW E, NEW D, NEW b \in Nat, NEW S, S \subseteq Nat \ {0}, Agree(D, E, S)
    PROVE  SameMap(D, E, b, S)
<1>1. ASSUME NEW k \in {(b + f) - 1 : f \in S} PROVE D[(k - b) + 1] = E[(k - b) + 1]
  <2>1. PICK f \in S : k = (b + f) - 1
    OBVIOUS
  <2>2. f \in Nat /\ (k - b) + 1 = f
    BY <2>1
  <2> QED BY <2>2 DEF Agree
<1> QED BY <1>1 DEF MapOf, SameMap

LEMMA MapGrows ==
    ASSUME NEW E, NEW D, NEW b \in Nat, NEW S, S \subseteq Nat \ {0}, NEW p \in Nat \ {0}, p \notin S,
           Agree(D, E, S)
    PROVE  GrowsTo(E, D, b, S, p)
<1> DEFINE q == (b + p) - 1
           K == {(b + f) - 1 : f \in S}
           M == MapOf(E, b, S)
<1>1. DOMAIN M = K
  BY DEF MapOf
<1>2. {(b + f) - 1 : f \in S \cup {p}} = K \cup {q}
  OBVIOUS
<1>3. ASSUME NEW k \in K PROVE k # q /\ M[k] = D[(k - b) + 1]
  <2>1. PICK f \in S : k = (b + f) - 1
    OBVIOUS
  <2>2. f \in Nat /\ (k - b) + 1 = f /\ f # p
    BY <2>1
  <2>3. M[k] = E[(k - b) + 1]
    BY DEF MapOf
  <2>4. k # q
    BY <2>1, <2>2
  <2> QED BY <2>2, <2>3, <2>4 DEF Agree
<1>4. (q - b) + 1 = p
  OBVIOUS
<1> HIDE DEF K, M, q
<1>5. Into(M, q, D[p]) = [k \in K \cup {q} |-> IF k = q THEN D[p] ELSE M[k]]
  BY Zenon, <1>1 DEF Into
<1>6. MapOf(D, b, S \cup {p}) = [k \in K \cup {q} |-> D[(k - b) + 1]]
  BY Zenon, <1>2 DEF MapOf
<1>7. \A k \in K \cup {q} : (IF k = q THEN D[p] ELSE M[k]) = D[(k - b) + 1]
  BY <1>3, <1>4
<1>8. [k \in K \cup {q} |-> IF k = q THEN D[p] ELSE M[k]] = [k \in K \cup {q} |-> D[(k - b) + 1]]
  BY Zenon, <1>7
<1> QED BY Zenon, <1>5, <1>6, <1>8 DEF M, q, GrowsTo

LEMMA MapEmpty ==
    ASSUME NEW E, NEW b
    PROVE  MapOf(E, b, {}) = <<>>
BY DEF MapOf

LEMMA InsertedIs ==
    ASSUME NEW e, Listed(e), NEW key, NEW entry
    PROVE  LET d == Inserted(e, key, entry) IN
           /\ Listed(d) /\ d # <<>>
           /\ Len(d) = IF e = <<>> THEN 1 ELSE Len(e)
           /\ Current(d) = Into(Current(e), key, entry)
           /\ \A i \in 1 .. Len(d) - 1 : i \in 1 .. Len(e) - 1 /\ d[i] = e[i]
<1> DEFINE m == Into(Current(e), key, entry)
           d == Inserted(e, key, entry)
<1>1. CASE e = <<>>
  <2>1. m = Into(<<>>, key, entry) /\ d = <<Into(<<>>, key, entry)>>
    BY <1>1 DEF Inserted, Current
  <2>2. d = <<m>>
    BY <2>1
  <2> HIDE DEF d, m
  <2>3. d \in Seq({m}) /\ Len(d) = 1 /\ d # <<>> /\ d[Len(d)] = m
    BY <2>2
  <2>4. Listed(d) /\ Current(d) = m
    BY <2>3 DEF Listed, Current
  <2>5. \A i \in 1 .. Len(d) - 1 : i \in 1 .. Len(e) - 1 /\ d[i] = e[i]
    BY <2>3
  <2> QED BY Zenon, <1>1, <2>3, <2>4, <2>5 DEF d, m
<1>2. CASE e # <<>>
  <2>1. PICK S : e \in Seq(S)
    BY DEF Listed
  <2>2. Len(e) \in Nat \ {0} /\ e \in [1 .. Len(e) -> S]
    BY <1>2, <2>1
  <2>3. d = [e EXCEPT ![Len(e)] = m]
    BY <1>2 DEF Inserted, Current
  <2> HIDE DEF d, m
  <2>4. d \in [1 .. Len(e) -> S \cup {m}]
    BY <2>2, <2>3
  <2>5. d \in Seq(S \cup {m}) /\ Len(d) = Len(e)
    BY <2>2, <2>4
  <2>6. d[Len(d)] = m /\ \A i \in 1 .. Len(d) - 1 : i \in 1 .. Len(e) - 1 /\ d[i] = e[i]
    BY <2>2, <2>3, <2>5
  <2>7. d # <<>>
    BY <2>2, <2>5
  <2> QED BY <1>2, <2>5, <2>6, <2>7 DEF Listed, Current, d, m
<1> QED BY <1>1, <1>2

-----------------------------------------------------------------------------
(* One more frame                                                          *)

LEMMA ChildrenFinite ==
    ASSUME NEW F \in Seq(Frame), NEW f
    PROVE  IsFiniteSet(Children(F, f)) /\ Cardinality(Children(F, f)) \in Nat
<1>1. Children(F, f) \subseteq 1 .. Len(F)
  BY DEF Children
<1>2. IsFiniteSet(1 .. Len(F))
  BY FS_Interval
<1> QED BY <1>1, <1>2, FS_Subset, FS_CardinalityType

\* What a frame shows does not depend on frames it did not make.
LEMMA EntryKept ==
    ASSUME NEW t, NEW F \in Seq(Frame), NEW G \in Seq(Frame), NEW f \in 1 .. Len(F), f \in 1 .. Len(G),
           Rooted(F, Len(F)), SameCallers(F, G, f), G[f].type = F[f].type,
           Children(G, f) = Children(F, f), G[f].res = F[f].res
    PROVE  EntriesOf(t, G)[f] = EntriesOf(t, F)[f]
<1>1. Rooted(F, f) /\ f \in Nat \ {0}
  BY DEF Rooted
<1>2. PathTo(G, f) = PathTo(F, f)
  BY <1>1, PathSame
<1> QED BY <1>2 DEF EntriesOf

LEMMA ContextKept ==
    ASSUME NEW t, NEW b, NEW F \in Seq(Frame), NEW G \in Seq(Frame), NEW f \in 1 .. Len(F),
           Rooted(F, Len(F)), SameCallers(F, G, f), G[f].type = F[f].type,
           Children(G, f) = Children(F, f)
    PROVE  ContextOf(t, G, b, f) = ContextOf(t, F, b, f)
<1>1. Rooted(F, f) /\ f \in Nat \ {0}
  BY DEF Rooted
<1>2. PathTo(G, f) = PathTo(F, f)
  BY <1>1, PathSame
<1> QED BY Zenon, <1>2 DEF ContextOf

Grown(F, G, fr) ==
    /\ G \in Seq(Frame) /\ Len(G) = Len(F) + 1 /\ Rooted(G, Len(G))
    /\ G[Len(F) + 1] = fr
    /\ \A f \in 1 .. Len(F) : G[f] = F[f]

LEMMA FramesGrow ==
    ASSUME NEW F \in Seq(Frame), NEW fr \in Frame, Rooted(F, Len(F)), fr.parent \in 0 .. Len(F)
    PROVE  Grown(F, Append(F, fr), fr)
<1> DEFINE G == Append(F, fr)
<1>1. G \in Seq(Frame) /\ Len(G) = Len(F) + 1 /\ G[Len(F) + 1] = fr
  OBVIOUS
<1>2. \A f \in 1 .. Len(F) : G[f] = F[f]
  OBVIOUS
<1> HIDE DEF G
<1>3. ASSUME NEW g \in 1 .. Len(G) PROVE G[g].parent \in 0 .. g - 1
  <2>1. CASE g \in 1 .. Len(F)
    BY <1>2, <2>1 DEF Rooted
  <2>2. CASE g = Len(F) + 1
    BY <1>1, <2>2
  <2> QED BY <1>1, <2>1, <2>2
<1> QED BY <1>1, <1>2, <1>3 DEF Grown, Rooted, G

LEMMA GrownChildren ==
    ASSUME NEW F \in Seq(Frame), NEW G, NEW fr \in Frame, Grown(F, G, fr), Rooted(F, Len(F)),
           fr.parent \in 0 .. Len(F)
    PROVE  /\ \A f \in 1 .. Len(F) : SameCallers(F, G, f) /\ G[f].type = F[f].type /\ G[f].res = F[f].res
           /\ \A f \in 1 .. Len(F) : f # fr.parent => Children(G, f) = Children(F, f)
           /\ fr.parent # 0 =>
                  /\ Children(G, fr.parent) = Children(F, fr.parent) \cup {Len(F) + 1}
                  /\ SiblingsBefore(G, Len(F) + 1) = Children(F, fr.parent)
                  /\ Cardinality(Children(G, fr.parent)) = Cardinality(Children(F, fr.parent)) + 1
           /\ Cardinality(Children(G, Len(F) + 1)) = 0
<1> DEFINE N == Len(F) + 1
           p == fr.parent
<1>1. DOMAIN G = 1 .. N /\ DOMAIN F = 1 .. Len(F) /\ N \notin 1 .. Len(F) /\ 1 .. N = (1 .. Len(F)) \cup {N}
  BY DEF Grown
<1>2. \A f \in 1 .. Len(F) : SameCallers(F, G, f) /\ G[f].type = F[f].type /\ G[f].res = F[f].res
  BY DEF Grown, SameCallers
<1>3. G[N].parent = p /\ \A f \in 1 .. Len(F) : G[f].parent = F[f].parent
  BY DEF Grown
<1>4. ASSUME NEW f \in 1 .. Len(F), f # p PROVE Children(G, f) = Children(F, f)
  BY <1>1, <1>3, <1>4 DEF Children
<1>5. Children(G, p) = Children(F, p) \cup {N}
  BY <1>1, <1>3 DEF Children
<1>6. SiblingsBefore(G, N) = Children(F, p)
  <2>1. N - 1 = Len(F)
    OBVIOUS
  <2> QED BY <1>1, <1>3, <2>1 DEF Children, SiblingsBefore
<1>7. Cardinality(Children(G, p)) = Cardinality(Children(F, p)) + 1
  <2>1. N \notin Children(F, p)
    BY <1>1 DEF Children
  <2> HIDE DEF N, p
  <2> QED BY <1>5, <2>1, ChildrenFinite, FS_AddElement
<1>8. Cardinality(Children(G, N)) = 0
  <2>1. ASSUME NEW g \in 1 .. N PROVE G[g].parent # N
    <3>1. G[g].parent \in 0 .. g - 1
      BY DEF Grown, Rooted
    <3> QED BY <3>1
  <2>2. Children(G, N) = {}
    BY <1>1, <2>1 DEF Children
  <2> QED BY <2>2, FS_EmptySet
<1> HIDE DEF N, p
<1> QED BY <1>2, <1>4, <1>5, <1>6, <1>7, <1>8 DEF N, p

-----------------------------------------------------------------------------
(* Contexts                                                                *)

Bump(c) == IF c = <<>> THEN c ELSE [c EXCEPT ![Len(c)].subtraces = @ + 1]

ChildPath(c) == IF c = <<>> THEN <<>> ELSE Append(Last(c).trace, Last(c).subtraces)

Caller(o) == IF o = <<>> THEN 0 ELSE Last(o)

LEMMA CallerIs ==
    ASSUME NEW F \in Seq(Frame), NEW o \in Seq(Nat), OpenIn(F, o)
    PROVE  /\ Caller(o) \in 0 .. Len(F)
           /\ o = <<>> <=> Caller(o) = 0
           /\ o # <<>> => Caller(o) = o[Len(o)] /\ Len(o) \in Nat \ {0} /\ Caller(o) \in 1 .. Len(F)
           /\ \A i \in 1 .. Len(o) : i # Len(o) => o[i] # Caller(o)
<1>1. CASE o = <<>>
  BY <1>1 DEF Caller
<1>2. CASE o # <<>>
  <2>1. Len(o) \in 1 .. Len(o) /\ Len(o) \in Nat \ {0}
    BY <1>2
  <2>2. Caller(o) = o[Len(o)]
    BY <1>2 DEF Caller, Last
  <2>3. o[Len(o)] \in 1 .. Len(F)
    BY <2>1 DEF OpenIn
  <2>4. \A i \in 1 .. Len(o) : i # Len(o) => o[i] < o[Len(o)] /\ o[i] \in Nat
    BY <2>1 DEF OpenIn
  <2> QED BY <1>2, <2>1, <2>2, <2>3, <2>4
<1> QED BY <1>1, <1>2

\* A new frame fr counts in its caller, and has the next place under it.
ContextsMove(t, b, F, G, fr) ==
    /\ \A f \in 1 .. Len(F) : f # fr.parent => ContextOf(t, G, b, f) = ContextOf(t, F, b, f)
    /\ fr.parent # 0 =>
         ContextOf(t, G, b, fr.parent) = [ContextOf(t, F, b, fr.parent) EXCEPT !.subtraces = @ + 1]
    /\ ContextOf(t, G, b, Len(F) + 1) =
         [index |-> b + Len(F), type |-> fr.type, to |-> <<t, Len(F) + 1>>,
          trace |-> IF fr.parent = 0 THEN <<>>
                    ELSE Append(PathTo(F, fr.parent), Cardinality(Children(F, fr.parent))),
          subtraces |-> 0]

LEMMA ContextGrown ==
    ASSUME NEW t, NEW b \in Nat, NEW F \in Seq(Frame), NEW G, NEW fr \in Frame, Grown(F, G, fr),
           Rooted(F, Len(F)), fr.parent \in 0 .. Len(F)
    PROVE  ContextsMove(t, b, F, G, fr)
<1> DEFINE N == Len(F) + 1
           p == fr.parent
<1>1. G \in Seq(Frame) /\ Rooted(G, N) /\ N \in Nat \ {0} /\ G[N] = fr
  BY DEF Grown
<1>2. /\ \A f \in 1 .. Len(F) : SameCallers(F, G, f) /\ G[f].type = F[f].type
      /\ \A f \in 1 .. Len(F) : f # p => Children(G, f) = Children(F, f)
      /\ p # 0 => /\ SiblingsBefore(G, N) = Children(F, p)
                  /\ Cardinality(Children(G, p)) = Cardinality(Children(F, p)) + 1
      /\ Cardinality(Children(G, N)) = 0
  BY GrownChildren
<1>3. \A f \in 1 .. Len(F) : f # p => ContextOf(t, G, b, f) = ContextOf(t, F, b, f)
  BY <1>1, <1>2, ContextKept
<1>4. \A f \in 1 .. Len(F) : PathTo(G, f) = PathTo(F, f)
  <2>1. \A f \in 1 .. Len(F) : Rooted(F, f) /\ f \in Nat \ {0}
    BY DEF Rooted
  <2> QED BY <1>2, <2>1, PathSame
<1>5. PathTo(G, N) = IF p = 0 THEN <<>> ELSE Append(PathTo(F, p), Cardinality(Children(F, p)))
  <2>1. /\ G[N].parent = 0 => PathTo(G, N) = <<>>
        /\ G[N].parent # 0 =>
              PathTo(G, N) = Append(PathTo(G, G[N].parent), Cardinality(SiblingsBefore(G, N)))
    BY <1>1, PathChild
  <2>2. p # 0 => PathTo(G, p) = PathTo(F, p)
    BY <1>4
  <2> HIDE DEF N
  <2> QED BY <1>1, <1>2, <2>1, <2>2
<1>6. ASSUME p # 0
      PROVE  ContextOf(t, G, b, p) = [ContextOf(t, F, b, p) EXCEPT !.subtraces = @ + 1]
  <2>1. p \in 1 .. Len(F)
    BY <1>6
  <2>2. PathTo(G, p) = PathTo(F, p) /\ G[p].type = F[p].type
        /\ Cardinality(Children(G, p)) = Cardinality(Children(F, p)) + 1
    BY <1>2, <1>4, <1>6, <2>1
  <2> DEFINE x == Cardinality(Children(F, p))
             y == Cardinality(Children(G, p))
             u == PathTo(F, p)
  <2>3. /\ ContextOf(t, G, b, p) = [index |-> (b + p) - 1, type |-> F[p].type, to |-> <<t, p>>,
                                    trace |-> u, subtraces |-> y]
        /\ ContextOf(t, F, b, p) = [index |-> (b + p) - 1, type |-> F[p].type, to |-> <<t, p>>,
                                    trace |-> u, subtraces |-> x]
    BY Zenon, <2>2 DEF ContextOf
  <2>4. y = x + 1
    BY <2>2
  <2> HIDE DEF p, x, y, u
  <2> QED BY ONLY <2>3, <2>4
<1>7. (b + N) - 1 = b + Len(F)
  OBVIOUS
<1>8. ContextOf(t, G, b, N) =
        [index |-> b + Len(F), type |-> fr.type, to |-> <<t, N>>,
         trace |-> IF p = 0 THEN <<>> ELSE Append(PathTo(F, p), Cardinality(Children(F, p))),
         subtraces |-> 0]
  <2> HIDE DEF N, p
  <2> QED BY Zenon, <1>1, <1>2, <1>5, <1>7 DEF ContextOf
<1> QED BY <1>3, <1>6, <1>8 DEF ContextsMove

\* A new frame fr in the innermost of the frames o, as the contexts c show it.
ContextsMoved(t, b, F, G, fr, o, c) ==
    /\ c \in Seq({ContextOf(t, F, b, f) : f \in 1 .. Len(F)}) /\ Len(c) = Len(o)
    /\ Bump(c) = ContextsOf(t, G, b, o)
    /\ ContextOf(t, G, b, Len(F) + 1) =
         [index |-> b + Len(F), type |-> fr.type, to |-> <<t, Len(F) + 1>>,
          trace |-> ChildPath(c), subtraces |-> 0]

LEMMA ContextsGrown ==
    ASSUME NEW t, NEW b \in Nat, NEW F \in Seq(Frame), NEW G, NEW fr \in Frame, Grown(F, G, fr),
           Rooted(F, Len(F)), NEW o \in Seq(Nat), OpenIn(F, o), fr.parent = Caller(o),
           NEW c, c = ContextsOf(t, F, b, o)
    PROVE  ContextsMoved(t, b, F, G, fr, o, c)
<1> DEFINE p == Caller(o)
           C == {ContextOf(t, F, b, f) : f \in 1 .. Len(F)}
<1>1. /\ p \in 0 .. Len(F)
      /\ o = <<>> <=> p = 0
      /\ o # <<>> => p = o[Len(o)] /\ Len(o) \in Nat \ {0} /\ p \in 1 .. Len(F)
      /\ \A i \in 1 .. Len(o) : i # Len(o) => o[i] # p
  BY CallerIs
<1>2. \A i \in 1 .. Len(o) : o[i] \in 1 .. Len(F)
  BY DEF OpenIn
<1>3. c \in [1 .. Len(o) -> C] /\ \A i \in 1 .. Len(o) : c[i] = ContextOf(t, F, b, o[i])
  BY <1>2 DEF ContextsOf
<1>4. c \in Seq(C) /\ Len(c) = Len(o) /\ (c = <<>> <=> o = <<>>)
  <2> HIDE DEF C
  <2>1. Len(o) \in Nat /\ (o = <<>> <=> Len(o) = 0)
    OBVIOUS
  <2>2. c \in Seq(C) /\ Len(c) = Len(o)
    <3> DEFINE k == Len(o)
    <3>1. k \in Nat /\ c \in [1 .. k -> C]
      BY Zenon, <1>3, <2>1
    <3> HIDE DEF k
    <3>2. c \in Seq(C) /\ Len(c) = k
      BY ONLY <3>1
    <3> QED BY Zenon, <3>2 DEF k
  <2>3. c = <<>> <=> Len(c) = 0
    BY ONLY <2>2
  <2> QED BY Zenon, <2>1, <2>2, <2>3
<1>5. /\ \A f \in 1 .. Len(F) : f # p => ContextOf(t, G, b, f) = ContextOf(t, F, b, f)
      /\ p # 0 => ContextOf(t, G, b, p) = [ContextOf(t, F, b, p) EXCEPT !.subtraces = @ + 1]
      /\ ContextOf(t, G, b, Len(F) + 1) =
                [index |-> b + Len(F), type |-> fr.type, to |-> <<t, Len(F) + 1>>,
                 trace |-> IF p = 0 THEN <<>> ELSE Append(PathTo(F, p), Cardinality(Children(F, p))),
                 subtraces |-> 0]
  <2>1. fr.parent \in 0 .. Len(F) /\ fr.parent = p
    BY <1>1
  <2>2. ContextsMove(t, b, F, G, fr)
    BY <2>1, ContextGrown
  <2> HIDE DEF p, C
  <2> QED BY ONLY <2>1, <2>2 DEF ContextsMove
<1>6. ASSUME o # <<>> PROVE Last(c) = ContextOf(t, F, b, p)
  <2>1. Len(o) \in 1 .. Len(o) /\ p = o[Len(o)]
    BY <1>1, <1>6
  <2>2. c[Len(o)] = ContextOf(t, F, b, o[Len(o)])
    BY <1>3, <2>1
  <2> HIDE DEF p, C
  <2> QED BY Zenon, <1>4, <2>1, <2>2 DEF Last
<1>7. ContextOf(t, F, b, p).trace = PathTo(F, p) /\ ContextOf(t, F, b, p).subtraces = Cardinality(Children(F, p))
  BY DEF ContextOf
<1>8. ChildPath(c) = IF p = 0 THEN <<>> ELSE Append(PathTo(F, p), Cardinality(Children(F, p)))
  <2> HIDE DEF p, C
  <2> QED BY <1>1, <1>4, <1>6, <1>7 DEF ChildPath
<1>9. Bump(c) = ContextsOf(t, G, b, o)
  <2>1. CASE o = <<>>
    BY <1>4, <2>1 DEF Bump, ContextsOf
  <2>2. CASE o # <<>>
    <3>1. Bump(c) = [c EXCEPT ![Len(o)] = [ContextOf(t, F, b, p) EXCEPT !.subtraces = @ + 1]]
      <4> HIDE DEF p, C
      <4>1. c[Len(c)] = ContextOf(t, F, b, p)
        BY <1>6, <2>2 DEF Last
      <4> QED BY Zenon, <1>4, <2>2, <4>1 DEF Bump
    <3>2. Bump(c) = [c EXCEPT ![Len(o)] = ContextOf(t, G, b, p)]
      <4> HIDE DEF p
      <4> QED BY Zenon, <1>1, <1>5, <2>2, <3>1
    <3>3. \A i \in 1 .. Len(o) : Bump(c)[i] = ContextOf(t, G, b, o[i])
      <4> HIDE DEF p, C
      <4> QED BY <1>1, <1>2, <1>3, <1>5, <2>2, <3>2
    <3>4. Bump(c) = [i \in 1 .. Len(o) |-> Bump(c)[i]]
      <4> HIDE DEF p, C
      <4>1. DOMAIN c = 1 .. Len(o)
        BY <1>3
      <4> QED BY <3>2, <4>1
    <3> HIDE DEF p, C
    <3> QED BY Zenon, <3>3, <3>4 DEF ContextsOf
  <2> QED BY <2>1, <2>2
<1>10. ContextOf(t, G, b, Len(F) + 1) =
         [index |-> b + Len(F), type |-> fr.type, to |-> <<t, Len(F) + 1>>,
          trace |-> ChildPath(c), subtraces |-> 0]
  <2> HIDE DEF p, C
  <2> QED BY Zenon, <1>5, <1>8
<1> HIDE DEF p
<1> QED BY Zenon, <1>4, <1>9, <1>10 DEF ContextsMoved

-----------------------------------------------------------------------------
(* The steps of the EVM on what the listener holds                         *)

LEMMA ContextsAppend ==
    ASSUME NEW t, NEW b \in Nat, NEW G, NEW o \in Seq(Nat), NEW N \in Nat
    PROVE  ContextsOf(t, G, b, Append(o, N)) = Append(ContextsOf(t, G, b, o), ContextOf(t, G, b, N))
<1> DEFINE C == {ContextOf(t, G, b, f) : f \in Nat}
           x == ContextOf(t, G, b, N)
           q == Append(o, N)
           s == ContextsOf(t, G, b, o)
<1>1. q \in Seq(Nat) /\ Len(q) = Len(o) + 1 /\ q[Len(o) + 1] = N /\ \A i \in 1 .. Len(o) : q[i] = o[i]
  OBVIOUS
<1>2. s \in [1 .. Len(o) -> C] /\ \A i \in 1 .. Len(o) : s[i] = ContextOf(t, G, b, o[i])
  BY DEF ContextsOf
<1>3. x \in C
  OBVIOUS
<1> HIDE DEF C, x, q, s
<1>4. s \in Seq(C) /\ Len(s) = Len(o)
  BY <1>2
<1>5. Append(s, x) = [i \in 1 .. Len(o) + 1 |-> IF i = Len(o) + 1 THEN x ELSE s[i]]
  <2> DEFINE a == Append(s, x)
  <2>1. DOMAIN a = 1 .. Len(o) + 1 /\ a[Len(o) + 1] = x /\ \A i \in 1 .. Len(o) : a[i] = s[i]
    BY <1>3, <1>4
  <2>2. a \in Seq(C) /\ Len(a) = Len(o) + 1
    BY <1>3, <1>4
  <2> HIDE DEF a
  <2>3. \A i \in 1 .. Len(o) + 1 : a[i] = IF i = Len(o) + 1 THEN x ELSE s[i]
    BY <2>1
  <2>4. a = [i \in 1 .. Len(o) + 1 |-> a[i]]
    <3>1. a \in [1 .. Len(o) + 1 -> C]
      BY <2>2
    <3> QED BY <3>1
  <2>5. a = [i \in 1 .. Len(o) + 1 |-> IF i = Len(o) + 1 THEN x ELSE s[i]]
    BY Zenon, <2>3, <2>4
  <2> QED BY <2>5 DEF a
<1>6. \A i \in 1 .. Len(o) + 1 : ContextOf(t, G, b, q[i]) = IF i = Len(o) + 1 THEN x ELSE s[i]
  <2>1. \A i \in 1 .. Len(o) + 1 : i # Len(o) + 1 => i \in 1 .. Len(o)
    OBVIOUS
  <2> QED BY Zenon, <1>1, <1>2, <2>1 DEF x
<1>7. ContextsOf(t, G, b, q) = [i \in 1 .. Len(o) + 1 |-> ContextOf(t, G, b, q[i])]
  BY Zenon, <1>1 DEF ContextsOf
<1>8. ContextsOf(t, G, b, q) = Append(s, x)
  BY Zenon, <1>5, <1>6, <1>7
<1> QED BY <1>8 DEF s, x, q

LEMMA ClosedKept ==
    ASSUME NEW t, NEW F \in Seq(Frame), NEW G, NEW fr \in Frame, Grown(F, G, fr),
           Rooted(F, Len(F)), NEW o \in Seq(Nat), OpenIn(F, o), fr.parent = Caller(o)
    PROVE  Agree(EntriesOf(t, G), EntriesOf(t, F), (1 .. Len(F)) \ OpenSet(o))
<1>1. ASSUME NEW f \in (1 .. Len(F)) \ OpenSet(o) PROVE EntriesOf(t, G)[f] = EntriesOf(t, F)[f]
  <2>1. Caller(o) \in 0 .. Len(F) /\ f # Caller(o)
    <3>1. /\ Caller(o) \in 0 .. Len(F)
          /\ o = <<>> <=> Caller(o) = 0
          /\ o # <<>> => Caller(o) = o[Len(o)] /\ Len(o) \in Nat \ {0} /\ Caller(o) \in 1 .. Len(F)
      BY CallerIs
    <3>2. o # <<>> => Caller(o) \in OpenSet(o)
      BY <3>1 DEF OpenSet
    <3> QED BY <3>1, <3>2
  <2>2. SameCallers(F, G, f) /\ G[f].type = F[f].type /\ G[f].res = F[f].res
        /\ Children(G, f) = Children(F, f)
    BY <2>1, GrownChildren
  <2>3. G \in Seq(Frame) /\ f \in 1 .. Len(F) /\ f \in 1 .. Len(G)
    BY DEF Grown
  <2> QED BY <2>2, <2>3, EntryKept
<1> QED BY <1>1 DEF Agree

LEMMA PushGood ==
    ASSUME NEW e, NEW n, NEW c, NEW t, NEW F \in Seq(Frame), NEW o \in Seq(Nat),
           Good(e, n, c, t, F, o), NEW fr \in Frame, fr.parent = Caller(o)
    PROVE  Good(e, n + 1,
                Append(Bump(c), [index |-> n, type |-> fr.type, to |-> <<t, Len(F) + 1>>,
                                 trace |-> ChildPath(c), subtraces |-> 0]),
                t, Append(F, fr), Append(o, Len(F) + 1))
<1> DEFINE b == n - Len(F)
           N == Len(F) + 1
           G == Append(F, fr)
           q == Append(o, N)
           x == [index |-> n, type |-> fr.type, to |-> <<t, Len(F) + 1>>,
                 trace |-> ChildPath(c), subtraces |-> 0]
           S == (1 .. Len(F)) \ OpenSet(o)
<1>1. /\ n \in Nat /\ Len(F) <= n /\ Rooted(F, Len(F)) /\ OpenIn(F, o)
      /\ c = ContextsOf(t, F, b, o) /\ Current(e) = MapOf(EntriesOf(t, F), b, S) /\ Listed(e)
  BY DEF Good
<1>2. b \in Nat /\ n = b + Len(F) /\ N \in Nat /\ (n + 1) - N = b /\ N <= n + 1
  BY <1>1
<1>3. fr.parent \in 0 .. Len(F)
  BY <1>1, CallerIs
<1>4. Grown(F, G, fr)
  BY <1>1, <1>3, FramesGrow
<1>5. Len(G) = N /\ Rooted(G, Len(G))
  BY <1>4 DEF Grown
<1>6. q \in Seq(Nat) /\ Len(q) = Len(o) + 1 /\ q[Len(o) + 1] = N /\ \A i \in 1 .. Len(o) : q[i] = o[i]
  OBVIOUS
<1>7. OpenIn(G, q)
  <2> HIDE DEF N, G, q
  <2>1. \A i \in 1 .. Len(o) : q[i] \in 1 .. Len(F)
    BY <1>1, <1>6 DEF OpenIn
  <2>2. \A i \in 1 .. Len(o) : q[i] < N /\ q[i] \in 1 .. N
    BY <2>1 DEF N
  <2>3. \A i, j \in 1 .. Len(o) : i < j => q[i] < q[j]
    BY <1>1, <1>6 DEF OpenIn
  <2>4. N \in 1 .. N
    BY DEF N
  <2>5. ASSUME NEW i \in 1 .. Len(q), NEW j \in 1 .. Len(q), i < j PROVE q[i] < q[j]
    <3>1. i \in 1 .. Len(o) /\ (j \in 1 .. Len(o) \/ j = Len(o) + 1)
      BY <1>6, <2>5
    <3> QED BY <1>6, <2>2, <2>3, <2>5, <3>1
  <2>6. \A i \in 1 .. Len(q) : q[i] \in 1 .. Len(G)
    <3>1. \A i \in 1 .. Len(q) : i \in 1 .. Len(o) \/ i = Len(o) + 1
      BY <1>6
    <3> QED BY <1>5, <1>6, <2>2, <2>4, <3>1
  <2> QED BY <2>5, <2>6 DEF OpenIn
<1> HIDE DEF b
<1>8. Bump(c) = ContextsOf(t, G, b, o) /\ x = ContextOf(t, G, b, N)
  <2> HIDE DEF G
  <2>1. ContextsMoved(t, b, F, G, fr, o, c)
    BY <1>1, <1>2, <1>4, ContextsGrown
  <2> QED BY Zenon, <1>2, <2>1 DEF ContextsMoved
<1>9. Append(Bump(c), x) = ContextsOf(t, G, b, q)
  <2> HIDE DEF G, N, x
  <2>1. ContextsOf(t, G, b, Append(o, N)) = Append(ContextsOf(t, G, b, o), ContextOf(t, G, b, N))
    BY <1>2, ContextsAppend
  <2> QED BY Zenon, <1>8, <2>1
<1>10. (1 .. N) \ OpenSet(q) = S
  <2>1. OpenSet(q) = OpenSet(o) \cup {N}
    <3>1. 1 .. Len(q) = (1 .. Len(o)) \cup {Len(o) + 1}
      BY <1>6
    <3> HIDE DEF N, q
    <3>2. OpenSet(q) = {q[i] : i \in (1 .. Len(o)) \cup {Len(o) + 1}}
      BY Zenon, <3>1 DEF OpenSet
    <3>3. \A i \in 1 .. Len(o) : q[i] = o[i]
      BY <1>6
    <3>4. q[Len(o) + 1] = N
      BY <1>6
    <3> DEFINE A == 1 .. Len(o)
               m == Len(o) + 1
    <3>5. OpenSet(o) = {o[i] : i \in A}
      BY DEF OpenSet
    <3> HIDE DEF A, m, OpenSet
    <3> QED BY ONLY <3>2, <3>3, <3>4, <3>5 DEF A, m
  <2>2. (1 .. N) \ {N} = 1 .. Len(F)
    OBVIOUS
  <2> HIDE DEF N, q
  <2> QED BY Zenon, <2>1, <2>2
<1>11. Agree(EntriesOf(t, G), EntriesOf(t, F), S)
  BY <1>1, <1>4, ClosedKept
<1>12. Current(e) = MapOf(EntriesOf(t, G), b, S)
  <2>1. S \subseteq Nat \ {0}
    OBVIOUS
  <2> HIDE DEF S, G
  <2>2. SameMap(EntriesOf(t, G), EntriesOf(t, F), b, S)
    BY <1>2, <1>11, <2>1, MapSame
  <2> QED BY Zenon, <1>1, <2>2 DEF SameMap
<1>13. n + 1 \in Nat
  BY <1>1
<1> HIDE DEF N, G, q, x, S
<1>14. Good(e, n + 1, Append(Bump(c), x), t, G, q)
  BY Zenon, <1>1, <1>2, <1>5, <1>7, <1>9, <1>10, <1>12, <1>13 DEF Good
<1> QED BY <1>14 DEF G, q, x, N

LEMMA LeafGood ==
    ASSUME NEW e, NEW n, NEW c, NEW t, NEW F \in Seq(Frame), NEW o \in Seq(Nat),
           Good(e, n, c, t, F, o), NEW fr \in Frame, fr.parent = Caller(o)
    PROVE  Good(Inserted(e, n, Entry(fr.type, <<t, Len(F) + 1>>, ChildPath(c), 0, fr.res)),
                n + 1, Bump(c), t, Append(F, fr), o)
<1> DEFINE b == n - Len(F)
           N == Len(F) + 1
           G == Append(F, fr)
           x == Entry(fr.type, <<t, Len(F) + 1>>, ChildPath(c), 0, fr.res)
           d == Inserted(e, n, x)
           S == (1 .. Len(F)) \ OpenSet(o)
<1>1. /\ n \in Nat /\ Len(F) <= n /\ Rooted(F, Len(F)) /\ OpenIn(F, o)
      /\ c = ContextsOf(t, F, b, o) /\ Current(e) = MapOf(EntriesOf(t, F), b, S) /\ Listed(e)
  BY DEF Good
<1>2. b \in Nat /\ n = b + Len(F) /\ N \in Nat \ {0} /\ (n + 1) - N = b /\ N <= n + 1 /\ (b + N) - 1 = n
  BY <1>1
<1>3. fr.parent \in 0 .. Len(F)
  BY <1>1, CallerIs
<1>4. Grown(F, G, fr)
  BY <1>1, <1>3, FramesGrow
<1>5. Len(G) = N /\ Rooted(G, Len(G)) /\ G[N] = fr /\ G \in Seq(Frame)
  BY <1>4 DEF Grown
<1>6. OpenIn(G, o)
  <2> HIDE DEF G
  <2>1. \A i \in 1 .. Len(o) : o[i] \in 1 .. Len(F)
    BY <1>1 DEF OpenIn
  <2>2. \A i \in 1 .. Len(o) : o[i] \in 1 .. N
    BY <2>1
  <2> QED BY <1>1, <1>5, <2>2 DEF OpenIn
<1> HIDE DEF b
<1>7. /\ Bump(c) = ContextsOf(t, G, b, o)
      /\ ContextOf(t, G, b, Len(F) + 1) =
            [index |-> b + Len(F), type |-> fr.type, to |-> <<t, Len(F) + 1>>,
             trace |-> ChildPath(c), subtraces |-> 0]
  <2> HIDE DEF G
  <2>1. ContextsMoved(t, b, F, G, fr, o, c)
    BY <1>1, <1>2, <1>4, ContextsGrown
  <2> QED BY Zenon, <2>1 DEF ContextsMoved
<1>8. PathTo(G, N) = ChildPath(c) /\ Cardinality(Children(G, N)) = 0
  <2>1. ContextOf(t, G, b, N).trace = ChildPath(c) /\ ContextOf(t, G, b, N).subtraces = 0
    BY <1>7
  <2> HIDE DEF N, G
  <2> QED BY ONLY <2>1 DEF ContextOf
<1>9. EntriesOf(t, G)[N] = x
  <2>1. N \in 1 .. Len(G)
    BY <1>2, <1>5
  <2>2. x = Entry(G[N].type, <<t, N>>, PathTo(G, N), Cardinality(Children(G, N)), G[N].res)
    <3> HIDE DEF G
    <3> QED BY <1>5, <1>8
  <2> HIDE DEF N, G, x
  <2> QED BY <2>1, <2>2 DEF EntriesOf
<1>10. (1 .. N) \ OpenSet(o) = S \cup {N}
  <2>1. N \notin OpenSet(o)
    BY <1>1 DEF OpenSet, OpenIn
  <2>2. 1 .. N = (1 .. Len(F)) \cup {N}
    OBVIOUS
  <2> HIDE DEF N
  <2> QED BY Zenon, <2>1, <2>2
<1>11. Agree(EntriesOf(t, G), EntriesOf(t, F), S)
  BY <1>1, <1>4, ClosedKept
<1>12. Into(Current(e), n, x) = MapOf(EntriesOf(t, G), b, S \cup {N})
  <2>1. S \subseteq Nat \ {0} /\ N \notin S
    OBVIOUS
  <2> HIDE DEF S, G, N, x
  <2>2. GrowsTo(EntriesOf(t, F), EntriesOf(t, G), b, S, N)
    BY <1>2, <1>11, <2>1, MapGrows
  <2> QED BY Zenon, <1>1, <1>2, <1>9, <2>2 DEF GrowsTo
<1>13. Listed(d) /\ Current(d) = Into(Current(e), n, x)
  <2> HIDE DEF x
  <2> QED BY <1>1, InsertedIs
<1>14. n + 1 \in Nat
  BY <1>1
<1> HIDE DEF N, G, x, S, d
<1>15. Good(d, n + 1, Bump(c), t, G, o)
  BY Zenon, <1>1, <1>2, <1>5, <1>6, <1>7, <1>10, <1>12, <1>13, <1>14 DEF Good
<1> QED BY <1>15 DEF G, x, d, N

\* A frame ends: nothing but what it ended with changes.
LEMMA PopGood ==
    ASSUME NEW e, NEW n, NEW c, NEW t, NEW F \in Seq(Frame), NEW o \in Seq(Nat),
           Good(e, n, c, t, F, o), o # <<>>, NEW r \in Results
    PROVE  /\ c # <<>>
           /\ Good(Inserted(e, Last(c).index, EntryOf(Last(c), r)), n, Front(c), t,
                   [F EXCEPT ![Last(o)].res = r], Front(o))
<1> DEFINE b == n - Len(F)
           p == Last(o)
           m == Len(o) - 1
           G == [F EXCEPT ![p].res = r]
           q == Front(o)
           x == EntryOf(Last(c), r)
           k == Last(c).index
           d == Inserted(e, k, x)
           S == (1 .. Len(F)) \ OpenSet(o)
<1>1. /\ n \in Nat /\ Len(F) <= n /\ Rooted(F, Len(F)) /\ OpenIn(F, o)
      /\ c = ContextsOf(t, F, b, o) /\ Current(e) = MapOf(EntriesOf(t, F), b, S) /\ Listed(e)
  BY DEF Good
<1>2. b \in Nat /\ n - Len(F) = b
  BY <1>1
<1>3. /\ Len(o) \in Nat \ {0} /\ m \in Nat /\ Len(o) = m + 1 /\ p = o[Len(o)] /\ p \in 1 .. Len(F)
      /\ \A i \in 1 .. m : o[i] # p /\ o[i] \in 1 .. Len(F)
  <2>1. Len(o) \in Nat \ {0} /\ Len(o) \in 1 .. Len(o) /\ m \in Nat /\ Len(o) = m + 1
    OBVIOUS
  <2>2. p = o[Len(o)]
    BY DEF Last
  <2>3. \A i \in 1 .. m : i \in 1 .. Len(o) /\ i < Len(o)
    BY <2>1
  <2>4. \A i \in 1 .. Len(o) : o[i] \in Nat
    OBVIOUS
  <2> HIDE DEF p, m
  <2>5. p \in 1 .. Len(F)
    BY <1>1, <2>1, <2>2 DEF OpenIn
  <2>6. \A i \in 1 .. m : o[i] < o[Len(o)] /\ o[i] \in 1 .. Len(F)
    BY <1>1, <2>1, <2>3 DEF OpenIn
  <2> QED BY <2>1, <2>2, <2>4, <2>5, <2>6
<1>4. q \in Seq(Nat) /\ Len(q) = m /\ \A i \in 1 .. m : q[i] = o[i]
  <2>1. q = SubSeq(o, 1, m)
    BY DEF Front
  <2> HIDE DEF q, m
  <2> QED BY <1>3, <2>1
<1> HIDE DEF m, q
<1>5. /\ G \in Seq(Frame) /\ Len(G) = Len(F) /\ DOMAIN G = DOMAIN F
      /\ \A f \in 1 .. Len(F) : G[f].parent = F[f].parent /\ G[f].type = F[f].type
                              /\ G[f].res = IF f = p THEN r ELSE F[f].res
  <2>1. F[p] \in Frame
    BY <1>3
  <2>2. [F[p] EXCEPT !.res = r] \in Frame
    BY <2>1 DEF Frame
  <2>3. G = [F EXCEPT ![p] = [F[p] EXCEPT !.res = r]]
    OBVIOUS
  <2>4. G \in Seq(Frame) /\ Len(G) = Len(F) /\ DOMAIN G = DOMAIN F
    <3> HIDE DEF G
    <3> QED BY <1>3, <2>2, <2>3
  <2>5. ASSUME NEW f \in 1 .. Len(F)
        PROVE  G[f].parent = F[f].parent /\ G[f].type = F[f].type
               /\ G[f].res = IF f = p THEN r ELSE F[f].res
    <3>1. F[f] \in Frame
      OBVIOUS
    <3> HIDE DEF p
    <3>2. G[f] = IF f = p THEN [F[f] EXCEPT !.res = r] ELSE F[f]
      BY DEF G
    <3> HIDE DEF G
    <3> QED BY <3>1, <3>2 DEF Frame
  <2> QED BY <2>4, <2>5
<1> HIDE DEF G, p
<1>6. \A f \in 1 .. Len(F) : SameCallers(F, G, f) /\ Children(G, f) = Children(F, f)
  BY <1>5 DEF SameCallers, Children
<1>7. Rooted(G, Len(G))
  BY <1>1, <1>5 DEF Rooted
<1>8. OpenIn(G, q)
  <2>1. \A i \in 1 .. m : i \in 1 .. Len(o)
    BY <1>3
  <2> QED BY <1>1, <1>3, <1>4, <1>5, <2>1 DEF OpenIn
<1> HIDE DEF b
<1>9. \A f \in 1 .. Len(F) : ContextOf(t, G, b, f) = ContextOf(t, F, b, f)
  BY <1>1, <1>5, <1>6, ContextKept
<1>10. /\ c # <<>> /\ Last(c) = ContextOf(t, F, b, p)
       /\ Front(c) = ContextsOf(t, G, b, q)
  <2> DEFINE C == {ContextOf(t, F, b, f) : f \in 1 .. Len(F)}
  <2>1. /\ \A i \in 1 .. Len(o) : o[i] \in 1 .. Len(F)
        /\ Len(o) \in 1 .. Len(o)
    BY <1>1, <1>3 DEF OpenIn
  <2>2. c \in [1 .. Len(o) -> C] /\ \A i \in 1 .. Len(o) : c[i] = ContextOf(t, F, b, o[i])
    BY <1>1, <2>1 DEF ContextsOf
  <2> HIDE DEF C
  <2>3. c \in Seq(C) /\ Len(c) = Len(o) /\ c # <<>>
    BY <1>3, <2>2
  <2>4. Last(c) = ContextOf(t, F, b, p)
    BY <1>3, <2>1, <2>2, <2>3 DEF Last
  <2>5. Front(c) = [i \in 1 .. m |-> c[i]]
    <3>1. Front(c) = SubSeq(c, 1, m)
      BY <1>3, <2>3 DEF Front, m
    <3>2. SubSeq(c, 1, m) \in Seq(C) /\ Len(SubSeq(c, 1, m)) = m
          /\ \A i \in 1 .. m : SubSeq(c, 1, m)[i] = c[i]
      BY <1>3, <2>3
    <3> DEFINE s == SubSeq(c, 1, m)
    <3> HIDE DEF s
    <3>6. s \in Seq(C) /\ Len(s) = m
      BY <3>2 DEF s
    <3>3. s \in [1 .. m -> C]
      BY <3>6
    <3>4. s = [i \in 1 .. m |-> s[i]]
      BY <3>3
    <3>5. \A i \in 1 .. m : s[i] = c[i]
      BY <3>2 DEF s
    <3> QED BY Zenon, <3>1, <3>4, <3>5 DEF s
  <2>6. \A i \in 1 .. m : c[i] = ContextOf(t, G, b, q[i])
    BY <1>3, <1>4, <1>9, <2>2
  <2>7. Front(c) = ContextsOf(t, G, b, q)
    BY Zenon, <1>4, <2>5, <2>6 DEF ContextsOf
  <2> QED BY <2>3, <2>4, <2>7
<1>11. k = (b + p) - 1 /\ EntriesOf(t, G)[p] = x
  <2>1. k = (b + p) - 1
    BY <1>10 DEF ContextOf
  <2>2. p \in 1 .. Len(G) /\ G[p].res = r
    BY <1>3, <1>5
  <2>3. EntriesOf(t, G)[p] =
            Entry(G[p].type, <<t, p>>, PathTo(G, p), Cardinality(Children(G, p)), r)
    BY <2>2 DEF EntriesOf
  <2>4. Last(c) = ContextOf(t, G, b, p)
    BY <1>3, <1>9, <1>10
  <2>5. x = Entry(G[p].type, <<t, p>>, PathTo(G, p), Cardinality(Children(G, p)), r)
    BY <2>4 DEF EntryOf, ContextOf
  <2> QED BY Zenon, <2>1, <2>3, <2>5
<1>12. OpenSet(q) = OpenSet(o) \ {p}
  <2>1. 1 .. Len(o) = (1 .. m) \cup {Len(o)}
    BY <1>3
  <2> QED BY <1>3, <1>4, <2>1 DEF OpenSet
<1>13. (1 .. Len(G)) \ OpenSet(q) = S \cup {p} /\ p \notin S /\ S \subseteq Nat \ {0} /\ p \in Nat \ {0}
  <2>1. p \in OpenSet(o) /\ OpenSet(o) \subseteq 1 .. Len(F)
    BY <1>1, <1>3 DEF OpenSet, OpenIn
  <2> QED BY <1>3, <1>5, <1>12, <2>1
<1>14. Agree(EntriesOf(t, G), EntriesOf(t, F), S)
  <2>1. ASSUME NEW f \in S PROVE EntriesOf(t, G)[f] = EntriesOf(t, F)[f]
    <3>1. f \in 1 .. Len(F) /\ f \in 1 .. Len(G) /\ f # p
      BY <1>5, <1>13
    <3>2. SameCallers(F, G, f) /\ G[f].type = F[f].type /\ Children(G, f) = Children(F, f)
          /\ G[f].res = F[f].res
      BY <1>5, <1>6, <3>1
    <3> QED BY <1>1, <1>5, <3>1, <3>2, EntryKept
  <2> QED BY <2>1 DEF Agree
<1> HIDE DEF S, x, k
<1>15. Into(Current(e), k, x) = MapOf(EntriesOf(t, G), b, S \cup {p})
  <2>1. GrowsTo(EntriesOf(t, F), EntriesOf(t, G), b, S, p)
    BY <1>2, <1>13, <1>14, MapGrows
  <2> QED BY Zenon, <1>1, <1>11, <2>1 DEF GrowsTo
<1>16. Listed(d) /\ Current(d) = Into(Current(e), k, x)
  BY <1>1, InsertedIs
<1> HIDE DEF d
<1>17. n - Len(G) = b /\ Len(G) <= n
  BY <1>1, <1>2, <1>5
<1>18. Good(d, n, Front(c), t, G, q)
  BY Zenon, <1>1, <1>7, <1>8, <1>10, <1>13, <1>15, <1>16, <1>17 DEF Good
<1> QED BY <1>10, <1>18 DEF G, x, d, k, q, p

\* The root is entered, which no entry shows.
RootGood(e, n, c, t, G, o) ==
    G \in Seq(Frame) /\ G[1].entered /\ G # <<>> /\ Good(e, n, c, t, G, o)

LEMMA EnterGood ==
    ASSUME NEW e, NEW n, NEW c, NEW t, NEW F \in Seq(Frame), NEW o \in Seq(Nat),
           Good(e, n, c, t, F, o), 1 \in 1 .. Len(F)
    PROVE  RootGood(e, n, c, t, [F EXCEPT ![1].entered = TRUE], o)
<1> DEFINE b == n - Len(F)
           G == [F EXCEPT ![1].entered = TRUE]
           S == (1 .. Len(F)) \ OpenSet(o)
<1>1. /\ n \in Nat /\ Len(F) <= n /\ Rooted(F, Len(F)) /\ OpenIn(F, o)
      /\ c = ContextsOf(t, F, b, o) /\ Current(e) = MapOf(EntriesOf(t, F), b, S) /\ Listed(e)
  BY DEF Good
<1>2. b \in Nat
  BY <1>1
<1>3. /\ G \in Seq(Frame) /\ Len(G) = Len(F) /\ DOMAIN G = DOMAIN F /\ G[1].entered
      /\ \A f \in 1 .. Len(F) : G[f].parent = F[f].parent /\ G[f].type = F[f].type /\ G[f].res = F[f].res
  <2>1. F[1] \in Frame
    OBVIOUS
  <2>2. [F[1] EXCEPT !.entered = TRUE] \in Frame /\ [F[1] EXCEPT !.entered = TRUE].entered
    BY <2>1 DEF Frame
  <2>3. G = [F EXCEPT ![1] = [F[1] EXCEPT !.entered = TRUE]]
    OBVIOUS
  <2>4. G \in Seq(Frame) /\ Len(G) = Len(F) /\ DOMAIN G = DOMAIN F /\ G[1].entered
    <3> HIDE DEF G
    <3> QED BY <2>2, <2>3
  <2>5. ASSUME NEW f \in 1 .. Len(F)
        PROVE  G[f].parent = F[f].parent /\ G[f].type = F[f].type /\ G[f].res = F[f].res
    <3>1. F[f] \in Frame
      OBVIOUS
    <3>2. G[f] = IF f = 1 THEN [F[1] EXCEPT !.entered = TRUE] ELSE F[f]
      <4>1. f \in DOMAIN F
        OBVIOUS
      <4> HIDE DEF G
      <4> QED BY Zenon, <2>3, <4>1
    <3> HIDE DEF G
    <3> QED BY <3>1, <3>2 DEF Frame
  <2> QED BY <2>4, <2>5
<1> HIDE DEF G
<1>4. \A f \in 1 .. Len(F) : SameCallers(F, G, f) /\ Children(G, f) = Children(F, f)
  BY <1>3 DEF SameCallers, Children
<1>5. Rooted(G, Len(G)) /\ OpenIn(G, o) /\ G # <<>>
  <2>1. Rooted(G, Len(G)) /\ OpenIn(G, o)
    BY <1>1, <1>3 DEF Rooted, OpenIn
  <2>2. G # <<>>
    BY <1>3
  <2> QED BY <2>1, <2>2
<1> HIDE DEF b
<1>6. \A f \in 1 .. Len(F) : ContextOf(t, G, b, f) = ContextOf(t, F, b, f)
  BY <1>1, <1>3, <1>4, ContextKept
<1>7. c = ContextsOf(t, G, b, o)
  <2>1. \A i \in 1 .. Len(o) : ContextOf(t, G, b, o[i]) = ContextOf(t, F, b, o[i])
    BY <1>1, <1>6 DEF OpenIn
  <2> QED BY Zenon, <1>1, <2>1 DEF ContextsOf
<1>8. Agree(EntriesOf(t, G), EntriesOf(t, F), S)
  <2>1. ASSUME NEW f \in S PROVE EntriesOf(t, G)[f] = EntriesOf(t, F)[f]
    <3>1. f \in 1 .. Len(F) /\ f \in 1 .. Len(G)
      BY <1>3
    <3> QED BY <1>1, <1>3, <1>4, <3>1, EntryKept
  <2> QED BY <2>1 DEF Agree
<1>9. S \subseteq Nat \ {0}
  OBVIOUS
<1>10. Current(e) = MapOf(EntriesOf(t, G), b, S)
  <2> HIDE DEF S
  <2>1. SameMap(EntriesOf(t, G), EntriesOf(t, F), b, S)
    BY <1>2, <1>8, <1>9, MapSame
  <2> QED BY Zenon, <1>1, <2>1 DEF SameMap
<1>11. Good(e, n, c, t, G, o)
  BY Zenon, <1>1, <1>3, <1>5, <1>7, <1>10 DEF Good, b, S
<1> QED BY Zenon, <1>3, <1>5, <1>11 DEF G, RootGood

\* A transaction without frames has no contexts and no entries.
LEMMA FreshGood ==
    ASSUME NEW e, Listed(e), Current(e) = <<>>, NEW n \in Nat, NEW t
    PROVE  Good(e, n, <<>>, t, <<>>, <<>>)
<1>1. Rooted(<<>>, Len(<<>>)) /\ OpenIn(<<>>, <<>>) /\ Len(<<>>) = 0 /\ Len(<<>>) <= n
  BY DEF Rooted, OpenIn
<1>2. \A E, b : ContextsOf(t, E, b, <<>>) = <<>>
  BY DEF ContextsOf
<1>3. (1 .. Len(<<>>)) \ OpenSet(<<>>) = {}
  OBVIOUS
<1>4. \A E, b : MapOf(E, b, {}) = <<>>
  BY MapEmpty
<1> QED BY Zenon, <1>1, <1>2, <1>3, <1>4 DEF Good

\* A new map for the entries to come.
LEMMA ListedGrows ==
    ASSUME NEW e, Listed(e)
    PROVE  /\ Listed(Append(e, <<>>)) /\ Current(Append(e, <<>>)) = <<>>
           /\ Len(e) \in Nat /\ Len(Append(e, <<>>)) = Len(e) + 1 /\ Append(e, <<>>) # <<>>
           /\ \A i \in 1 .. Len(e) : Append(e, <<>>)[i] = e[i]
<1>1. PICK S : e \in Seq(S)
  BY DEF Listed
<1> DEFINE T == S \cup {<<>>}
           d == Append(e, <<>>)
<1>2. e \in Seq(T) /\ <<>> \in T
  BY <1>1
<1> HIDE DEF T
<1>3. d \in Seq(T) /\ Len(d) = Len(e) + 1 /\ d # <<>> /\ d[Len(e) + 1] = <<>>
      /\ \A i \in 1 .. Len(e) : d[i] = e[i]
  BY <1>2
<1>4. Len(e) \in Nat
  BY <1>2
<1> HIDE DEF d
<1>5. Listed(d) /\ Current(d) = <<>>
  BY <1>3 DEF Listed, Current
<1> QED BY <1>3, <1>4, <1>5 DEF d

-----------------------------------------------------------------------------
(* The handlers, field by field                                            *)

IsListener(l) ==
    l \in [version : {l.version}, entries : {l.entries}, entriesNextIndex : {l.entriesNextIndex},
           contextStack : {l.contextStack}, callType : {l.callType},
           skipNextContext : {l.skipNextContext}, stepResultEntry : {l.stepResultEntry},
           firstTransaction : {l.firstTransaction}, recordTransactionOnly : {l.recordTransactionOnly}]

Pushed(c, n, type, to, trace) ==
    Append(c, [index |-> n, type |-> type, to |-> to, trace |-> trace, subtraces |-> 0])

LEMMA PushIs ==
    ASSUME NEW l, IsListener(l), NEW k, NEW type, NEW to, NEW trace,
           k = PushContext(l, type, to, trace)
    PROVE  /\ IsListener(k) /\ k.version = l.version /\ k.entries = l.entries
           /\ k.entriesNextIndex = l.entriesNextIndex + 1
           /\ k.contextStack = Pushed(l.contextStack, l.entriesNextIndex, type, to, trace)
           /\ k.callType = l.callType /\ k.skipNextContext = l.skipNextContext
           /\ k.stepResultEntry = l.stepResultEntry /\ k.firstTransaction = l.firstTransaction
           /\ k.recordTransactionOnly = l.recordTransactionOnly
BY DEF PushContext, IsListener, Pushed

Transacted(l, k, type, to) ==
    /\ IsListener(k) /\ k.version = "early" /\ k.entries = l.entries
    /\ k.entriesNextIndex = l.entriesNextIndex + 1
    /\ k.contextStack = Pushed(l.contextStack, l.entriesNextIndex, type, to, <<>>)
    /\ k.callType = l.callType /\ k.skipNextContext = TRUE
    /\ k.stepResultEntry = l.stepResultEntry /\ k.firstTransaction = l.firstTransaction
    /\ k.recordTransactionOnly = TRUE

LEMMA TransactIs ==
    ASSUME NEW l, IsListener(l), NEW k, NEW type, NEW to,
           k = OnRecordTransaction(OnTransact(l, type, to))
    PROVE  Transacted(l, k, type, to)
<1> DEFINE a == [l EXCEPT !.recordTransactionOnly = FALSE, !.version = "early", !.skipNextContext = TRUE]
           b == PushContext(a, type, to, <<>>)
<1>1. /\ IsListener(a) /\ a.version = "early" /\ a.entries = l.entries
      /\ a.entriesNextIndex = l.entriesNextIndex /\ a.contextStack = l.contextStack
      /\ a.callType = l.callType /\ a.skipNextContext = TRUE
      /\ a.stepResultEntry = l.stepResultEntry /\ a.firstTransaction = l.firstTransaction
      /\ a.recordTransactionOnly = FALSE
  BY DEF IsListener
<1> HIDE DEF a
<1>2. /\ IsListener(b) /\ b.version = a.version /\ b.entries = a.entries
      /\ b.entriesNextIndex = a.entriesNextIndex + 1
      /\ b.contextStack = Pushed(a.contextStack, a.entriesNextIndex, type, to, <<>>)
      /\ b.callType = a.callType /\ b.skipNextContext = a.skipNextContext
      /\ b.stepResultEntry = a.stepResultEntry /\ b.firstTransaction = a.firstTransaction
      /\ b.recordTransactionOnly = a.recordTransactionOnly
  BY <1>1, PushIs
<1>3. k = [b EXCEPT !.recordTransactionOnly = TRUE]
  BY DEF OnRecordTransaction, OnTransact, a
<1> HIDE DEF b
<1>4. /\ IsListener(k) /\ k.version = b.version /\ k.entries = b.entries
      /\ k.entriesNextIndex = b.entriesNextIndex /\ k.contextStack = b.contextStack
      /\ k.callType = b.callType /\ k.skipNextContext = b.skipNextContext
      /\ k.stepResultEntry = b.stepResultEntry /\ k.firstTransaction = b.firstTransaction
      /\ k.recordTransactionOnly = TRUE
  BY <1>2, <1>3 DEF IsListener
<1> QED BY <1>1, <1>2, <1>4 DEF Transacted

LEMMA CountIs ==
    ASSUME NEW l, IsListener(l), NEW k, k = CountSubtrace(l)
    PROVE  /\ IsListener(k) /\ k.version = l.version /\ k.entries = l.entries
           /\ k.entriesNextIndex = l.entriesNextIndex /\ k.contextStack = Bump(l.contextStack)
           /\ k.callType = l.callType /\ k.skipNextContext = l.skipNextContext
           /\ k.stepResultEntry = l.stepResultEntry /\ k.firstTransaction = l.firstTransaction
           /\ k.recordTransactionOnly = l.recordTransactionOnly
<1>1. CASE l.contextStack = <<>>
  BY <1>1 DEF CountSubtrace, Bump
<1>2. CASE l.contextStack # <<>>
  <2> DEFINE c == Bump(l.contextStack)
  <2>1. k = [l EXCEPT !.contextStack = c]
    BY <1>2 DEF CountSubtrace, Bump
  <2> HIDE DEF c
  <2> QED BY <2>1 DEF IsListener, c
<1> QED BY <1>1, <1>2

LEMMA EnterRootIs ==
    ASSUME NEW l, IsListener(l), NEW k, l.skipNextContext, NEW type, NEW to,
           k = EnterContext(l, type, to)
    PROVE  /\ IsListener(k) /\ k.version = l.version /\ k.entries = l.entries
           /\ k.entriesNextIndex = l.entriesNextIndex /\ k.contextStack = l.contextStack
           /\ k.callType = l.callType /\ k.skipNextContext = FALSE
           /\ k.stepResultEntry = l.stepResultEntry /\ k.firstTransaction = l.firstTransaction
           /\ k.recordTransactionOnly = FALSE
<1>1. k = [l EXCEPT !.recordTransactionOnly = FALSE, !.skipNextContext = FALSE]
  BY DEF EnterContext
<1> QED BY <1>1 DEF IsListener

Entered(l, k, type, to) ==
    /\ IsListener(k) /\ k.version = l.version /\ k.entries = l.entries
    /\ k.entriesNextIndex = l.entriesNextIndex + 1
    /\ k.contextStack = Pushed(Bump(l.contextStack), l.entriesNextIndex, type, to, ChildPath(l.contextStack))
    /\ k.callType = l.callType /\ k.skipNextContext = FALSE
    /\ k.stepResultEntry = l.stepResultEntry /\ k.firstTransaction = l.firstTransaction
    /\ k.recordTransactionOnly = FALSE

LEMMA EnterIs ==
    ASSUME NEW l, IsListener(l), NEW k, ~l.skipNextContext, NEW type, NEW to,
           k = EnterContext(l, type, to)
    PROVE  Entered(l, k, type, to)
<1> DEFINE a == [l EXCEPT !.recordTransactionOnly = FALSE, !.skipNextContext = FALSE]
           b == CountSubtrace(a)
<1>1. /\ IsListener(a) /\ a.version = l.version /\ a.entries = l.entries
      /\ a.entriesNextIndex = l.entriesNextIndex /\ a.contextStack = l.contextStack
      /\ a.callType = l.callType /\ a.skipNextContext = FALSE
      /\ a.stepResultEntry = l.stepResultEntry /\ a.firstTransaction = l.firstTransaction
      /\ a.recordTransactionOnly = FALSE
  BY DEF IsListener
<1>2. k = PushContext(b, type, to, ChildPath(l.contextStack))
  BY DEF EnterContext, ChildTrace, ChildPath
<1> HIDE DEF a
<1>3. /\ IsListener(b) /\ b.version = a.version /\ b.entries = a.entries
      /\ b.entriesNextIndex = a.entriesNextIndex /\ b.contextStack = Bump(a.contextStack)
      /\ b.callType = a.callType /\ b.skipNextContext = a.skipNextContext
      /\ b.stepResultEntry = a.stepResultEntry /\ b.firstTransaction = a.firstTransaction
      /\ b.recordTransactionOnly = a.recordTransactionOnly
  BY <1>1, CountIs
<1> HIDE DEF b
<1>4. /\ IsListener(k) /\ k.version = b.version /\ k.entries = b.entries
      /\ k.entriesNextIndex = b.entriesNextIndex + 1
      /\ k.contextStack = Pushed(b.contextStack, b.entriesNextIndex, type, to, ChildPath(l.contextStack))
      /\ k.callType = b.callType /\ k.skipNextContext = b.skipNextContext
      /\ k.stepResultEntry = b.stepResultEntry /\ k.firstTransaction = b.firstTransaction
      /\ k.recordTransactionOnly = b.recordTransactionOnly
  BY <1>2, <1>3, PushIs
<1> QED BY <1>1, <1>3, <1>4 DEF Entered

LEMMA InsertIs ==
    ASSUME NEW l, IsListener(l), NEW k, NEW key, NEW entry,
           k = InsertEntry(l, key, entry)
    PROVE  /\ IsListener(k) /\ k.version = l.version /\ k.entries = Inserted(l.entries, key, entry)
           /\ k.entriesNextIndex = l.entriesNextIndex /\ k.contextStack = l.contextStack
           /\ k.callType = l.callType /\ k.skipNextContext = l.skipNextContext
           /\ k.stepResultEntry = l.stepResultEntry /\ k.firstTransaction = l.firstTransaction
           /\ k.recordTransactionOnly = l.recordTransactionOnly
<1> DEFINE d == Inserted(l.entries, key, entry)
<1>1. k = [l EXCEPT !.entries = d]
  BY DEF InsertEntry, Inserted, Into
<1> HIDE DEF d
<1> QED BY <1>1 DEF IsListener, d

LEMMA PopIs ==
    ASSUME NEW l, IsListener(l), NEW k, l.contextStack # <<>>,
           k = PopContext(l)
    PROVE  /\ IsListener(k) /\ k.version = l.version /\ k.entries = l.entries
           /\ k.entriesNextIndex = l.entriesNextIndex /\ k.contextStack = Front(l.contextStack)
           /\ k.callType = l.callType /\ k.skipNextContext = l.skipNextContext
           /\ k.stepResultEntry = l.stepResultEntry /\ k.firstTransaction = l.firstTransaction
           /\ k.recordTransactionOnly = l.recordTransactionOnly
<1> DEFINE c == Front(l.contextStack)
<1>1. k = [l EXCEPT !.contextStack = c]
  BY DEF PopContext
<1> HIDE DEF c
<1> QED BY <1>1 DEF IsListener, c

LEMMA StepExitIs ==
    ASSUME NEW l, IsListener(l), NEW k, l.contextStack # <<>>, l.version = "early",
           NEW r, k = OnStepExit(l, r)
    PROVE  /\ IsListener(k) /\ k.version = l.version /\ k.entries = l.entries
           /\ k.entriesNextIndex = l.entriesNextIndex /\ k.contextStack = Front(l.contextStack)
           /\ k.callType = l.callType /\ k.skipNextContext = l.skipNextContext
           /\ k.stepResultEntry = <<Last(l.contextStack).index, EntryOf(Last(l.contextStack), r)>>
           /\ k.firstTransaction = l.firstTransaction
           /\ k.recordTransactionOnly = l.recordTransactionOnly
<1> DEFINE x == <<Last(l.contextStack).index, EntryOf(Last(l.contextStack), r)>>
           a == PopContext(l)
<1>1. PoppedEntry(l, r) = x
  BY DEF PoppedEntry
<1>2. x # <<>> /\ l.version # "legacy"
  OBVIOUS
<1> HIDE DEF x, a
<1>3. k = [a EXCEPT !.stepResultEntry = x]
  BY <1>1, <1>2 DEF OnStepExit, a
<1>4. /\ IsListener(a) /\ a.version = l.version /\ a.entries = l.entries
      /\ a.entriesNextIndex = l.entriesNextIndex /\ a.contextStack = Front(l.contextStack)
      /\ a.callType = l.callType /\ a.skipNextContext = l.skipNextContext
      /\ a.stepResultEntry = l.stepResultEntry /\ a.firstTransaction = l.firstTransaction
      /\ a.recordTransactionOnly = l.recordTransactionOnly
  BY PopIs DEF a
<1>5. /\ IsListener(k) /\ k.version = a.version /\ k.entries = a.entries
      /\ k.entriesNextIndex = a.entriesNextIndex /\ k.contextStack = a.contextStack
      /\ k.callType = a.callType /\ k.skipNextContext = a.skipNextContext /\ k.stepResultEntry = x
      /\ k.firstTransaction = a.firstTransaction
      /\ k.recordTransactionOnly = a.recordTransactionOnly
  BY <1>3, <1>4 DEF IsListener
<1> QED BY <1>4, <1>5 DEF x

StepExited(l, k, key, x) ==
    /\ IsListener(k) /\ k.version = l.version /\ k.entries = Inserted(l.entries, key, x)
    /\ k.entriesNextIndex = l.entriesNextIndex /\ k.contextStack = l.contextStack
    /\ k.callType = l.callType /\ k.skipNextContext = l.skipNextContext
    /\ k.stepResultEntry = <<>> /\ k.firstTransaction = l.firstTransaction
    /\ k.recordTransactionOnly = FALSE

\* The exit of a frame whose entry StepResult has left, and of one it has not.
LEMMA ExitStepIs ==
    ASSUME NEW l, IsListener(l), NEW k, NEW key, NEW x,
           l.stepResultEntry = <<key, x>>, NEW r, k = OnExit(l, r)
    PROVE  StepExited(l, k, key, x)
<1> DEFINE a == [l EXCEPT !.recordTransactionOnly = FALSE, !.stepResultEntry = <<>>]
           y == l.stepResultEntry
<1>1. y # <<>> /\ y[1] = key /\ y[2] = x
  OBVIOUS
<1>2. /\ IsListener(a) /\ a.version = l.version /\ a.entries = l.entries
      /\ a.entriesNextIndex = l.entriesNextIndex /\ a.contextStack = l.contextStack
      /\ a.callType = l.callType /\ a.skipNextContext = l.skipNextContext
      /\ a.stepResultEntry = <<>> /\ a.firstTransaction = l.firstTransaction
      /\ a.recordTransactionOnly = FALSE
  BY DEF IsListener
<1> HIDE DEF y
<1>3. k = InsertEntry(a, y[1], y[2])
  BY <1>1 DEF OnExit, y
<1> HIDE DEF a
<1>4. /\ IsListener(k) /\ k.version = a.version /\ k.entries = Inserted(a.entries, key, x)
      /\ k.entriesNextIndex = a.entriesNextIndex /\ k.contextStack = a.contextStack
      /\ k.callType = a.callType /\ k.skipNextContext = a.skipNextContext
      /\ k.stepResultEntry = a.stepResultEntry /\ k.firstTransaction = a.firstTransaction
      /\ k.recordTransactionOnly = a.recordTransactionOnly
  BY <1>1, <1>2, <1>3, InsertIs
<1> QED BY <1>2, <1>4 DEF StepExited

LEMMA ExitIs ==
    ASSUME NEW l, IsListener(l), NEW k, l.contextStack # <<>>, l.stepResultEntry = <<>>,
           NEW r, k = OnExit(l, r)
    PROVE  /\ IsListener(k) /\ k.version = l.version
           /\ k.entries = Inserted(l.entries, Last(l.contextStack).index, EntryOf(Last(l.contextStack), r))
           /\ k.entriesNextIndex = l.entriesNextIndex /\ k.contextStack = Front(l.contextStack)
           /\ k.callType = l.callType /\ k.skipNextContext = l.skipNextContext
           /\ k.stepResultEntry = <<>> /\ k.firstTransaction = l.firstTransaction
           /\ k.recordTransactionOnly = FALSE
<1> DEFINE a == [l EXCEPT !.recordTransactionOnly = FALSE, !.stepResultEntry = <<>>]
           b == PopContext(a)
           y == <<Last(l.contextStack).index, EntryOf(Last(l.contextStack), r)>>
<1>1. y # <<>> /\ y[1] = Last(l.contextStack).index /\ y[2] = EntryOf(Last(l.contextStack), r)
  OBVIOUS
<1>2. PoppedEntry(l, r) = y
  BY DEF PoppedEntry
<1> HIDE DEF y
<1>3. /\ IsListener(a) /\ a.version = l.version /\ a.entries = l.entries
      /\ a.entriesNextIndex = l.entriesNextIndex /\ a.contextStack = l.contextStack
      /\ a.callType = l.callType /\ a.skipNextContext = l.skipNextContext
      /\ a.stepResultEntry = <<>> /\ a.firstTransaction = l.firstTransaction
      /\ a.recordTransactionOnly = FALSE
  BY DEF IsListener
<1>4. k = InsertEntry(b, y[1], y[2])
  BY <1>1, <1>2 DEF OnExit
<1> HIDE DEF a
<1>5. /\ IsListener(b) /\ b.version = a.version /\ b.entries = a.entries
      /\ b.entriesNextIndex = a.entriesNextIndex /\ b.contextStack = Front(a.contextStack)
      /\ b.callType = a.callType /\ b.skipNextContext = a.skipNextContext
      /\ b.stepResultEntry = a.stepResultEntry /\ b.firstTransaction = a.firstTransaction
      /\ b.recordTransactionOnly = a.recordTransactionOnly
  BY <1>3, PopIs
<1> HIDE DEF b
<1>6. /\ IsListener(k) /\ k.version = b.version /\ k.entries = Inserted(b.entries, y[1], y[2])
      /\ k.entriesNextIndex = b.entriesNextIndex /\ k.contextStack = b.contextStack
      /\ k.callType = b.callType /\ k.skipNextContext = b.skipNextContext
      /\ k.stepResultEntry = b.stepResultEntry /\ k.firstTransaction = b.firstTransaction
      /\ k.recordTransactionOnly = b.recordTransactionOnly
  BY <1>4, <1>5, InsertIs
<1> QED BY <1>1, <1>3, <1>5, <1>6

LEMMA SuicideIs ==
    ASSUME NEW l, IsListener(l), NEW k, NEW to, k = OnSuicide(l, to)
    PROVE  /\ IsListener(k) /\ k.version = l.version
           /\ k.entries = Inserted(l.entries, l.entriesNextIndex, Entry("selfdestruct", to, ChildPath(l.contextStack), 0, "none"))
           /\ k.entriesNextIndex = l.entriesNextIndex + 1 /\ k.contextStack = Bump(l.contextStack)
           /\ k.callType = l.callType /\ k.skipNextContext = l.skipNextContext
           /\ k.stepResultEntry = l.stepResultEntry /\ k.firstTransaction = l.firstTransaction
           /\ k.recordTransactionOnly = l.recordTransactionOnly
<1> DEFINE a == CountSubtrace(l)
           x == Entry("selfdestruct", to, ChildPath(l.contextStack), 0, "none")
           b == InsertEntry(a, l.entriesNextIndex, x)
<1>1. k = [b EXCEPT !.entriesNextIndex = @ + 1]
  BY DEF OnSuicide, ChildTrace, ChildPath
<1> HIDE DEF x
<1>2. /\ IsListener(a) /\ a.version = l.version /\ a.entries = l.entries
      /\ a.entriesNextIndex = l.entriesNextIndex /\ a.contextStack = Bump(l.contextStack)
      /\ a.callType = l.callType /\ a.skipNextContext = l.skipNextContext
      /\ a.stepResultEntry = l.stepResultEntry /\ a.firstTransaction = l.firstTransaction
      /\ a.recordTransactionOnly = l.recordTransactionOnly
  BY CountIs
<1> HIDE DEF a
<1>3. /\ IsListener(b) /\ b.version = a.version
      /\ b.entries = Inserted(a.entries, l.entriesNextIndex, x)
      /\ b.entriesNextIndex = a.entriesNextIndex /\ b.contextStack = a.contextStack
      /\ b.callType = a.callType /\ b.skipNextContext = a.skipNextContext
      /\ b.stepResultEntry = a.stepResultEntry /\ b.firstTransaction = a.firstTransaction
      /\ b.recordTransactionOnly = a.recordTransactionOnly
  BY <1>2, InsertIs
<1> HIDE DEF b
<1>4. /\ IsListener(k) /\ k.version = b.version /\ k.entries = b.entries
      /\ k.entriesNextIndex = b.entriesNextIndex + 1 /\ k.contextStack = b.contextStack
      /\ k.callType = b.callType /\ k.skipNextContext = b.skipNextContext
      /\ k.stepResultEntry = b.stepResultEntry /\ k.firstTransaction = b.firstTransaction
      /\ k.recordTransactionOnly = b.recordTransactionOnly
  BY <1>1, <1>3 DEF IsListener
<1> QED BY <1>2, <1>3, <1>4 DEF x

LEMMA FinishIs ==
    ASSUME NEW l, l.contextStack = <<>>, ~l.recordTransactionOnly
    PROVE  FinishTransaction(l) = l
BY DEF FinishTransaction

LEMMA NewFirstIs ==
    ASSUME NEW l, IsListener(l), NEW k, l.firstTransaction, k = OnCallListNew(l)
    PROVE  /\ IsListener(k) /\ k.version = l.version /\ k.entries = l.entries
           /\ k.entriesNextIndex = l.entriesNextIndex /\ k.contextStack = l.contextStack
           /\ k.callType = l.callType /\ k.skipNextContext = l.skipNextContext
           /\ k.stepResultEntry = l.stepResultEntry /\ k.firstTransaction = FALSE
           /\ k.recordTransactionOnly = l.recordTransactionOnly
<1>1. k = [l EXCEPT !.firstTransaction = FALSE]
  BY DEF OnCallListNew
<1> QED BY <1>1 DEF IsListener

LEMMA NewIs ==
    ASSUME NEW l, IsListener(l), NEW k, ~l.firstTransaction, l.contextStack = <<>>,
           ~l.recordTransactionOnly, k = OnCallListNew(l)
    PROVE  /\ IsListener(k) /\ k.version = l.version /\ k.entries = Append(l.entries, <<>>)
           /\ k.entriesNextIndex = l.entriesNextIndex /\ k.contextStack = l.contextStack
           /\ k.callType = l.callType /\ k.skipNextContext = FALSE
           /\ k.stepResultEntry = l.stepResultEntry /\ k.firstTransaction = l.firstTransaction
           /\ k.recordTransactionOnly = l.recordTransactionOnly
<1> DEFINE d == Append(l.entries, <<>>)
<1>1. k = [l EXCEPT !.skipNextContext = FALSE, !.entries = d]
  BY FinishIs DEF OnCallListNew
<1> HIDE DEF d
<1> QED BY <1>1 DEF IsListener, d

LEMMA TrapIs ==
    ASSUME NEW l, IsListener(l), NEW k, NEW type, k = OnTrap(l, type)
    PROVE  /\ IsListener(k) /\ k.version = l.version /\ k.entries = l.entries
           /\ k.entriesNextIndex = l.entriesNextIndex /\ k.contextStack = l.contextStack
           /\ k.callType = IF type \in CallTypes THEN type ELSE l.callType
           /\ k.skipNextContext = l.skipNextContext /\ k.stepResultEntry = l.stepResultEntry
           /\ k.firstTransaction = l.firstTransaction
           /\ k.recordTransactionOnly = l.recordTransactionOnly
<1>1. CASE type \in CallTypes
  BY <1>1 DEF OnTrap, IsListener
<1>2. CASE type \notin CallTypes
  BY <1>2 DEF OnTrap
<1> QED BY <1>1, <1>2

LEMMA SubcallIs ==
    ASSUME NEW l, IsListener(l), NEW k, k = OnPrecompileSubcall(l)
    PROVE  /\ IsListener(k) /\ k.version = l.version /\ k.entries = l.entries
           /\ k.entriesNextIndex = l.entriesNextIndex /\ k.contextStack = l.contextStack
           /\ k.callType = "call" /\ k.skipNextContext = l.skipNextContext
           /\ k.stepResultEntry = l.stepResultEntry /\ k.firstTransaction = l.firstTransaction
           /\ k.recordTransactionOnly = l.recordTransactionOnly
BY DEF OnPrecompileSubcall, IsListener

LEMMA CallRootIs ==
    ASSUME NEW l, IsListener(l), NEW k, l.skipNextContext,
           NEW isStatic, NEW to, k = OnCall(l, isStatic, to)
    PROVE  /\ IsListener(k) /\ k.version = l.version /\ k.entries = l.entries
           /\ k.entriesNextIndex = l.entriesNextIndex /\ k.contextStack = l.contextStack
           /\ k.callType = l.callType /\ k.skipNextContext = FALSE
           /\ k.stepResultEntry = l.stepResultEntry /\ k.firstTransaction = l.firstTransaction
           /\ k.recordTransactionOnly = FALSE
<1>1. PICK type : k = EnterContext(l, type, to)
  BY DEF OnCall
<1> QED BY <1>1, EnterRootIs

-----------------------------------------------------------------------------
(* The invariant                                                           *)

\* Whether the first transaction has no events, so that it has no map.
Off(bl) == IF bl # <<>> /\ bl[1] = <<>> THEN 1 ELSE 0

\* The map m holds transaction t with frames F.
IsPast(m, t, F) == \E b \in Nat : m = MapOf(EntriesOf(t, F), b, 1 .. Len(F))

Past(e, bl) == \A i \in 1 .. Len(e) - 1 : IsPast(e[i], i + Off(bl), bl[i + Off(bl)])

Counted(e, bl) == Len(e) = Len(bl) - Off(bl) \/ (e = <<>> /\ Len(bl) = 1)

Typed(l, bl, o) ==
    /\ IsListener(l) /\ l.version \in {"legacy", "early"} /\ l.entriesNextIndex \in Nat
    /\ l.callType \in CallTypes \cup {"call", NoType} /\ l.stepResultEntry = <<>>
    /\ l.skipNextContext \in BOOLEAN /\ l.recordTransactionOnly \in BOOLEAN
    /\ l.firstTransaction = (bl = <<>>)
    /\ bl \in Seq(Seq(Frame)) /\ Len(bl) <= MaxTransactions
    /\ o \in Seq(Nat)

Traces(l, bl, o) ==
    /\ bl = <<>> => o = <<>> /\ l.entries = <<>> /\ l.contextStack = <<>>
    /\ bl # <<>> => /\ Good(l.entries, l.entriesNextIndex, l.contextStack, Len(bl), bl[Len(bl)], o)
                    /\ Past(l.entries, bl)
                    /\ Counted(l.entries, bl)

Mode(l, bl, o) ==
    /\ l.recordTransactionOnly => o # <<>> /\ ~bl[Len(bl)][1].entered
    /\ o # <<>> => l.version = "early" /\ l.skipNextContext = ~bl[Len(bl)][1].entered

Holds(l, bl, o) == Typed(l, bl, o) /\ Traces(l, bl, o) /\ Mode(l, bl, o)

IInv == Holds(listener, block, open) /\ done \in BOOLEAN

-----------------------------------------------------------------------------
(* One step on the last transaction                                        *)

\* The maps d are those of e, but for what the last one holds.
Extends(d, e) ==
    /\ Len(d) \in Nat
    /\ IF e = <<>> THEN Len(d) \in {0, 1} ELSE Len(d) = Len(e)
    /\ \A i \in 1 .. Len(d) - 1 : i \in 1 .. Len(e) - 1 /\ d[i] = e[i]

LEMMA ExtendsSame ==
    ASSUME NEW e, Listed(e)
    PROVE  Extends(e, e)
<1>1. PICK S : e \in Seq(S)
  BY DEF Listed
<1>2. Len(e) \in Nat /\ (e = <<>> => Len(e) = 0)
  BY <1>1
<1> QED BY <1>2 DEF Extends

LEMMA ExtendsInserted ==
    ASSUME NEW e, Listed(e), NEW d, Listed(d), Extends(d, e), NEW key, NEW entry
    PROVE  Extends(Inserted(d, key, entry), e)
<1> DEFINE x == Inserted(d, key, entry)
<1>1. /\ Len(x) = IF d = <<>> THEN 1 ELSE Len(d)
      /\ \A i \in 1 .. Len(x) - 1 : i \in 1 .. Len(d) - 1 /\ x[i] = d[i]
  BY InsertedIs
<1> HIDE DEF x
<1>2. d = <<>> => Len(d) = 0
  OBVIOUS
<1>3. PICK S : d \in Seq(S)
  BY DEF Listed
<1>4. d # <<>> => Len(d) # 0
  BY <1>3
<1>5. Len(x) \in Nat /\ (IF e = <<>> THEN Len(x) \in {0, 1} ELSE Len(x) = Len(e))
  <2>1. CASE e = <<>>
    BY <1>1, <1>2, <1>4, <2>1 DEF Extends
  <2>2. CASE e # <<>> /\ d # <<>>
    BY <1>1, <2>2 DEF Extends
  <2>3. CASE e # <<>> /\ d = <<>>
    <3>1. Len(e) = 0
      BY <1>2, <2>3 DEF Extends
    <3>2. PICK T : e \in Seq(T)
      BY DEF Listed
    <3> QED BY <2>3, <3>1, <3>2
  <2> QED BY <2>1, <2>2, <2>3
<1> QED BY <1>1, <1>5 DEF Extends, x

LEMMA LastFrames ==
    ASSUME NEW bl \in Seq(Seq(Frame)), bl # <<>>, NEW G \in Seq(Frame)
    PROVE  LET x == [bl EXCEPT ![Len(bl)] = G] IN
           /\ x \in Seq(Seq(Frame)) /\ Len(x) = Len(bl) /\ x # <<>> /\ x[Len(bl)] = G
           /\ \A i \in 1 .. Len(bl) - 1 : x[i] = bl[i]
           /\ Len(bl) \in Nat \ {0} /\ bl[Len(bl)] \in Seq(Frame)
<1> DEFINE x == [bl EXCEPT ![Len(bl)] = G]
           n == Len(bl)
<1>1. n \in Nat \ {0} /\ DOMAIN bl = 1 .. n
  OBVIOUS
<1>2. bl[n] \in Seq(Frame)
  BY <1>1
<1>3. x \in Seq(Seq(Frame)) /\ Len(x) = n /\ x[n] = G /\ \A i \in 1 .. n - 1 : x[i] = bl[i]
  <2> DEFINE S == Seq(Frame)
  <2> HIDE DEF S
  <2>1. bl \in Seq(S) /\ G \in S
    BY DEF S
  <2>2. x \in Seq(S) /\ Len(x) = n
    BY ONLY <1>1, <2>1
  <2>3. x[n] = G /\ \A i \in 1 .. n - 1 : x[i] = bl[i]
    <3>2. \A m \in Nat \ {0} : m \in 1 .. m /\ \A i \in 1 .. m - 1 : i \in 1 .. m /\ i # m
      BY ONLY TRUE
    <3>1. n \in DOMAIN bl /\ \A i \in 1 .. n - 1 : i \in DOMAIN bl /\ i # n
      BY Zenon, <1>1, <3>2
    <3> QED BY Zenon, <3>1
  <2> QED BY <2>2, <2>3 DEF S
<1> HIDE DEF x
<1>4. x # <<>>
  BY <1>1, <1>3
<1> QED BY <1>1, <1>2, <1>3, <1>4 DEF x

\* What a step leaves of the last transaction decides what it leaves of all.
LEMMA Core ==
    ASSUME NEW l, NEW bl, NEW o, Typed(l, bl, o), Traces(l, bl, o), bl # <<>>,
           NEW k, NEW G \in Seq(Frame), G # <<>>, NEW q, Extends(k.entries, l.entries),
           Good(k.entries, k.entriesNextIndex, k.contextStack, Len(bl), G, q)
    PROVE  Traces(k, [bl EXCEPT ![Len(bl)] = G], q)
<1> DEFINE x == [bl EXCEPT ![Len(bl)] = G]
           d == k.entries
           e == l.entries
           n == Len(bl)
           f == Off(bl)
           g == Off(x)
<1>1. bl \in Seq(Seq(Frame))
  BY DEF Typed
<1>2. /\ x \in Seq(Seq(Frame)) /\ Len(x) = n /\ x # <<>> /\ x[n] = G
      /\ \A i \in 1 .. n - 1 : x[i] = bl[i]
      /\ n \in Nat \ {0}
  BY <1>1, LastFrames
<1>3. Past(e, bl) /\ Counted(e, bl) /\ Listed(e)
  BY DEF Traces, Good
<1> HIDE DEF x, n
<1>4. f \in {0, 1} /\ g \in {0, 1}
  BY DEF Off
<1>5. n = 1 => g = 0
  BY <1>2 DEF Off
<1>6. n # 1 => g = f
  <2>1. n # 1 => 1 \in 1 .. n - 1
    BY <1>2
  <2> QED BY <1>2, <2>1 DEF Off
<1>7. Len(e) = n - f \/ (e = <<>> /\ n = 1)
  BY <1>3 DEF Counted, n
<1> HIDE DEF f, g
<1>8. /\ Len(d) \in Nat
      /\ IF e = <<>> THEN Len(d) \in {0, 1} ELSE Len(d) = Len(e)
      /\ \A i \in 1 .. Len(d) - 1 : i \in 1 .. Len(e) - 1 /\ d[i] = e[i]
  BY DEF Extends
<1>9. Listed(d)
  BY DEF Good
<1>10. (e = <<>> => Len(e) = 0) /\ (Len(d) = 0 => d = <<>>) /\ Len(e) \in Nat /\ (Len(e) = 0 => e = <<>>)
  <2>1. PICK S : e \in Seq(S)
    BY <1>3 DEF Listed
  <2>2. PICK T : d \in Seq(T)
    BY <1>9 DEF Listed
  <2> HIDE DEF d, e
  <2> QED BY <2>1, <2>2
<1> HIDE DEF d, e
<1>11. Len(d) = n - g \/ (d = <<>> /\ n = 1)
  <2>1. CASE n = 1
    <3>1. g = 0 /\ f \in {0, 1}
      BY <1>4, <1>5, <2>1
    <3>2. Len(d) \in {0, 1}
      <4>1. CASE e = <<>>
        BY ONLY <1>8, <4>1
      <4>2. CASE e # <<>>
        <5>1. Len(d) = Len(e) /\ Len(e) = n - f
          BY ONLY <1>7, <1>8, <4>2
        <5> QED BY ONLY <2>1, <3>1, <5>1
      <4> QED BY <4>1, <4>2
    <3> QED BY <1>10, <2>1, <3>1, <3>2
  <2>2. CASE n # 1
    <3>1. e # <<>>
      BY <1>2, <1>4, <1>7, <1>10, <2>2
    <3> QED BY <1>6, <1>7, <1>8, <2>2, <3>1
  <2> QED BY <2>1, <2>2
<1>12. ASSUME NEW i \in 1 .. Len(d) - 1 PROVE IsPast(d[i], i + g, x[i + g])
  <2>1. i \in 1 .. Len(e) - 1 /\ d[i] = e[i]
    BY <1>8
  <2>2. IsPast(e[i], i + f, bl[i + f])
    BY <1>3, <2>1 DEF Past, f
  <2>3. n # 1
    BY <1>2, <1>4, <1>7, <1>10, <2>1
  <2>4. i + f \in 1 .. n - 1
    BY <1>2, <1>4, <1>7, <1>10, <2>1, <2>3
  <2>5. x[i + f] = bl[i + f] /\ g = f
    BY <1>2, <1>6, <2>3, <2>4
  <2> QED BY Zenon, <2>1, <2>2, <2>5
<1>13. Past(d, x) /\ Counted(d, x)
  BY <1>2, <1>11, <1>12 DEF Past, Counted, g
<1>14. Good(k.entries, k.entriesNextIndex, k.contextStack, Len(x), x[Len(x)], q)
  BY Zenon, <1>2 DEF n
<1> QED BY Zenon, <1>2, <1>13, <1>14 DEF Traces, d, x

-----------------------------------------------------------------------------
(* Steps                                                                   *)

LEMMA ContextsLeft ==
    ASSUME NEW e, NEW n, NEW c, NEW t, NEW F \in Seq(Frame), NEW o \in Seq(Nat),
           Good(e, n, c, t, F, o), o # <<>>
    PROVE  c # <<>>
<1>1. "error" \in Results
  BY CallListAssumption DEF Results
<1> QED BY <1>1, PopGood

LEMMA Unpacked ==
    ASSUME Holds(listener, block, open)
    PROVE  /\ Typed(listener, block, open) /\ Traces(listener, block, open) /\ Mode(listener, block, open)
           /\ IsListener(listener) /\ block \in Seq(Seq(Frame)) /\ open \in Seq(Nat)
           /\ block # <<>> =>
                 /\ Transaction \in Nat \ {0} /\ Frames \in Seq(Frame)
                 /\ Good(listener.entries, listener.entriesNextIndex, listener.contextStack,
                         Transaction, Frames, open)
                 /\ Listed(listener.entries) /\ Extends(listener.entries, listener.entries)
                 /\ OpenIn(Frames, open)
           /\ Running => block # <<>>
<1>1. Typed(listener, block, open) /\ Traces(listener, block, open) /\ Mode(listener, block, open)
  BY DEF Holds
<1>2. IsListener(listener) /\ block \in Seq(Seq(Frame)) /\ open \in Seq(Nat)
  BY <1>1 DEF Typed
<1>3. ASSUME block # <<>>
      PROVE  /\ Transaction \in Nat \ {0} /\ Frames \in Seq(Frame)
             /\ Good(listener.entries, listener.entriesNextIndex, listener.contextStack,
                     Transaction, Frames, open)
             /\ Listed(listener.entries) /\ Extends(listener.entries, listener.entries)
             /\ OpenIn(Frames, open)
  <2>1. Transaction \in Nat \ {0} /\ Frames \in Seq(Frame)
    BY <1>2, <1>3, LastFrames DEF Transaction, Frames
  <2>2. Good(listener.entries, listener.entriesNextIndex, listener.contextStack, Transaction, Frames, open)
    BY <1>1, <1>3 DEF Traces, Transaction, Frames
  <2>3. Listed(listener.entries) /\ OpenIn(Frames, open)
    BY <2>2 DEF Good
  <2> QED BY <2>1, <2>2, <2>3, ExtendsSame
<1>4. Running => block # <<>>
  BY <1>1 DEF Traces, Running
<1> QED BY <1>1, <1>2, <1>3, <1>4

\* While frames are running there is a root.
LEMMA RunningIs ==
    ASSUME Holds(listener, block, open), Running
    PROVE  /\ block # <<>> /\ open # <<>> /\ 1 \in 1 .. Len(Frames) /\ Frames # <<>>
           /\ Caller(open) = Last(open) /\ Last(open) \in 1 .. Len(Frames)
           /\ listener.version = "early" /\ listener.skipNextContext = ~RootEntered
           /\ listener.contextStack # <<>>
<1>1. /\ Mode(listener, block, open) /\ open \in Seq(Nat) /\ block # <<>> /\ Frames \in Seq(Frame)
      /\ OpenIn(Frames, open)
      /\ Good(listener.entries, listener.entriesNextIndex, listener.contextStack, Transaction, Frames, open)
  BY Unpacked
<1>2. open # <<>>
  BY DEF Running
<1>3. Caller(open) = Last(open) /\ Caller(open) \in 1 .. Len(Frames)
  <2>1. open # <<>> => Caller(open) \in 1 .. Len(Frames)
    BY <1>1, CallerIs
  <2> QED BY <1>2, <2>1 DEF Caller
<1>4. 1 \in 1 .. Len(Frames) /\ Frames # <<>>
  <2>1. Len(Frames) \in Nat /\ (Frames = <<>> => Len(Frames) = 0)
    BY <1>1
  <2> QED BY <1>3, <2>1
<1>5. listener.version = "early" /\ listener.skipNextContext = ~RootEntered
  BY <1>1, <1>2 DEF Mode, RootEntered, Frames, Transaction
<1>6. listener.contextStack # <<>>
  BY <1>1, <1>2, ContextsLeft
<1> QED BY <1>1, <1>2, <1>3, <1>4, <1>5, <1>6

\* The frames of the last transaction become G, and the contexts q.
LEMMA NextHolds ==
    ASSUME Holds(listener, block, open), block # <<>>, NEW G \in Seq(Frame), G # <<>>,
           block' = [block EXCEPT ![Transaction] = G], open' \in Seq(Nat),
           IsListener(listener'), listener'.version \in {"legacy", "early"},
           listener'.entriesNextIndex \in Nat, listener'.callType \in CallTypes \cup {"call", NoType},
           listener'.stepResultEntry = <<>>, listener'.skipNextContext \in BOOLEAN,
           listener'.recordTransactionOnly \in BOOLEAN,
           listener'.firstTransaction = listener.firstTransaction,
           Extends(listener'.entries, listener.entries),
           Good(listener'.entries, listener'.entriesNextIndex, listener'.contextStack,
                Transaction, G, open'),
           listener'.recordTransactionOnly => open' # <<>> /\ ~G[1].entered,
           open' # <<>> => listener'.version = "early" /\ listener'.skipNextContext = ~G[1].entered
    PROVE  Holds(listener, block, open)'
<1>1. Typed(listener, block, open) /\ Traces(listener, block, open) /\ block \in Seq(Seq(Frame))
  BY Unpacked
<1>2. /\ block' \in Seq(Seq(Frame)) /\ Len(block') = Transaction /\ block' # <<>>
      /\ block'[Len(block')] = G
  BY <1>1, LastFrames DEF Transaction
<1>3. Typed(listener', block', open')
  <2>1. listener'.firstTransaction = (block' = <<>>) /\ Len(block') <= MaxTransactions
    BY <1>1, <1>2 DEF Typed, Transaction
  <2> QED BY <1>2, <2>1 DEF Typed
<1>4. Traces(listener', block', open')
  <2>1. Traces(listener', [block EXCEPT ![Len(block)] = G], open')
    BY <1>1, Core DEF Transaction
  <2> QED BY Zenon, <2>1 DEF Transaction
<1>5. Mode(listener', block', open')
  BY Zenon, <1>2 DEF Mode
<1> QED BY <1>3, <1>4, <1>5 DEF Holds

LEMMA GoodIndex ==
    ASSUME NEW e, NEW n, NEW c, NEW t, NEW F, NEW o, Good(e, n, c, t, F, o)
    PROVE  n \in Nat /\ Listed(e)
BY DEF Good

LEMMA TransactKeeps ==
    ASSUME Holds(listener, block, open), NEW type \in {"call", "create"}, Transact(type)
    PROVE  Holds(listener, block, open)'
<1> DEFINE l == listener
           F == Frames
           t == Transaction
           fr == [type |-> type, parent |-> 0, res |-> "open", entered |-> FALSE]
           G == Append(F, fr)
<1>1. /\ Typed(l, block, open) /\ IsListener(l) /\ open \in Seq(Nat) /\ block # <<>>
      /\ Good(l.entries, l.entriesNextIndex, l.contextStack, t, F, open)
      /\ OpenIn(F, open) /\ F \in Seq(Frame) /\ Extends(l.entries, l.entries)
  BY Unpacked DEF Transact
<1>2. F = <<>> /\ l' = OnRecordTransaction(OnTransact(l, type, <<t, 1>>)) /\ OpenFrame(type)
  BY DEF Transact, NextContract
<1>3. open = <<>> /\ ~Running /\ Caller(open) = 0
  <2>1. Len(F) = 0
    BY <1>2
  <2>2. open # <<>> => Caller(open) \in 1 .. Len(F)
    BY <1>1, CallerIs
  <2>3. open = <<>>
    BY <2>1, <2>2
  <2> QED BY <2>3 DEF Running, Caller
<1>4. fr \in Frame /\ fr.parent = 0 /\ fr.type = type /\ ~fr.entered
  BY DEF Frame, Kinds, Results
<1>5. G = <<fr>> /\ G \in Seq(Frame) /\ G # <<>> /\ G[1] = fr /\ Len(F) + 1 = 1
  <2> HIDE DEF fr
  <2> QED BY <1>2, <1>4
<1>6. block' = [block EXCEPT ![t] = G] /\ open' = <<1>>
  <2>1. open' = Append(open, Len(F) + 1)
    BY <1>2 DEF OpenFrame
  <2>2. block' = [block EXCEPT ![t] = G]
    <3> DEFINE x == [type |-> type, parent |-> IF Running THEN Last(open) ELSE 0,
                     res |-> "open", entered |-> Running]
    <3>1. block' = [block EXCEPT ![t] = Append(block[t], x)]
      BY <1>2 DEF OpenFrame
    <3>2. Running = FALSE
      BY <1>3
    <3>3. x = fr
      BY ONLY <3>2
    <3> HIDE DEF x, fr
    <3> QED BY Zenon, <3>1, <3>3 DEF Frames
  <2> QED BY <1>3, <1>5, <2>1, <2>2
<1>7. /\ IsListener(l') /\ l'.version = "early" /\ l'.entries = l.entries
      /\ l'.entriesNextIndex = l.entriesNextIndex + 1
      /\ l'.contextStack = Pushed(l.contextStack, l.entriesNextIndex, type, <<t, 1>>, <<>>)
      /\ l'.callType = l.callType /\ l'.skipNextContext = TRUE
      /\ l'.stepResultEntry = l.stepResultEntry /\ l'.firstTransaction = l.firstTransaction
      /\ l'.recordTransactionOnly = TRUE
  <2> DEFINE to == <<t, 1>>
             k == OnRecordTransaction(OnTransact(l, type, to))
  <2>1. IsListener(l) /\ l' = k
    BY <1>1, <1>2
  <2> HIDE DEF F, G, fr, t, l
  <2>2. k = OnRecordTransaction(OnTransact(l, type, to))
    OBVIOUS
  <2> HIDE DEF to, k
  <2>3. Transacted(l, k, type, to)
    BY <2>1, <2>2, TransactIs
  <2> QED BY <2>1, <2>3 DEF to, Transacted
<1>8. l.contextStack = <<>>
  <2>1. l.contextStack = ContextsOf(t, F, l.entriesNextIndex - Len(F), open)
    BY <1>1 DEF Good
  <2> QED BY <1>3, <2>1 DEF ContextsOf
<1>9. l'.contextStack =
        Append(Bump(l.contextStack), [index |-> l.entriesNextIndex, type |-> fr.type,
               to |-> <<t, Len(F) + 1>>, trace |-> ChildPath(l.contextStack), subtraces |-> 0])
  <2>1. Bump(l.contextStack) = l.contextStack /\ ChildPath(l.contextStack) = <<>>
    BY <1>8 DEF Bump, ChildPath
  <2> HIDE DEF fr
  <2> QED BY Zenon, <1>4, <1>5, <1>7, <2>1 DEF Pushed
<1> HIDE DEF fr, G, F, t
<1>10. Good(l.entries, l.entriesNextIndex + 1,
            Append(Bump(l.contextStack), [index |-> l.entriesNextIndex, type |-> fr.type,
               to |-> <<t, Len(F) + 1>>, trace |-> ChildPath(l.contextStack), subtraces |-> 0]),
            t, Append(F, fr), Append(open, Len(F) + 1))
  BY <1>1, <1>3, <1>4, PushGood
<1>11. Good(l'.entries, l'.entriesNextIndex, l'.contextStack, t, G, open')
  <2>1. open' = Append(open, Len(F) + 1)
    BY <1>3, <1>5, <1>6
  <2> QED BY Zenon, <1>7, <1>9, <1>10, <2>1 DEF G
<1>12. l'.entriesNextIndex \in Nat /\ open' \in Seq(Nat) /\ open' # <<>>
  BY <1>6, <1>11, GoodIndex
<1>13. l.callType \in CallTypes \cup {"call", NoType} /\ l.stepResultEntry = <<>>
  BY <1>1 DEF Typed
<1>14. ~G[1].entered
  BY <1>4, <1>5
<1> QED BY <1>1, <1>5, <1>6, <1>7, <1>11, <1>12, <1>13, <1>14, NextHolds DEF t

\* The innermost frame makes another.
LEMMA SubFrameKeeps ==
    ASSUME Holds(listener, block, open), InContract, NEW type \in Kinds, OpenFrame(type),
           IsListener(listener'), listener'.version = listener.version,
           listener'.entries = listener.entries,
           listener'.entriesNextIndex = listener.entriesNextIndex + 1,
           listener'.contextStack = Pushed(Bump(listener.contextStack), listener.entriesNextIndex,
                type, NextContract, ChildPath(listener.contextStack)),
           listener'.callType \in CallTypes \cup {"call", NoType}, listener'.skipNextContext = FALSE,
           listener'.stepResultEntry = listener.stepResultEntry,
           listener'.firstTransaction = listener.firstTransaction,
           listener'.recordTransactionOnly = FALSE
    PROVE  Holds(listener, block, open)'
<1> DEFINE l == listener
           F == Frames
           t == Transaction
           fr == [type |-> type, parent |-> Last(open), res |-> "open", entered |-> TRUE]
           G == Append(F, fr)
<1>1. /\ Typed(l, block, open) /\ IsListener(l) /\ open \in Seq(Nat) /\ block # <<>>
      /\ Good(l.entries, l.entriesNextIndex, l.contextStack, t, F, open)
      /\ F \in Seq(Frame) /\ Extends(l.entries, l.entries)
  BY Unpacked DEF InContract
<1>2. /\ Running /\ RootEntered /\ 1 \in 1 .. Len(F) /\ l.version = "early"
      /\ Caller(open) = Last(open) /\ Last(open) \in 1 .. Len(F)
  BY RunningIs DEF InContract
<1>3. fr \in Frame /\ fr.parent = Caller(open) /\ fr.type = type
  BY <1>2 DEF Frame, Results
<1>4. G \in Seq(Frame) /\ G # <<>> /\ G[1] = F[1]
  <2> HIDE DEF fr, F
  <2> QED BY <1>1, <1>2, <1>3
<1>5. block' = [block EXCEPT ![t] = G] /\ open' = Append(open, Len(F) + 1)
  BY <1>2 DEF OpenFrame, Frames
<1>6. G[1].entered
  BY <1>2, <1>4 DEF RootEntered
<1> HIDE DEF fr
<1>7. l'.contextStack =
        Append(Bump(l.contextStack), [index |-> l.entriesNextIndex, type |-> fr.type,
               to |-> <<t, Len(F) + 1>>, trace |-> ChildPath(l.contextStack), subtraces |-> 0])
  BY Zenon, <1>3 DEF Pushed, NextContract
<1> HIDE DEF G, F, t
<1>8. Good(l.entries, l.entriesNextIndex + 1,
           Append(Bump(l.contextStack), [index |-> l.entriesNextIndex, type |-> fr.type,
               to |-> <<t, Len(F) + 1>>, trace |-> ChildPath(l.contextStack), subtraces |-> 0]),
           t, Append(F, fr), Append(open, Len(F) + 1))
  BY <1>1, <1>3, PushGood
<1>9. Good(l'.entries, l'.entriesNextIndex, l'.contextStack, t, G, open')
  BY Zenon, <1>5, <1>7, <1>8 DEF G
<1>10. l'.entriesNextIndex \in Nat /\ open' \in Seq(Nat)
  <2>1. Len(F) + 1 \in Nat
    BY <1>1
  <2> QED BY <1>1, <1>5, <1>9, <2>1, GoodIndex
<1>11. l.stepResultEntry = <<>>
  BY <1>1 DEF Typed
<1> QED BY <1>1, <1>2, <1>4, <1>5, <1>6, <1>9, <1>10, <1>11, NextHolds DEF t

\* The innermost frame ends.
LEMMA CloseKeeps ==
    ASSUME Holds(listener, block, open), Running, NEW r \in Results, CloseFrame(r),
           IsListener(listener'), listener'.version = listener.version,
           listener'.entries = Inserted(listener.entries, Last(listener.contextStack).index,
                                        EntryOf(Last(listener.contextStack), r)),
           listener'.entriesNextIndex = listener.entriesNextIndex,
           listener'.contextStack = Front(listener.contextStack),
           listener'.callType = listener.callType,
           listener'.skipNextContext = listener.skipNextContext,
           listener'.stepResultEntry = <<>>,
           listener'.firstTransaction = listener.firstTransaction,
           listener'.recordTransactionOnly = FALSE
    PROVE  Holds(listener, block, open)'
<1> DEFINE l == listener
           F == Frames
           t == Transaction
           p == Last(open)
           G == [F EXCEPT ![p].res = r]
<1>1. /\ Typed(l, block, open) /\ IsListener(l) /\ open \in Seq(Nat) /\ block # <<>>
      /\ Good(l.entries, l.entriesNextIndex, l.contextStack, t, F, open)
      /\ F \in Seq(Frame) /\ Extends(l.entries, l.entries) /\ Listed(l.entries)
  BY Unpacked, RunningIs
<1>2. /\ open # <<>> /\ 1 \in 1 .. Len(F) /\ l.version = "early" /\ p \in 1 .. Len(F)
      /\ l.skipNextContext = ~RootEntered
  BY RunningIs
<1>3. block' = [block EXCEPT ![t] = G] /\ open' = Front(open)
  BY DEF CloseFrame, Frames
<1>4. G \in Seq(Frame) /\ G # <<>> /\ G[1].entered = F[1].entered
  <2>1. F[p] \in Frame /\ F[1] \in Frame
    BY <1>1, <1>2
  <2>2. [F[p] EXCEPT !.res = r] \in Frame /\ [F[p] EXCEPT !.res = r].entered = F[p].entered
    BY <2>1 DEF Frame
  <2>3. G = [F EXCEPT ![p] = [F[p] EXCEPT !.res = r]]
    OBVIOUS
  <2> HIDE DEF G, F, p
  <2>4. G \in Seq(Frame) /\ Len(G) = Len(F)
    BY <1>1, <1>2, <2>2, <2>3
  <2>5. G[1].entered = F[1].entered
    <3>1. CASE p = 1
      BY <1>1, <1>2, <2>2, <2>3, <3>1
    <3>2. CASE p # 1
      BY <1>1, <1>2, <2>3, <3>2
    <3> QED BY <3>1, <3>2
  <2>6. G # <<>>
    BY <1>2, <2>4
  <2> QED BY <2>4, <2>5, <2>6
<1> HIDE DEF F, t
<1>5. Good(Inserted(l.entries, Last(l.contextStack).index, EntryOf(Last(l.contextStack), r)),
           l.entriesNextIndex, Front(l.contextStack), t,
           [F EXCEPT ![Last(open)].res = r], Front(open))
  BY <1>1, <1>2, PopGood
<1>6. Good(l'.entries, l'.entriesNextIndex, l'.contextStack, t, G, open')
  BY Zenon, <1>3, <1>5
<1>7. Extends(l'.entries, l.entries)
  BY <1>1, ExtendsInserted
<1>8. l'.entriesNextIndex \in Nat /\ open' \in Seq(Nat)
  <2>1. Front(open) \in Seq(Nat)
    BY <1>1, <1>2 DEF Front
  <2> QED BY <1>3, <1>6, <2>1, GoodIndex
<1>9. /\ l.callType \in CallTypes \cup {"call", NoType} /\ l.skipNextContext \in BOOLEAN
      /\ l.firstTransaction = l'.firstTransaction
  BY <1>1 DEF Typed
<1>10. l'.skipNextContext = ~G[1].entered
  BY Zenon, <1>2, <1>4 DEF RootEntered, F
<1> HIDE DEF G
<1> QED BY <1>1, <1>2, <1>3, <1>4, <1>6, <1>7, <1>8, <1>9, <1>10, NextHolds DEF t

-----------------------------------------------------------------------------
(* The events of each step, from the first to the last                     *)

\* A context for a frame of the given type in the innermost.
Called(l, k, type, to) ==
    /\ IsListener(k) /\ k.version = l.version /\ k.entries = l.entries
    /\ k.entriesNextIndex = l.entriesNextIndex + 1
    /\ k.contextStack = Pushed(Bump(l.contextStack), l.entriesNextIndex, type, to,
                               ChildPath(l.contextStack))
    /\ k.callType \in CallTypes \cup {"call", NoType} /\ k.skipNextContext = FALSE
    /\ k.stepResultEntry = l.stepResultEntry /\ k.firstTransaction = l.firstTransaction
    /\ k.recordTransactionOnly = FALSE

LEMMA SubCallIs ==
    ASSUME NEW l, IsListener(l), ~l.skipNextContext, NEW type \in CallTypes,
           NEW isStatic, NEW to, NEW k, k = OnCall(OnTrap(l, type), isStatic, to)
    PROVE  Called(l, k, type, to)
<1> DEFINE a == OnTrap(l, type)
<1>1. /\ IsListener(a) /\ a.version = l.version /\ a.entries = l.entries
      /\ a.entriesNextIndex = l.entriesNextIndex /\ a.contextStack = l.contextStack
      /\ a.callType = type /\ a.skipNextContext = l.skipNextContext
      /\ a.stepResultEntry = l.stepResultEntry /\ a.firstTransaction = l.firstTransaction
      /\ a.recordTransactionOnly = l.recordTransactionOnly
  BY TrapIs
<1>2. type # NoType
  BY CallListAssumption DEF NoType
<1>3. k = OnCall(a, isStatic, to)
  OBVIOUS
<1> HIDE DEF a
<1>4. k = EnterContext(a, type, to)
  BY <1>1, <1>2, <1>3 DEF OnCall
<1>5. Entered(a, k, type, to)
  BY <1>1, <1>4, EnterIs
<1> QED BY <1>1, <1>5 DEF Called, Entered

LEMMA SubCreateIs ==
    ASSUME NEW l, IsListener(l), ~l.skipNextContext, l.callType \in CallTypes \cup {"call", NoType},
           NEW to, NEW k, k = OnCreate(OnTrap(l, "create"), to)
    PROVE  Called(l, k, "create", to)
<1>1. OnTrap(l, "create") = l
  BY CallListAssumption DEF OnTrap
<1>2. k = EnterContext(l, "create", to)
  BY <1>1 DEF OnCreate
<1> DEFINE type == "create"
<1> HIDE DEF type
<1>3. Entered(l, k, type, to)
  <2>1. k = EnterContext(l, type, to)
    BY <1>2 DEF type
  <2> QED BY <2>1, EnterIs
<1> QED BY <1>3 DEF Called, Entered, type

\* A precompile's call is a "call", whatever was trapped before.
LEMMA PrecompileCallIs ==
    ASSUME NEW l, IsListener(l), ~l.skipNextContext, NEW to,
           NEW k, k = OnCall(OnPrecompileSubcall(l), FALSE, to)
    PROVE  Called(l, k, "call", to)
<1> DEFINE a == OnPrecompileSubcall(l)
           type == "call"
<1>1. /\ IsListener(a) /\ a.version = l.version /\ a.entries = l.entries
      /\ a.entriesNextIndex = l.entriesNextIndex /\ a.contextStack = l.contextStack
      /\ a.callType = type /\ a.skipNextContext = l.skipNextContext
      /\ a.stepResultEntry = l.stepResultEntry /\ a.firstTransaction = l.firstTransaction
      /\ a.recordTransactionOnly = l.recordTransactionOnly
  BY SubcallIs
<1>2. type # NoType
  BY DEF NoType
<1>3. k = OnCall(a, FALSE, to)
  OBVIOUS
<1> HIDE DEF a, type
<1>4. k = EnterContext(a, type, to)
  BY <1>1, <1>2, <1>3 DEF OnCall
<1>5. Entered(a, k, type, to)
  BY <1>1, <1>4, EnterIs
<1> QED BY <1>1, <1>5 DEF Called, Entered, type

\* The innermost context becomes an entry.
Exited(l, k, r) ==
    /\ IsListener(k) /\ k.version = l.version
    /\ k.entries = Inserted(l.entries, Last(l.contextStack).index, EntryOf(Last(l.contextStack), r))
    /\ k.entriesNextIndex = l.entriesNextIndex /\ k.contextStack = Front(l.contextStack)
    /\ k.callType = l.callType /\ k.skipNextContext = l.skipNextContext
    /\ k.stepResultEntry = <<>> /\ k.firstTransaction = l.firstTransaction
    /\ k.recordTransactionOnly = FALSE

LEMMA ExitPops ==
    ASSUME NEW l, IsListener(l), l.contextStack # <<>>, l.stepResultEntry = <<>>,
           NEW r, NEW k, k = OnExit(l, r)
    PROVE  Exited(l, k, r)
BY ExitIs DEF Exited

LEMMA StepExitPops ==
    ASSUME NEW l, IsListener(l), l.contextStack # <<>>, l.version = "early",
           NEW r, NEW k, k = OnExit(OnStepExit(l, r), r)
    PROVE  Exited(l, k, r)
<1> DEFINE a == OnStepExit(l, r)
           key == Last(l.contextStack).index
           x == EntryOf(Last(l.contextStack), r)
<1>1. /\ IsListener(a) /\ a.version = l.version /\ a.entries = l.entries
      /\ a.entriesNextIndex = l.entriesNextIndex /\ a.contextStack = Front(l.contextStack)
      /\ a.callType = l.callType /\ a.skipNextContext = l.skipNextContext
      /\ a.stepResultEntry = <<key, x>> /\ a.firstTransaction = l.firstTransaction
      /\ a.recordTransactionOnly = l.recordTransactionOnly
  BY StepExitIs
<1>2. k = OnExit(a, r)
  OBVIOUS
<1> HIDE DEF a, key, x
<1>3. StepExited(a, k, key, x)
  BY <1>1, <1>2, ExitStepIs
<1> QED BY <1>1, <1>3 DEF Exited, StepExited, key, x

\* A leaf for a contract that was destroyed.
Destroyed(l, k, to) ==
    /\ IsListener(k) /\ k.version = l.version
    /\ k.entries = Inserted(l.entries, l.entriesNextIndex,
                            Entry("selfdestruct", to, ChildPath(l.contextStack), 0, "none"))
    /\ k.entriesNextIndex = l.entriesNextIndex + 1 /\ k.contextStack = Bump(l.contextStack)
    /\ k.callType = l.callType /\ k.skipNextContext = l.skipNextContext
    /\ k.stepResultEntry = l.stepResultEntry /\ k.firstTransaction = l.firstTransaction
    /\ k.recordTransactionOnly = l.recordTransactionOnly

LEMMA SuicideLeaves ==
    ASSUME NEW l, IsListener(l), NEW to, NEW k, k = OnSuicide(l, to)
    PROVE  Destroyed(l, k, to)
BY SuicideIs DEF Destroyed

-----------------------------------------------------------------------------
(* The actions                                                             *)

LEMMA CalledKeeps ==
    ASSUME Holds(listener, block, open), InContract, NEW type \in Kinds, OpenFrame(type),
           Called(listener, listener', type, NextContract)
    PROVE  Holds(listener, block, open)'
BY SubFrameKeeps DEF Called

\* What the listener is while the root is running.
LEMMA InContractIs ==
    ASSUME Holds(listener, block, open), InContract
    PROVE  /\ IsListener(listener) /\ ~listener.skipNextContext
           /\ listener.callType \in CallTypes \cup {"call", NoType}
           /\ listener.contextStack # <<>> /\ listener.stepResultEntry = <<>>
           /\ listener.version = "early" /\ Running
<1>1. Running /\ RootEntered
  BY DEF InContract
<1>2. listener.version = "early" /\ listener.skipNextContext = ~RootEntered /\ listener.contextStack # <<>>
  BY <1>1, RunningIs
<1>3. Typed(listener, block, open)
  BY Unpacked
<1> QED BY <1>1, <1>2, <1>3 DEF Typed

LEMMA SubCallKeeps ==
    ASSUME Holds(listener, block, open), NEW type \in CallTypes, SubCall(type)
    PROVE  Holds(listener, block, open)'
<1>1. /\ InContract /\ OpenFrame(type)
      /\ listener' = OnCall(OnTrap(listener, type), type = "staticcall", NextContract)
  BY DEF SubCall
<1>2. IsListener(listener) /\ ~listener.skipNextContext
  BY <1>1, InContractIs
<1> DEFINE isStatic == type = "staticcall"
<1> HIDE DEF isStatic
<1>3. listener' = OnCall(OnTrap(listener, type), isStatic, NextContract)
  BY <1>1 DEF isStatic
<1>4. Called(listener, listener', type, NextContract)
  BY <1>2, <1>3, SubCallIs
<1>5. type \in Kinds
  BY DEF Kinds
<1> QED BY <1>1, <1>4, <1>5, CalledKeeps

LEMMA SubCreateKeeps ==
    ASSUME Holds(listener, block, open), SubCreate
    PROVE  Holds(listener, block, open)'
<1>1. /\ InContract /\ OpenFrame("create")
      /\ listener' = OnCreate(OnTrap(listener, "create"), NextContract)
  BY DEF SubCreate
<1>2. Called(listener, listener', "create", NextContract)
  BY <1>1, InContractIs, SubCreateIs
<1>3. "create" \in Kinds
  BY DEF Kinds
<1> QED BY <1>1, <1>2, <1>3, CalledKeeps

LEMMA PrecompileSubcallKeeps ==
    ASSUME Holds(listener, block, open), PrecompileSubcall
    PROVE  Holds(listener, block, open)'
<1>1. /\ InContract /\ OpenFrame("call")
      /\ listener' = OnCall(OnPrecompileSubcall(listener), FALSE, NextContract)
  BY DEF PrecompileSubcall
<1>2. Called(listener, listener', "call", NextContract)
  BY <1>1, InContractIs, PrecompileCallIs
<1>3. "call" \in Kinds
  BY DEF Kinds
<1> QED BY <1>1, <1>2, <1>3, CalledKeeps

LEMMA ExitedKeeps ==
    ASSUME Holds(listener, block, open), Running, NEW r \in Results, CloseFrame(r),
           Exited(listener, listener', r)
    PROVE  Holds(listener, block, open)'
BY CloseKeeps DEF Exited

LEMMA DataUnpaidKeeps ==
    ASSUME Holds(listener, block, open), DataUnpaid
    PROVE  Holds(listener, block, open)'
<1>1. Running /\ CloseFrame("error") /\ listener' = OnExit(listener, "error")
  BY DEF DataUnpaid
<1>2. IsListener(listener) /\ listener.contextStack # <<>> /\ listener.stepResultEntry = <<>>
  BY <1>1, RunningIs, Unpacked DEF Typed
<1>3. Exited(listener, listener', "error")
  BY <1>1, <1>2, ExitPops
<1>4. "error" \in Results
  BY CallListAssumption DEF Results
<1> QED BY <1>1, <1>3, <1>4, ExitedKeeps

LEMMA ExitWithoutCodeKeeps ==
    ASSUME Holds(listener, block, open), NEW r \in Reasons, ExitWithoutCode(r)
    PROVE  Holds(listener, block, open)'
<1>1. InContract /\ CloseFrame(r) /\ listener' = OnExit(listener, r)
  BY DEF ExitWithoutCode
<1>2. /\ IsListener(listener) /\ listener.contextStack # <<>> /\ listener.stepResultEntry = <<>>
      /\ Running
  BY <1>1, InContractIs
<1>3. Exited(listener, listener', r)
  BY <1>1, <1>2, ExitPops
<1>4. r \in Results
  BY DEF Results
<1> QED BY <1>1, <1>2, <1>3, <1>4, ExitedKeeps

LEMMA ExitFromCodeKeeps ==
    ASSUME Holds(listener, block, open), NEW r \in Reasons, ExitFromCode(r)
    PROVE  Holds(listener, block, open)'
<1>1. InContract /\ CloseFrame(r) /\ listener' = OnExit(OnStepExit(listener, r), r)
  BY DEF ExitFromCode
<1>2. /\ IsListener(listener) /\ listener.contextStack # <<>> /\ listener.version = "early"
      /\ Running
  BY <1>1, InContractIs
<1>3. Exited(listener, listener', r)
  BY <1>1, <1>2, StepExitPops
<1>4. r \in Results
  BY DEF Results
<1> QED BY <1>1, <1>2, <1>3, <1>4, ExitedKeeps

LEMMA EnterRootKeeps ==
    ASSUME Holds(listener, block, open), EnterRoot
    PROVE  Holds(listener, block, open)'
<1> DEFINE l == listener
           F == Frames
           t == Transaction
           G == [F EXCEPT ![1].entered = TRUE]
<1>1. /\ Typed(l, block, open) /\ IsListener(l) /\ open \in Seq(Nat) /\ block # <<>>
      /\ Good(l.entries, l.entriesNextIndex, l.contextStack, t, F, open)
      /\ F \in Seq(Frame) /\ Extends(l.entries, l.entries)
  BY Unpacked DEF EnterRoot
<1>2. Running /\ ~RootEntered /\ block' = [block EXCEPT ![t][1].entered = TRUE] /\ open' = open
  BY DEF EnterRoot
<1>3. /\ 1 \in 1 .. Len(F) /\ l.version = "early" /\ l.skipNextContext = ~RootEntered
  BY <1>2, RunningIs
<1>4. block' = [block EXCEPT ![t] = G]
  BY <1>2 DEF Frames
<1>5. /\ IsListener(l') /\ l'.version = l.version /\ l'.entries = l.entries
      /\ l'.entriesNextIndex = l.entriesNextIndex /\ l'.contextStack = l.contextStack
      /\ l'.callType = l.callType /\ l'.skipNextContext = FALSE
      /\ l'.stepResultEntry = l.stepResultEntry /\ l'.firstTransaction = l.firstTransaction
      /\ l'.recordTransactionOnly = FALSE
  <2>1. l.skipNextContext
    BY <1>2, <1>3
  <2>2. CASE F[1].type = "create"
    <3>1. l' = EnterContext(l, "create", <<t, 1>>)
      BY <2>2 DEF EnterRoot, OnCreate
    <3> HIDE DEF l, F, t, G
    <3> QED BY <1>1, <2>1, <3>1, EnterRootIs DEF l
  <2>3. CASE F[1].type # "create"
    <3>1. l' = OnCall(l, FALSE, <<t, 1>>)
      BY <2>3 DEF EnterRoot
    <3> HIDE DEF l, F, t, G
    <3> QED BY <1>1, <2>1, <3>1, CallRootIs DEF l
  <2> QED BY <2>2, <2>3
<1> HIDE DEF F, t
<1>6. /\ G \in Seq(Frame) /\ G[1].entered /\ G # <<>>
      /\ Good(l.entries, l.entriesNextIndex, l.contextStack, t, G, open)
  <2>1. RootGood(l.entries, l.entriesNextIndex, l.contextStack, t, [F EXCEPT ![1].entered = TRUE], open)
    <3> HIDE DEF l, G
    <3> QED BY <1>1, <1>3, EnterGood
  <2> QED BY Zenon, <2>1 DEF RootGood
<1>7. Good(l'.entries, l'.entriesNextIndex, l'.contextStack, t, G, open')
  BY Zenon, <1>2, <1>5, <1>6
<1>8. /\ l.entriesNextIndex \in Nat /\ l.callType \in CallTypes \cup {"call", NoType}
      /\ l.stepResultEntry = <<>>
  BY <1>1 DEF Typed
<1> HIDE DEF G
<1> QED BY <1>1, <1>2, <1>3, <1>4, <1>5, <1>6, <1>7, <1>8, NextHolds DEF t

LEMMA SelfDestructKeeps ==
    ASSUME Holds(listener, block, open), SelfDestruct
    PROVE  Holds(listener, block, open)'
<1> DEFINE l == listener
           F == Frames
           t == Transaction
           p == Last(open)
           to == NextContract
           a == OnSuicide(l, to)
           fr == [type |-> "selfdestruct", parent |-> p, res |-> "none", entered |-> TRUE]
           D == Append(F, fr)
           G == [D EXCEPT ![p].res = "succeed"]
           x == Entry("selfdestruct", to, ChildPath(l.contextStack), 0, "none")
           e == Inserted(l.entries, l.entriesNextIndex, x)
           c == Bump(l.contextStack)
<1>1. /\ Typed(l, block, open) /\ IsListener(l) /\ open \in Seq(Nat) /\ block # <<>>
      /\ Good(l.entries, l.entriesNextIndex, l.contextStack, t, F, open)
      /\ F \in Seq(Frame) /\ Extends(l.entries, l.entries) /\ Listed(l.entries)
  BY Unpacked DEF SelfDestruct, InContract
<1>2. /\ Running /\ RootEntered /\ open # <<>> /\ 1 \in 1 .. Len(F) /\ l.version = "early"
      /\ Caller(open) = p /\ p \in 1 .. Len(F) /\ l.skipNextContext = ~RootEntered
  BY RunningIs DEF SelfDestruct, InContract
<1>3. /\ l' = OnExit(OnStepExit(a, "succeed"), "succeed") /\ open' = Front(open)
      /\ block' = [block EXCEPT ![t] = Append([F EXCEPT ![p].res = "succeed"], fr)]
  BY DEF SelfDestruct, Frames
<1>4. fr \in Frame /\ fr.parent = Caller(open) /\ fr.type = "selfdestruct" /\ fr.res = "none"
      /\ "succeed" \in Results /\ to = <<t, Len(F) + 1>>
  BY <1>2, CallListAssumption DEF Frame, Kinds, Results, NextContract
<1>5. F[p] \in Frame /\ [F[p] EXCEPT !.res = "succeed"] \in Frame
      /\ [F[p] EXCEPT !.res = "succeed"].entered = F[p].entered
  <2>1. F[p] \in Frame
    BY <1>1, <1>2
  <2> HIDE DEF F, p
  <2>2. "succeed" \in Results
    BY <1>4
  <2> QED BY <2>1, <2>2 DEF Frame
<1> HIDE DEF fr, p
<1>6. Append([F EXCEPT ![p].res = "succeed"], fr) = G
  <2> DEFINE y == [F[p] EXCEPT !.res = "succeed"]
             A == [F EXCEPT ![p] = y]
             B == [D EXCEPT ![p] = y]
  <2>1. D[p] = F[p] /\ D \in Seq(Frame) /\ Len(D) = Len(F) + 1
    BY <1>1, <1>2, <1>4
  <2>2. [F EXCEPT ![p].res = "succeed"] = A
    OBVIOUS
  <2>3. G = B
    <3> HIDE DEF D
    <3> QED BY Zenon, <2>1
  <2> HIDE DEF G, y, F
  <2>4. A \in Seq(Frame) /\ Len(A) = Len(F) /\ \A i \in 1 .. Len(F) : A[i] = IF i = p THEN y ELSE F[i]
    BY <1>1, <1>2, <1>5 DEF y
  <2>5. y \in Frame /\ p \in 1 .. Len(D)
    BY <1>1, <1>2, <1>5, <2>1 DEF y
  <2>6. \A i \in 1 .. Len(F) : D[i] = F[i]
    BY <1>1, <1>4
  <2>7. D[Len(F) + 1] = fr /\ Len(F) \in Nat
    BY <1>1, <1>4
  <2> HIDE DEF D
  <2>8. B \in Seq(Frame) /\ Len(B) = Len(F) + 1
        /\ \A i \in 1 .. Len(F) + 1 : B[i] = IF i = p THEN y ELSE D[i]
    BY <2>1, <2>5
  <2> HIDE DEF A, B
  <2>9. Append(A, fr) \in Seq(Frame) /\ Len(Append(A, fr)) = Len(F) + 1
        /\ Append(A, fr)[Len(F) + 1] = fr /\ \A i \in 1 .. Len(F) : Append(A, fr)[i] = A[i]
    BY <1>4, <2>4
  <2>10. \A i \in 1 .. Len(F) + 1 : Append(A, fr)[i] = B[i]
    <3> TAKE i \in 1 .. Len(F) + 1
    <3>1. CASE i \in 1 .. Len(F)
      BY <2>4, <2>6, <2>8, <2>9, <3>1
    <3>2. CASE i = Len(F) + 1
      BY <1>2, <2>7, <2>8, <2>9, <3>2
    <3>3. \A m \in Nat : \A j \in 1 .. m + 1 : j \in 1 .. m \/ j = m + 1
      BY ONLY TRUE
    <3>4. i \in 1 .. Len(F) \/ i = Len(F) + 1
      BY Zenon, <2>7, <3>3
    <3> QED BY Zenon, <3>1, <3>2, <3>4
  <2>11. Append(A, fr) = B
    BY <2>8, <2>9, <2>10, SeqEqual
  <2> QED BY Zenon, <2>2, <2>3, <2>11
<1>7. G \in Seq(Frame) /\ G # <<>> /\ G[1].entered = F[1].entered
  <2> DEFINE A == [F EXCEPT ![p].res = "succeed"]
             y == [F[p] EXCEPT !.res = "succeed"]
  <2>1. A = [F EXCEPT ![p] = y]
    OBVIOUS
  <2>2. y \in Frame /\ y.entered = F[p].entered
    BY <1>5
  <2>3. G = Append(A, fr)
    BY <1>6
  <2> HIDE DEF A, y, G, F
  <2>4. A \in Seq(Frame) /\ Len(A) = Len(F) /\ A[1] = IF p = 1 THEN y ELSE F[1]
    BY <1>1, <1>2, <2>1, <2>2
  <2>5. Append(A, fr) \in Seq(Frame) /\ Append(A, fr)[1] = A[1] /\ Append(A, fr) # <<>>
    BY <1>2, <1>4, <2>4
  <2> QED BY <2>2, <2>3, <2>4, <2>5
<1>8. Destroyed(l, a, to)
  <2> HIDE DEF to
  <2> QED BY <1>1, SuicideLeaves
<1> HIDE DEF F, t
<1>9. Good(e, l.entriesNextIndex + 1, c, t, D, open)
  <2>1. Good(Inserted(l.entries, l.entriesNextIndex,
                      Entry(fr.type, <<t, Len(F) + 1>>, ChildPath(l.contextStack), 0, fr.res)),
             l.entriesNextIndex + 1, Bump(l.contextStack), t, Append(F, fr), open)
    BY <1>1, <1>4, LeafGood
  <2> HIDE DEF to
  <2> QED BY Zenon, <1>4, <2>1
<1>10. /\ IsListener(a) /\ a.version = "early" /\ a.entries = e
       /\ a.entriesNextIndex = l.entriesNextIndex + 1 /\ a.contextStack = c
       /\ a.callType = l.callType /\ a.skipNextContext = l.skipNextContext
       /\ a.firstTransaction = l.firstTransaction
  <2> HIDE DEF a, to
  <2> QED BY <1>2, <1>8 DEF Destroyed
<1>11. D \in Seq(Frame)
  BY <1>1, <1>4
<1> HIDE DEF a, D, e, c, to
<1>12. /\ c # <<>>
       /\ Good(Inserted(e, Last(c).index, EntryOf(Last(c), "succeed")), l.entriesNextIndex + 1,
               Front(c), t, [D EXCEPT ![Last(open)].res = "succeed"], Front(open))
  BY <1>1, <1>2, <1>4, <1>9, <1>11, PopGood
<1>13. Exited(a, l', "succeed")
  BY <1>3, <1>10, <1>12, StepExitPops
<1>14. Good(l'.entries, l'.entriesNextIndex, l'.contextStack, t, G, open')
  <2>1. /\ l'.entries = Inserted(e, Last(c).index, EntryOf(Last(c), "succeed"))
        /\ l'.entriesNextIndex = l.entriesNextIndex + 1 /\ l'.contextStack = Front(c)
    BY <1>10, <1>13 DEF Exited
  <2> QED BY Zenon, <1>3, <1>12, <2>1 DEF p
<1>15. Extends(l'.entries, l.entries)
  <2>1. Listed(e) /\ Extends(e, l.entries)
    BY <1>1, <1>9, ExtendsInserted DEF Good, e
  <2>2. l'.entries = Inserted(e, Last(c).index, EntryOf(Last(c), "succeed"))
    BY <1>10, <1>13 DEF Exited
  <2> QED BY <1>1, <2>1, <2>2, ExtendsInserted
<1>16. /\ IsListener(l') /\ l'.version = "early" /\ l'.callType = l.callType
       /\ l'.skipNextContext = l.skipNextContext /\ l'.stepResultEntry = <<>>
       /\ l'.firstTransaction = l.firstTransaction /\ l'.recordTransactionOnly = FALSE
  BY <1>10, <1>13 DEF Exited
<1>17. l'.entriesNextIndex \in Nat /\ open' \in Seq(Nat)
  <2>1. Front(open) \in Seq(Nat)
    BY <1>1, <1>2 DEF Front
  <2> QED BY <1>3, <1>14, <2>1, GoodIndex
<1>18. l.callType \in CallTypes \cup {"call", NoType} /\ l.skipNextContext \in BOOLEAN
  BY <1>1 DEF Typed
<1>19. block' = [block EXCEPT ![t] = G]
  BY Zenon, <1>3, <1>6
<1>20. l'.skipNextContext = ~G[1].entered
  BY Zenon, <1>2, <1>7, <1>16 DEF RootEntered, F
<1> HIDE DEF G
<1> QED BY <1>1, <1>7, <1>14, <1>15, <1>16, <1>17, <1>18, <1>19, <1>20, NextHolds DEF t

-----------------------------------------------------------------------------
(* Between transactions                                                    *)

\* When no frame is running every map holds the frames of its transaction.
AllPast(e, bl) == \A i \in 1 .. Len(e) : IsPast(e[i], i + Off(bl), bl[i + Off(bl)])

LEMMA ClosedIs ==
    ASSUME Holds(listener, block, open), ~Running
    PROVE  /\ open = <<>> /\ listener.contextStack = <<>> /\ ~listener.recordTransactionOnly
           /\ block # <<>> => /\ Len(listener.entries) = Len(block) - Off(block)
                              /\ AllPast(listener.entries, block)
<1> DEFINE l == listener
           e == l.entries
           n == Len(block)
           f == Off(block)
           F == block[n]
           b == l.entriesNextIndex - Len(F)
<1>1. open = <<>> /\ Mode(l, block, open) /\ Traces(l, block, open) /\ block \in Seq(Seq(Frame))
  BY Unpacked DEF Running
<1>2. ~l.recordTransactionOnly
  BY <1>1 DEF Mode
<1>3. CASE block = <<>>
  BY <1>1, <1>2, <1>3 DEF Traces
<1>4. CASE block # <<>>
  <2>1. /\ Good(e, l.entriesNextIndex, l.contextStack, n, F, open)
        /\ Past(e, block) /\ Counted(e, block)
    BY <1>1, <1>4 DEF Traces
  <2>2. /\ l.entriesNextIndex \in Nat /\ Len(F) <= l.entriesNextIndex
        /\ l.contextStack = ContextsOf(n, F, b, <<>>)
        /\ Current(e) = MapOf(EntriesOf(n, F), b, (1 .. Len(F)) \ OpenSet(<<>>)) /\ Listed(e)
    BY <1>1, <2>1 DEF Good
  <2>3. n \in Nat \ {0} /\ F \in Seq(Frame) /\ Len(F) \in Nat
    BY <1>1, <1>4, LastFrames
  <2> HIDE DEF e, F, n, f
  <2>4. l.contextStack = <<>>
    BY <2>2 DEF ContextsOf
  <2>5. b \in Nat
    BY <2>2, <2>3
  <2> HIDE DEF b
  <2>6. Current(e) = MapOf(EntriesOf(n, F), b, 1 .. Len(F))
    <3>1. OpenSet(<<>>) = {}
      BY DEF OpenSet
    <3>2. (1 .. Len(F)) \ {} = 1 .. Len(F)
      OBVIOUS
    <3> QED BY Zenon, <2>2, <3>1, <3>2
  <2>7. f \in {0, 1} /\ (n = 1 => (f = 1 <=> F = <<>>))
    BY <1>4 DEF Off, f, F, n
  <2>8. Len(e) \in Nat /\ (e = <<>> => Len(e) = 0) /\ (e # <<>> => Len(e) # 0)
    <3>1. PICK S : e \in Seq(S)
      BY <2>2 DEF Listed
    <3> QED BY <3>1
  <2>9. e = <<>> => F = <<>>
    <3> SUFFICES ASSUME e = <<>> PROVE F = <<>>
      OBVIOUS
    <3>1. MapOf(EntriesOf(n, F), b, 1 .. Len(F)) = <<>>
      BY <2>6 DEF Current
    <3>2. {(b + g) - 1 : g \in 1 .. Len(F)} = {}
      <4>1. DOMAIN MapOf(EntriesOf(n, F), b, 1 .. Len(F)) = {(b + g) - 1 : g \in 1 .. Len(F)}
        BY DEF MapOf
      <4>2. DOMAIN <<>> = {}
        OBVIOUS
      <4> QED BY Zenon, <3>1, <4>1, <4>2
    <3>3. Len(F) = 0
      <4>1. Len(F) # 0 => 1 \in 1 .. Len(F)
        BY <2>3
      <4> QED BY <3>2, <4>1
    <3> QED BY <2>3, <3>3
  <2>10. Len(e) = n - f
    <3>1. Len(e) = n - f \/ (e = <<>> /\ n = 1)
      BY <2>1 DEF Counted, n, f
    <3>2. CASE e = <<>> /\ n = 1
      BY <2>7, <2>8, <2>9, <3>2
    <3> QED BY <3>1, <3>2
  <2>11. ASSUME NEW i \in 1 .. Len(e) PROVE IsPast(e[i], i + f, block[i + f])
    <3>1. CASE i = Len(e)
      <4>1. i + f = n
        BY <2>3, <2>7, <2>10, <3>1
      <4>2. e # <<>>
        BY <2>8, <3>1
      <4>3. e[i] = MapOf(EntriesOf(n, F), b, 1 .. Len(F))
        BY Zenon, <2>6, <3>1, <4>2 DEF Current
      <4>4. IsPast(e[i], n, F)
        BY Zenon, <2>5, <4>3 DEF IsPast
      <4> QED BY Zenon, <4>1, <4>4 DEF F
    <3>2. CASE i # Len(e)
      <4>1. i \in 1 .. Len(e) - 1
        BY <2>8, <3>2
      <4> QED BY <2>1, <4>1 DEF Past, f
    <3> QED BY <3>1, <3>2
  <2>12. AllPast(e, block)
    BY <2>11 DEF AllPast, f
  <2> QED BY <1>1, <1>2, <2>4, <2>10, <2>12 DEF e, n, f
<1> QED BY <1>3, <1>4

LEMMA FirstTransactionKeeps ==
    ASSUME Holds(listener, block, open), NewTransaction, block = <<>>
    PROVE  Holds(listener, block, open)'
<1> DEFINE l == listener
           k == listener'
           x == << <<>> >>
<1>1. /\ Typed(l, block, open) /\ Mode(l, block, open) /\ IsListener(l)
      /\ l.entries = <<>> /\ l.contextStack = <<>> /\ open = <<>> /\ ~l.recordTransactionOnly
  <2>1. Typed(l, block, open) /\ Traces(l, block, open) /\ Mode(l, block, open) /\ IsListener(l)
    BY Unpacked
  <2> QED BY <2>1 DEF Traces, Mode
<1>2. k = OnCallListNew(l) /\ open' = open /\ Len(block) < MaxTransactions
  BY DEF NewTransaction, Transaction
<1>3. block' = x
  <2>1. block' = Append(<<>>, <<>>)
    BY DEF NewTransaction
  <2> QED BY <2>1
<1>4. l.firstTransaction
  BY <1>1 DEF Typed
<1>5. /\ IsListener(k) /\ k.version = l.version /\ k.entries = l.entries
      /\ k.entriesNextIndex = l.entriesNextIndex /\ k.contextStack = l.contextStack
      /\ k.callType = l.callType /\ k.skipNextContext = l.skipNextContext
      /\ k.stepResultEntry = l.stepResultEntry /\ k.firstTransaction = FALSE
      /\ k.recordTransactionOnly = l.recordTransactionOnly
  BY <1>1, <1>2, <1>4, NewFirstIs
<1>6. x \in Seq(Seq(Frame)) /\ Len(x) = 1 /\ x # <<>> /\ x[1] = <<>>
  OBVIOUS
<1>7. Typed(k, x, open)
  <2>1. 1 <= MaxTransactions
    BY CallListAssumption
  <2>2. k.firstTransaction = (x = <<>>)
    BY <1>5, <1>6
  <2> HIDE DEF x
  <2> QED BY <1>1, <1>5, <1>6, <2>1, <2>2 DEF Typed
<1>8. Traces(k, x, open)
  <2>1. Listed(<<>>) /\ Current(<<>>) = <<>> /\ Len(<<>>) = 0
    BY DEF Listed, Current
  <2>2. l.entriesNextIndex \in Nat
    BY <1>1 DEF Typed
  <2>3. Good(<<>>, l.entriesNextIndex, <<>>, 1, <<>>, <<>>)
    BY <2>1, <2>2, FreshGood
  <2> HIDE DEF x
  <2>4. Past(<<>>, x) /\ Counted(<<>>, x)
    <3>1. Past(<<>>, x)
      BY <2>1 DEF Past
    <3>2. Counted(<<>>, x)
      BY <1>6 DEF Counted
    <3> QED BY <3>1, <3>2
  <2>5. Good(k.entries, k.entriesNextIndex, k.contextStack, Len(x), x[Len(x)], open)
    BY Zenon, <1>1, <1>5, <1>6, <2>3
  <2>6. Past(k.entries, x) /\ Counted(k.entries, x)
    BY Zenon, <1>1, <1>5, <2>4
  <2> QED BY Zenon, <1>6, <2>5, <2>6 DEF Traces
<1>9. Mode(k, x, open)
  <2> HIDE DEF x
  <2> QED BY <1>1, <1>5 DEF Mode
<1>10. Holds(k, x, open)
  BY <1>7, <1>8, <1>9 DEF Holds
<1> QED BY <1>2, <1>3, <1>10

LEMMA LaterTransactionKeeps ==
    ASSUME Holds(listener, block, open), NewTransaction, block # <<>>
    PROVE  Holds(listener, block, open)'
<1> DEFINE l == listener
           k == listener'
           e == l.entries
           d == Append(e, <<>>)
           x == Append(block, <<>>)
           n == Len(block)
<1>1. k = OnCallListNew(l) /\ open' = open /\ n < MaxTransactions /\ block' = x /\ ~Running
  BY DEF NewTransaction, Transaction
<1>2. /\ open = <<>> /\ l.contextStack = <<>> /\ ~l.recordTransactionOnly
      /\ Len(e) = n - Off(block) /\ AllPast(e, block)
  BY <1>1, ClosedIs
<1>3. Typed(l, block, open) /\ IsListener(l) /\ block \in Seq(Seq(Frame)) /\ Listed(e)
  BY Unpacked
<1>4. ~l.firstTransaction /\ l.entriesNextIndex \in Nat
  BY <1>3 DEF Typed
<1>5. /\ IsListener(k) /\ k.version = l.version /\ k.entries = d
      /\ k.entriesNextIndex = l.entriesNextIndex /\ k.contextStack = l.contextStack
      /\ k.callType = l.callType /\ k.skipNextContext = FALSE
      /\ k.stepResultEntry = l.stepResultEntry /\ k.firstTransaction = l.firstTransaction
      /\ k.recordTransactionOnly = l.recordTransactionOnly
  BY <1>1, <1>2, <1>3, <1>4, NewIs
<1>6. /\ Listed(d) /\ Current(d) = <<>> /\ Len(e) \in Nat /\ Len(d) = Len(e) + 1 /\ d # <<>>
      /\ \A i \in 1 .. Len(e) : d[i] = e[i]
  BY <1>3, ListedGrows
<1> HIDE DEF d, e
<1>7. /\ x \in Seq(Seq(Frame)) /\ Len(x) = n + 1 /\ x # <<>> /\ x[n + 1] = <<>>
      /\ n \in Nat \ {0} /\ \A i \in 1 .. n : x[i] = block[i]
  <2> DEFINE S == Seq(Frame)
  <2>1. <<>> \in S /\ block \in Seq(S)
    BY <1>3
  <2> HIDE DEF S
  <2>2. /\ x \in Seq(S) /\ Len(x) = n + 1 /\ x # <<>> /\ x[n + 1] = <<>>
        /\ n \in Nat \ {0} /\ \A i \in 1 .. n : x[i] = block[i]
    BY <2>1
  <2> QED BY <2>2 DEF S
<1>8. n + 1 <= MaxTransactions
  BY <1>1, <1>7, CallListAssumption
<1> HIDE DEF x, n
<1>9. Typed(k, x, open)
  <2>1. k.firstTransaction = (x = <<>>)
    BY <1>3, <1>4, <1>5, <1>7 DEF Typed
  <2> QED BY <1>3, <1>4, <1>5, <1>7, <1>8, <1>2, <2>1 DEF Typed
<1>10. Off(x) = Off(block) /\ Off(block) \in {0, 1}
  <2>1. 1 \in 1 .. n
    BY <1>7
  <2>2. x[1] = block[1]
    BY <1>7, <2>1
  <2> QED BY <1>7, <2>2 DEF Off
<1>11. Traces(k, x, open)
  <2>1. Good(d, l.entriesNextIndex, <<>>, n + 1, <<>>, <<>>)
    BY <1>4, <1>6, FreshGood
  <2>2. Good(k.entries, k.entriesNextIndex, k.contextStack, Len(x), x[Len(x)], open)
    BY Zenon, <1>2, <1>5, <1>7, <2>1
  <2>3. Counted(d, x)
    BY <1>2, <1>6, <1>7, <1>10 DEF Counted
  <2>4. ASSUME NEW i \in 1 .. Len(d) - 1 PROVE IsPast(d[i], i + Off(x), x[i + Off(x)])
    <3>1. i \in 1 .. Len(e) /\ i + Off(block) \in 1 .. n
      BY <1>2, <1>6, <1>7, <1>10
    <3>2. d[i] = e[i] /\ x[i + Off(block)] = block[i + Off(block)]
      BY Zenon, <1>6, <1>7, <3>1
    <3>3. IsPast(e[i], i + Off(block), block[i + Off(block)])
      BY <1>2, <3>1 DEF AllPast
    <3> QED BY Zenon, <1>10, <3>2, <3>3
  <2>5. Past(d, x)
    BY <2>4 DEF Past
  <2> QED BY Zenon, <1>5, <1>7, <2>2, <2>3, <2>5 DEF Traces
<1>12. Mode(k, x, open)
  BY <1>2, <1>5 DEF Mode
<1>13. Holds(k, x, open)
  BY <1>9, <1>11, <1>12 DEF Holds
<1> QED BY <1>1, <1>13

LEMMA EndOfBlockKeeps ==
    ASSUME Holds(listener, block, open), EndOfBlock
    PROVE  Holds(listener, block, open)'
<1>1. listener.contextStack = <<>> /\ ~listener.recordTransactionOnly
  BY ClosedIs DEF EndOfBlock
<1>2. listener' = listener /\ block' = block /\ open' = open
  BY <1>1, FinishIs DEF EndOfBlock
<1> QED BY <1>2

LEMMA InitHolds ==
    ASSUME Init
    PROVE  IInv
<1> DEFINE l == NewListener
<1>1. listener = l /\ block = <<>> /\ open = <<>> /\ done = FALSE
  BY DEF Init
<1>2. /\ IsListener(l) /\ l.version = "legacy" /\ l.entries = <<>> /\ l.entriesNextIndex = 0
      /\ l.contextStack = <<>> /\ l.callType = NoType /\ ~l.skipNextContext
      /\ l.skipNextContext \in BOOLEAN /\ l.recordTransactionOnly \in BOOLEAN
      /\ l.stepResultEntry = <<>> /\ l.firstTransaction = TRUE /\ ~l.recordTransactionOnly
  BY DEF NewListener, IsListener
<1> HIDE DEF l
<1>3. Len(<<>>) <= MaxTransactions /\ <<>> \in Seq(Seq(Frame)) /\ <<>> \in Seq(Nat)
  BY CallListAssumption
<1>4. Typed(l, <<>>, <<>>)
  <2>1. /\ l.version \in {"legacy", "early"} /\ l.entriesNextIndex \in Nat
        /\ l.callType \in CallTypes \cup {"call", NoType}
    BY <1>2
  <2>2. l.firstTransaction = (<<>> = <<>>)
    BY <1>2
  <2> QED BY Zenon, <1>2, <1>3, <2>1, <2>2 DEF Typed
<1>5. Traces(l, <<>>, <<>>)
  BY <1>2 DEF Traces
<1>6. Mode(l, <<>>, <<>>)
  BY <1>2 DEF Mode
<1>7. Holds(l, <<>>, <<>>)
  BY <1>4, <1>5, <1>6 DEF Holds
<1> QED BY <1>1, <1>7 DEF IInv

LEMMA NextKeeps ==
    ASSUME IInv, [Next]_vars
    PROVE  IInv'
<1>1. Holds(listener, block, open) /\ done \in BOOLEAN
  BY DEF IInv
<1>2. CASE NewTransaction
  <2>1. Holds(listener, block, open)'
    BY <1>1, <1>2, FirstTransactionKeeps, LaterTransactionKeeps
  <2> QED BY <1>1, <1>2, <2>1 DEF IInv, NewTransaction
<1>3. CASE \E type \in {"call", "create"} : Transact(type)
  <2>1. PICK type \in {"call", "create"} : Transact(type)
    BY <1>3
  <2>2. Holds(listener, block, open)'
    BY <1>1, <2>1, TransactKeeps
  <2> QED BY <1>1, <2>1, <2>2 DEF IInv, Transact
<1>4. CASE DataUnpaid
  <2>1. Holds(listener, block, open)'
    BY <1>1, <1>4, DataUnpaidKeeps
  <2> QED BY <1>1, <1>4, <2>1 DEF IInv, DataUnpaid
<1>5. CASE EnterRoot
  <2>1. Holds(listener, block, open)'
    BY <1>1, <1>5, EnterRootKeeps
  <2> QED BY <1>1, <1>5, <2>1 DEF IInv, EnterRoot
<1>6. CASE \E type \in CallTypes : SubCall(type)
  <2>1. PICK type \in CallTypes : SubCall(type)
    BY <1>6
  <2>2. Holds(listener, block, open)'
    BY <1>1, <2>1, SubCallKeeps
  <2> QED BY <1>1, <2>1, <2>2 DEF IInv, SubCall
<1>7. CASE SubCreate
  <2>1. Holds(listener, block, open)'
    BY <1>1, <1>7, SubCreateKeeps
  <2> QED BY <1>1, <1>7, <2>1 DEF IInv, SubCreate
<1>8. CASE PrecompileSubcall
  <2>1. Holds(listener, block, open)'
    BY <1>1, <1>8, PrecompileSubcallKeeps
  <2> QED BY <1>1, <1>8, <2>1 DEF IInv, PrecompileSubcall
<1>9. CASE SelfDestruct
  <2>1. Holds(listener, block, open)'
    BY <1>1, <1>9, SelfDestructKeeps
  <2> QED BY <1>1, <1>9, <2>1 DEF IInv, SelfDestruct
<1>10. CASE \E reason \in Reasons : ExitFromCode(reason) \/ ExitWithoutCode(reason)
  <2>1. PICK reason \in Reasons : ExitFromCode(reason) \/ ExitWithoutCode(reason)
    BY <1>10
  <2>2. Holds(listener, block, open)'
    BY <1>1, <2>1, ExitFromCodeKeeps, ExitWithoutCodeKeeps
  <2> QED BY <1>1, <2>1, <2>2 DEF IInv, ExitFromCode, ExitWithoutCode
<1>11. CASE EndOfBlock
  <2>1. Holds(listener, block, open)'
    BY <1>1, <1>11, EndOfBlockKeeps
  <2> QED BY <1>11, <2>1 DEF IInv, EndOfBlock
<1>12. CASE UNCHANGED vars
  BY <1>12 DEF IInv, vars
<1> QED BY <1>2, <1>3, <1>4, <1>5, <1>6, <1>7, <1>8, <1>9, <1>10, <1>11, <1>12 DEF Next

THEOREM ListenerInvariant == Spec => []IInv
<1>1. Init => IInv
  BY InitHolds
<1>2. IInv /\ [Next]_vars => IInv'
  BY NextKeeps
<1> QED BY <1>1, <1>2, PTL DEF Spec

-----------------------------------------------------------------------------
(* What the invariant says of the traces                                   *)

\* The entries of a map in the order of its keys are those it was made of.
LEMMA KeyOrderIs ==
    ASSUME NEW n \in Nat, NEW b \in Nat, NEW E, E = [i \in 1 .. n |-> E[i]]
    PROVE  InKeyOrder(MapOf(E, b, 1 .. n)) = E
<1> DEFINE M == MapOf(E, b, 1 .. n)
           K == DOMAIN M
           P(k) == Cardinality({j \in K : j < k})
           C(i) == CHOOSE k \in K : P(k) = i - 1
<1>1. K = b .. (b + n) - 1 /\ \A k \in K : M[k] = E[(k - b) + 1]
  <2>1. K = {(b + f) - 1 : f \in 1 .. n} /\ \A k \in K : M[k] = E[(k - b) + 1]
    BY DEF MapOf
  <2>2. ASSUME NEW k \in b .. (b + n) - 1 PROVE \E f \in 1 .. n : k = (b + f) - 1
    <3>1. (k - b) + 1 \in 1 .. n /\ k = (b + ((k - b) + 1)) - 1
      OBVIOUS
    <3> QED BY <3>1
  <2>3. \A f \in 1 .. n : (b + f) - 1 \in b .. (b + n) - 1
    OBVIOUS
  <2>4. {(b + f) - 1 : f \in 1 .. n} = b .. (b + n) - 1
    BY <2>2, <2>3
  <2> QED BY Zenon, <2>1, <2>4
<1> HIDE DEF M
<1>2. Cardinality(K) = n
  <2>1. Cardinality(b .. (b + n) - 1) = IF b > (b + n) - 1 THEN 0 ELSE (((b + n) - 1) - b) + 1
    BY FS_Interval
  <2> HIDE DEF K
  <2> QED BY <1>1, <2>1
<1>3. ASSUME NEW k \in K PROVE P(k) = k - b
  <2>1. k \in Nat /\ b <= k /\ k <= (b + n) - 1
    BY <1>1
  <2>2. {j \in K : j < k} = b .. k - 1
    BY <1>1, <2>1
  <2>3. Cardinality(b .. k - 1) = IF b > k - 1 THEN 0 ELSE ((k - 1) - b) + 1
    BY <2>1, FS_Interval
  <2>4. (IF b > k - 1 THEN 0 ELSE ((k - 1) - b) + 1) = k - b
    BY <2>1
  <2> QED BY Zenon, <2>2, <2>3, <2>4
<1> HIDE DEF K, P
<1>4. ASSUME NEW i \in 1 .. n PROVE M[C(i)] = E[i]
  <2>1. (b + i) - 1 \in K /\ ((b + i) - 1) - b = i - 1
    BY <1>1
  <2>2. \E k \in K : P(k) = i - 1
    BY <1>3, <2>1
  <2>3. C(i) \in K /\ P(C(i)) = i - 1
    BY Zenon, <2>2
  <2> HIDE DEF C
  <2>4. C(i) - b = i - 1 /\ C(i) \in Nat
    BY <1>1, <1>3, <2>3
  <2>5. (C(i) - b) + 1 = i
    BY <2>4
  <2>6. M[C(i)] = E[(C(i) - b) + 1]
    BY <1>1, <2>3
  <2> QED BY Zenon, <2>5, <2>6
<1>5. InKeyOrder(M) = [i \in 1 .. Cardinality(K) |-> M[C(i)]]
  BY Zenon DEF InKeyOrder, K, P
<1>6. InKeyOrder(M) = [i \in 1 .. n |-> M[C(i)]]
  BY Zenon, <1>2, <1>5
<1> HIDE DEF C
<1>7. [i \in 1 .. n |-> M[C(i)]] = [i \in 1 .. n |-> E[i]]
  BY Zenon, <1>4
<1> QED BY Zenon, <1>6, <1>7 DEF M

LEMMA ContextsFollow ==
    ASSUME Holds(listener, block, open)
    PROVE  ContextsAreFrames
<1> DEFINE c == listener.contextStack
           x(i) == [to |-> c[i].to, subtraces |-> c[i].subtraces]
           y(i) == [to |-> <<Transaction, open[i]>>,
                    subtraces |-> Cardinality(Children(Frames, open[i]))]
<1>1. DOMAIN c = DOMAIN open /\ \A i \in DOMAIN open : x(i) = y(i)
  <2>1. CASE block = <<>>
    <3>1. c = <<>> /\ open = <<>>
      BY <2>1 DEF Holds, Traces
    <3> QED BY <3>1
  <2>2. CASE block # <<>>
    <3> DEFINE b == listener.entriesNextIndex - Len(Frames)
    <3>1. open \in Seq(Nat) /\ c = ContextsOf(Transaction, Frames, b, open)
      BY <2>2, Unpacked DEF Good
    <3> HIDE DEF c, b
    <3>2. DOMAIN open = 1 .. Len(open)
      BY <3>1
    <3>3. DOMAIN c = 1 .. Len(open) /\ \A i \in 1 .. Len(open) : c[i] = ContextOf(Transaction, Frames, b, open[i])
      BY Zenon, <3>1 DEF ContextsOf
    <3>4. ASSUME NEW f PROVE /\ ContextOf(Transaction, Frames, b, f).to = <<Transaction, f>>
                             /\ ContextOf(Transaction, Frames, b, f).subtraces = Cardinality(Children(Frames, f))
      BY DEF ContextOf
    <3>5. \A i \in 1 .. Len(open) : c[i].to = <<Transaction, open[i]>> /\ c[i].subtraces = Cardinality(Children(Frames, open[i]))
      BY Zenon, <3>3, <3>4
    <3>6. \A i \in 1 .. Len(open) : x(i) = y(i)
      BY Zenon, <3>5
    <3> QED BY Zenon, <3>2, <3>3, <3>6
  <2> QED BY <2>1, <2>2
<1> HIDE DEF x, y, c
<1>2. [i \in DOMAIN c |-> x(i)] = [i \in DOMAIN open |-> y(i)]
  BY Zenon, <1>1
<1> QED BY Zenon, <1>2 DEF ContextsAreFrames, x, y, c

LEMMA TracesFollow ==
    ASSUME Holds(listener, block, open), ~Running
    PROVE  FinishedTraces
<1> DEFINE e == listener.entries
           n == Len(block)
           f == Off(block)
           m == Cardinality(Traced)
<1>1. block \in Seq(Seq(Frame))
  BY Unpacked
<1>2. n \in Nat /\ f \in {0, 1} /\ (f = 1 => n # 0) /\ (n # 0 => block # <<>>)
  BY <1>1 DEF Off
<1>3. m = n - f
  <2>1. Traced = (f + 1) .. n
    BY DEF Traced, Off
  <2> HIDE DEF f, n
  <2>2. Cardinality((f + 1) .. n) = IF f + 1 > n THEN 0 ELSE (n - (f + 1)) + 1
    <3>1. f + 1 \in Int /\ n \in Int
      BY <1>2
    <3> QED BY ONLY <3>1, FS_Interval
  <2>3. (IF f + 1 > n THEN 0 ELSE (n - (f + 1)) + 1) = n - f
    BY <1>2
  <2> QED BY Zenon, <2>1, <2>2, <2>3
<1>4. DOMAIN e = 1 .. m /\ \A i \in 1 .. m : IsPast(e[i], i + f, block[i + f])
  <2>1. CASE block = <<>>
    <3>1. e = <<>> /\ n = 0 /\ f = 0
      BY <2>1 DEF Holds, Traces, Off
    <3>2. m = 0 /\ DOMAIN e = {}
      <4> HIDE DEF n, f, m
      <4> QED BY <1>3, <3>1
    <3> HIDE DEF m
    <3> QED BY <3>2
  <2>2. CASE block # <<>>
    <3>1. Len(e) = n - f /\ AllPast(e, block) /\ Listed(e)
      BY <2>2, ClosedIs, Unpacked
    <3>2. DOMAIN e = 1 .. Len(e)
      <4>1. PICK S : e \in Seq(S)
        BY <3>1 DEF Listed
      <4> QED BY <4>1
    <3> QED BY Zenon, <1>3, <3>1, <3>2 DEF AllPast
  <2> QED BY <2>1, <2>2
<1> HIDE DEF e, n, f, m
<1>5. ASSUME NEW i \in 1 .. m PROVE InKeyOrder(e[i]) = TrueTrace((n - m) + i)
  <2> DEFINE t == i + f
             F == block[t]
             E == EntriesOf(t, F)
  <2>1. (n - m) + i = t /\ t \in 1 .. n
    BY <1>2, <1>3
  <2>2. F \in Seq(Frame)
    BY <1>1, <2>1 DEF n
  <2>3. PICK b \in Nat : e[i] = MapOf(E, b, 1 .. Len(F))
    BY <1>4 DEF IsPast
  <2>4. TrueTrace(t) = E
    <3>1. DOMAIN block[t] = 1 .. Len(F)
      BY <2>2
    <3> QED BY Zenon, <3>1 DEF TrueTrace, EntriesOf
  <2>5. E = [g \in 1 .. Len(F) |-> E[g]] /\ Len(F) \in Nat
    BY <2>2 DEF EntriesOf
  <2> HIDE DEF E, F, t
  <2>6. InKeyOrder(e[i]) = E
    BY <2>3, <2>5, KeyOrderIs
  <2> QED BY Zenon, <2>1, <2>4, <2>6
<1>6. [i \in DOMAIN e |-> InKeyOrder(e[i])] = [i \in 1 .. m |-> TrueTrace((n - m) + i)]
  BY Zenon, <1>4, <1>5
<1> QED BY Zenon, <1>6 DEF FinishedTraces, e, n, m

\* Whenever no frame is running the listener holds one trace for each
\* transaction with what was executed, and otherwise its contexts are the
\* frames that are running, in whatever order the EVM's events come in: the
\* handlers of `EvmEvent` and `CallListNew` neither lose nor misplace an entry.
THEOREM TracesAlwaysMatch == Spec => []TracesMatchExecution
<1>1. IInv => TracesMatchExecution
  <2> SUFFICES ASSUME IInv PROVE TracesMatchExecution
    OBVIOUS
  <2>1. Holds(listener, block, open) /\ done \in BOOLEAN
    BY DEF IInv
  <2>2. TypeOK
    <3>1. Typed(listener, block, open)
      BY <2>1 DEF Holds
    <3> QED BY <2>1, <3>1 DEF TypeOK, Typed
  <2>3. ContextsAreFrames
    BY <2>1, ContextsFollow
  <2>4. ~Running => FinishedTraces
    BY <2>1, TracesFollow
  <2> QED BY <2>2, <2>3, <2>4 DEF TracesMatchExecution
<1> QED BY <1>1, ListenerInvariant, PTL

-----------------------------------------------------------------------------
(* The indexer                                                             *)


-----------------------------------------------------------------------------
(* The tree of blocks: Branch is a recursive function                      *)

BranchOf(c, b) ==
    LET branch[a \in 0 .. b] ==
            IF a = 0 THEN <<0>> ELSE Append(branch[c[a].parent], a)
    IN  branch[b]

\* The parents of the first n blocks come before them.
Grows(c, n) == \A a \in 1 .. n : c[a].parent \in 0 .. a - 1

\* h has the branches of the first n blocks.
Branches(h, c, n) ==
    h = [a \in 0 .. n |-> IF a = 0 THEN <<0>> ELSE Append(h[c[a].parent], a)]

LEMMA BranchUnfolds ==
    ASSUME NEW c, NEW b
    PROVE  BranchOf(c, b) = (CHOOSE h : Branches(h, c, b))[b]
BY Zenon DEF BranchOf, Branches

LEMMA BranchesExist ==
    ASSUME NEW c, NEW n \in Nat, Grows(c, n)
    PROVE  \E h : Branches(h, c, n)
<1> DEFINE S == {m \in 0 .. n : \E h : Branches(h, c, m)}
<1>1. 0 \in S
  <2> DEFINE h == [a \in 0 .. 0 |-> <<0>>]
  <2>1. Branches(h, c, 0)
    BY DEF Branches
  <2> HIDE DEF h
  <2> QED BY <2>1
<1>2. ASSUME NEW i \in 1 .. n, i - 1 \in S PROVE i \in S
  <2>1. PICK h : Branches(h, c, i - 1)
    BY <1>2
  <2> DEFINE k == [a \in 0 .. i |-> IF a = i THEN Append(h[c[i].parent], i) ELSE h[a]]
  <2>2. \A a \in 1 .. i : c[a].parent \in 0 .. a - 1
    BY DEF Grows
  <2>3. \A a \in 0 .. i - 1 : h[a] = IF a = 0 THEN <<0>> ELSE Append(h[c[a].parent], a)
    BY <2>1 DEF Branches
  <2>4. \A a \in 0 .. i - 1 : k[a] = h[a]
    OBVIOUS
  <2>5. k[i] = Append(h[c[i].parent], i) /\ k = [a \in 0 .. i |-> k[a]]
    OBVIOUS
  <2> HIDE DEF k
  <2>6. ASSUME NEW a \in 0 .. i PROVE k[a] = IF a = 0 THEN <<0>> ELSE Append(k[c[a].parent], a)
    <3>1. a # 0 => c[a].parent \in 0 .. i - 1
      BY <2>2
    <3>2. a # 0 => k[c[a].parent] = h[c[a].parent]
      BY <2>4, <3>1
    <3>3. CASE a = i
      <4>1. a # 0
        BY <3>3
      <4>2. k[a] = Append(k[c[a].parent], a)
        BY Zenon, <2>5, <3>2, <3>3, <4>1
      <4> QED BY Zenon, <4>1, <4>2
    <3>4. CASE a # i
      BY <2>3, <2>4, <3>2, <3>4
    <3> QED BY <3>3, <3>4
  <2>7. Branches(k, c, i)
    BY <2>5, <2>6 DEF Branches
  <2> QED BY <2>7
<1>3. 0 .. n \subseteq S
  <2> HIDE DEF S
  <2> QED BY <1>1, <1>2, StepsKeep
<1> QED BY <1>3

\* Blocks with the same parents have the same branches.
SameParents(c, d, n) == \A a \in 1 .. n : d[a].parent = c[a].parent

LEMMA BranchesAgree ==
    ASSUME NEW c, NEW d, NEW n \in Nat, NEW m \in Nat, NEW b \in Nat, b <= n, b <= m,
           Grows(c, b), SameParents(c, d, b), NEW h, Branches(h, c, n), NEW k, Branches(k, d, m)
    PROVE  \A a \in 0 .. b : h[a] = k[a]
<1> DEFINE S == {i \in 0 .. b : \A a \in 0 .. i : h[a] = k[a]}
<1>1. 0 \in S
  <2>1. h[0] = <<0>> /\ k[0] = <<0>>
    BY DEF Branches
  <2> QED BY <2>1
<1>2. ASSUME NEW i \in 1 .. b, i - 1 \in S PROVE i \in S
  <2>1. d[i].parent = c[i].parent /\ c[i].parent \in 0 .. i - 1
    BY DEF SameParents, Grows
  <2>2. h[i] = Append(h[c[i].parent], i) /\ k[i] = Append(k[d[i].parent], i)
    <3>1. i \in 0 .. n /\ i \in 0 .. m /\ i # 0
      OBVIOUS
    <3> QED BY <3>1 DEF Branches
  <2>3. h[c[i].parent] = k[c[i].parent]
    BY <1>2, <2>1
  <2>4. h[i] = k[i]
    BY Zenon, <2>1, <2>2, <2>3
  <2>5. \A a \in 0 .. i : h[a] = k[a]
    BY <1>2, <2>4
  <2> QED BY <2>5
<1>3. 0 .. b \subseteq S
  <2> HIDE DEF S
  <2> QED BY <1>1, <1>2, StepsKeep
<1> QED BY <1>3

LEMMA BranchIs ==
    ASSUME NEW c, NEW d, NEW b \in Nat, NEW n \in Nat, b <= n, Grows(c, b),
           SameParents(c, d, b), NEW k, Branches(k, d, n)
    PROVE  BranchOf(c, b) = k[b]
<1> DEFINE h == CHOOSE h : Branches(h, c, b)
<1>1. Branches(h, c, b)
  BY BranchesExist
<1>2. BranchOf(c, b) = h[b]
  BY BranchUnfolds
<1> HIDE DEF h
<1>3. \A a \in 0 .. b : h[a] = k[a]
  BY <1>1, BranchesAgree
<1> QED BY <1>2, <1>3

LEMMA BranchSame ==
    ASSUME NEW c, NEW d, NEW b \in Nat, Grows(c, b), SameParents(c, d, b)
    PROVE  BranchOf(d, b) = BranchOf(c, b)
<1>1. Grows(d, b) /\ SameParents(d, d, b)
  BY DEF Grows, SameParents
<1>2. PICK k : Branches(k, d, b)
  BY <1>1, BranchesExist
<1> QED BY <1>1, <1>2, BranchIs

\* The branch of a block is that of its parent and the block.
LEMMA BranchChild ==
    ASSUME NEW c, NEW b \in Nat, Grows(c, b)
    PROVE  BranchOf(c, b) = IF b = 0 THEN <<0>> ELSE Append(BranchOf(c, c[b].parent), b)
<1>1. PICK k : Branches(k, c, b)
  BY BranchesExist
<1>2. SameParents(c, c, b)
  BY DEF SameParents
<1>3. BranchOf(c, b) = k[b]
  BY <1>1, <1>2, BranchIs
<1>4. k[b] = IF b = 0 THEN <<0>> ELSE Append(k[c[b].parent], b)
  <2>1. b \in 0 .. b
    OBVIOUS
  <2> QED BY <1>1, <2>1 DEF Branches
<1>5. ASSUME b # 0 PROVE BranchOf(c, c[b].parent) = k[c[b].parent]
  <2> DEFINE p == c[b].parent
  <2>1. p \in 0 .. b - 1
    BY <1>5 DEF Grows
  <2> HIDE DEF p
  <2>2. p \in Nat /\ p <= b /\ Grows(c, p) /\ SameParents(c, c, p)
    BY <2>1 DEF Grows, SameParents
  <2> QED BY <1>1, <2>2, BranchIs DEF p
<1> QED BY <1>3, <1>4, <1>5

\* The blocks are numbered as they were authored.
Tree(c, n) ==
    /\ n \in Nat /\ DOMAIN c = 0 .. n
    /\ Grows(c, n)
    /\ \A b \in 0 .. n : c[b].height \in Nat
    /\ c[0].height = 0
    /\ \A b \in 1 .. n : c[b].height = c[c[b].parent].height + 1

\* s is a path from genesis to b.
Path(s, c, b) ==
    /\ s \in Seq(0 .. b) /\ Len(s) = c[b].height + 1 /\ s[Len(s)] = b
    /\ \A i \in 1 .. Len(s) : c[s[i]].height = i - 1
    /\ \A i \in 1 .. Len(s) - 1 : c[s[i + 1]].parent = s[i]

LEMMA GrowsBelow ==
    ASSUME NEW c, NEW n \in Nat, Grows(c, n), NEW b \in 0 .. n
    PROVE  Grows(c, b)
BY DEF Grows

LEMMA BranchIsPath ==
    ASSUME NEW c, NEW n, Tree(c, n), NEW b \in 0 .. n
    PROVE  Path(BranchOf(c, b), c, b)
<1> DEFINE S == {m \in 0 .. n : \A a \in 0 .. m : Path(BranchOf(c, a), c, a)}
<1>1. /\ n \in Nat /\ Grows(c, n) /\ \A a \in 0 .. n : c[a].height \in Nat
      /\ c[0].height = 0 /\ \A a \in 1 .. n : c[a].height = c[c[a].parent].height + 1
  BY DEF Tree
<1>2. 0 \in S
  <2> DEFINE s == <<0>>
  <2>1. BranchOf(c, 0) = s
    <3>1. Grows(c, 0)
      BY DEF Grows
    <3> QED BY <3>1, BranchChild
  <2>2. s \in Seq(0 .. 0) /\ Len(s) = 1 /\ s[1] = 0
    OBVIOUS
  <2> HIDE DEF s
  <2>3. Path(s, c, 0)
    BY <1>1, <2>2 DEF Path
  <2>4. \A a \in 0 .. 0 : Path(BranchOf(c, a), c, a)
    BY <2>1, <2>3
  <2> QED BY <1>1, <2>4
<1>3. ASSUME NEW i \in 1 .. n, i - 1 \in S PROVE i \in S
  <2> DEFINE p == c[i].parent
             s == BranchOf(c, p)
             t == Append(s, i)
  <2>1. p \in 0 .. i - 1 /\ Grows(c, i) /\ i # 0
    BY <1>1, GrowsBelow DEF Grows
  <2>2. BranchOf(c, i) = t
    BY <2>1, BranchChild
  <2>3. Path(s, c, p)
    BY <1>3, <2>1
  <2>4. c[i].height = c[p].height + 1 /\ c[p].height \in Nat
    BY <1>1, <2>1
  <2>5. /\ s \in Seq(0 .. p) /\ Len(s) = c[p].height + 1 /\ s[Len(s)] = p
        /\ \A j \in 1 .. Len(s) : c[s[j]].height = j - 1
        /\ \A j \in 1 .. Len(s) - 1 : c[s[j + 1]].parent = s[j]
    BY <2>3 DEF Path
  <2> HIDE DEF s
  <2>6. s \in Seq(0 .. i)
    <3>1. 0 .. p \subseteq 0 .. i
      BY <2>1
    <3>2. s \in Seq(0 .. p)
      BY <2>5
    <3> DEFINE A == 0 .. p
               B == 0 .. i
    <3>3. A \subseteq B /\ s \in Seq(A)
      BY <3>1, <3>2
    <3> HIDE DEF p, A, B
    <3>4. s \in Seq(B)
      BY ONLY <3>3
    <3> QED BY <3>4 DEF B
  <2>7. /\ t \in Seq(0 .. i) /\ Len(t) = Len(s) + 1 /\ t[Len(s) + 1] = i
        /\ \A j \in 1 .. Len(s) : t[j] = s[j]
    BY <2>6
  <2> HIDE DEF t, p
  <2>a. Len(s) \in Nat \ {0}
    BY <2>4, <2>5
  <2>8. ASSUME NEW j \in 1 .. Len(t) PROVE c[t[j]].height = j - 1
    <3>1. CASE j = Len(s) + 1
      <4>1. c[i].height = j - 1
        <5>1. c[i].height = c[p].height + 1 /\ c[p].height \in Nat /\ Len(s) = c[p].height + 1
          BY <2>4, <2>5
        <5> QED BY ONLY <3>1, <5>1
      <4> QED BY Zenon, <2>7, <3>1, <4>1
    <3>2. CASE j # Len(s) + 1
      <4>1. j \in 1 .. Len(s)
        <5>1. Len(s) \in Nat /\ j \in 1 .. Len(t) /\ Len(t) = Len(s) + 1
          BY <2>7, <2>a
        <5> QED BY ONLY <5>1, <3>2
      <4> QED BY <2>5, <2>7, <4>1
    <3> QED BY <3>1, <3>2
  <2>9. ASSUME NEW j \in 1 .. Len(t) - 1 PROVE c[t[j + 1]].parent = t[j]
    <3>1. CASE j = Len(s)
      <4>1. Len(s) \in 1 .. Len(s)
        BY ONLY <2>a
      <4>2. t[j] = p /\ t[j + 1] = i
        BY Zenon, <2>5, <2>7, <3>1, <4>1
      <4> QED BY Zenon, <4>2 DEF p
    <3>2. CASE j # Len(s)
      <4>1. j \in 1 .. Len(s) - 1 /\ j \in 1 .. Len(s) /\ j + 1 \in 1 .. Len(s)
        <5>1. Len(s) \in Nat \ {0} /\ j \in 1 .. Len(t) - 1 /\ Len(t) = Len(s) + 1
          BY <2>7, <2>a
        <5> QED BY ONLY <5>1, <3>2
      <4> QED BY <2>5, <2>7, <4>1
    <3> QED BY <3>1, <3>2
  <2>10. Path(t, c, i)
    <3>1. Len(t) = c[i].height + 1
      BY <2>4, <2>5, <2>7
    <3>2. t[Len(t)] = i
      BY <2>7
    <3> QED BY <2>7, <2>8, <2>9, <3>1, <3>2 DEF Path
  <2>11. \A a \in 0 .. i : Path(BranchOf(c, a), c, a)
    <3>1. \A a \in 0 .. i - 1 : Path(BranchOf(c, a), c, a)
      BY <1>3
    <3> QED BY <2>2, <2>10, <3>1
  <2> QED BY <2>11
<1>4. 0 .. n \subseteq S
  <2> HIDE DEF S
  <2> QED BY <1>1, <1>2, <1>3, StepsKeep
<1> QED BY <1>1, <1>4

LEMMA IndexerBranch == \A b : Branch(b) = BranchOf(chain, b)
BY Zenon DEF BranchOf, Branch

-----------------------------------------------------------------------------
(* The logs of a branch                                                    *)

\* The contract's own logs L of a block of height h.
OwnLogs(L, h) ==
    {[log |-> L[i], height |-> h] : i \in {j \in DOMAIN L : L[j].address = "requests"}}

OwnLog(x, h) == IF x.address = "requests" THEN {[log |-> x, height |-> h]} ELSE {}

LogsUpto(c, b) ==
    UNION {OwnLogs(c[a].logs, c[a].height) :
           a \in {x \in {BranchOf(c, b)[i] : i \in DOMAIN BranchOf(c, b)} :
                  c[x].height >= StartHeight}}

LEMMA LogsOfIs == \A b : LogsOf(b) = LogsUpto(chain, b)
BY Zenon, IndexerBranch DEF LogsOf, LogsUpto, OwnLogs, Range, Height

LEMMA LogsGrow ==
    ASSUME NEW c, NEW n, Tree(c, n), NEW b \in 1 .. n, c[b].height >= StartHeight
    PROVE  LogsUpto(c, b) = LogsUpto(c, c[b].parent) \cup OwnLogs(c[b].logs, c[b].height)
<1> DEFINE p == c[b].parent
           s == BranchOf(c, p)
           t == BranchOf(c, b)
           R(x) == {x[i] : i \in DOMAIN x}
           W(a) == OwnLogs(c[a].logs, c[a].height)
           High(A) == {x \in A : c[x].height >= StartHeight}
<1>1. Grows(c, n) /\ n \in Nat
  BY DEF Tree
<1>2. p \in 0 .. b - 1 /\ Grows(c, b) /\ p \in 0 .. n
  BY <1>1, GrowsBelow DEF Grows
<1>3. t = Append(s, b)
  BY <1>2, BranchChild
<1>4. s \in Seq(0 .. p)
  BY <1>2, BranchIsPath DEF Path
<1> HIDE DEF s, p
<1>5. R(Append(s, b)) = R(s) \cup {b}
  <2>1. /\ DOMAIN Append(s, b) = 1 .. Len(s) + 1 /\ DOMAIN s = 1 .. Len(s) /\ Len(s) \in Nat
        /\ Append(s, b)[Len(s) + 1] = b /\ \A i \in 1 .. Len(s) : Append(s, b)[i] = s[i]
    BY <1>4
  <2>2. 1 .. Len(s) + 1 = (1 .. Len(s)) \cup {Len(s) + 1}
    BY <2>1
  <2>3. R(Append(s, b)) \subseteq R(s) \cup {b}
    BY Zenon, <2>1, <2>2
  <2>4. R(s) \cup {b} \subseteq R(Append(s, b))
    BY Zenon, <2>1, <2>2
  <2> QED BY Zenon, <2>3, <2>4
<1>6. R(t) = R(s) \cup {b}
  BY Zenon, <1>3, <1>5
<1> HIDE DEF t, R
<1>7. High(R(t)) = High(R(s)) \cup {b}
  BY <1>6
<1> HIDE DEF W, High
<1>8. UNION {W(a) : a \in High(R(t))} = (UNION {W(a) : a \in High(R(s))}) \cup W(b)
  BY <1>7
<1> QED BY Zenon, <1>8 DEF LogsUpto, W, High, R, t, s, p

LEMMA NoLogsYet ==
    ASSUME NEW c, NEW n, Tree(c, n), NEW b \in 0 .. n, StartHeight \in Nat, c[b].height < StartHeight
    PROVE  LogsUpto(c, b) = {}
<1> DEFINE s == BranchOf(c, b)
<1>0. Path(s, c, b)
  BY BranchIsPath
<1>1. /\ s \in Seq(0 .. b) /\ Len(s) = c[b].height + 1 /\ c[b].height \in Nat
      /\ \A i \in 1 .. Len(s) : c[s[i]].height = i - 1
  <2>1. c[b].height \in Nat
    BY DEF Tree
  <2> HIDE DEF s
  <2> QED BY <1>0, <2>1 DEF Path
<1> HIDE DEF s
<1>2. ASSUME NEW i \in DOMAIN s PROVE ~(c[s[i]].height >= StartHeight)
  <2>1. i \in Nat /\ i <= Len(s) /\ c[s[i]].height = i - 1
    <3>1. DOMAIN s = 1 .. Len(s) /\ Len(s) \in Nat
      BY <1>1
    <3>2. i \in 1 .. Len(s)
      BY <3>1
    <3>3. c[s[i]].height = i - 1
      BY <1>1, <3>2
    <3> QED BY <3>1, <3>2, <3>3
  <2>2. Len(s) = c[b].height + 1 /\ c[b].height \in Nat
    BY <1>1
  <2>3. i - 1 < StartHeight
    BY ONLY <2>1, <2>2, StartHeight \in Nat, c[b].height < StartHeight
  <2>4. ~(i - 1 >= StartHeight)
    BY ONLY <2>1, <2>3, StartHeight \in Nat
  <2> QED BY Zenon, <2>1, <2>4
<1> QED BY <1>2 DEF LogsUpto, s

LEMMA LogsSame ==
    ASSUME NEW c, NEW n, Tree(c, n), NEW d, \A a \in 0 .. n : d[a] = c[a], NEW b \in 0 .. n
    PROVE  LogsUpto(d, b) = LogsUpto(c, b)
<1> DEFINE s == BranchOf(c, b)
           R == {s[i] : i \in DOMAIN s}
           W(e, a) == OwnLogs(e[a].logs, e[a].height)
<1>1. n \in Nat /\ Grows(c, b)
  BY GrowsBelow DEF Tree
<1>2. BranchOf(d, b) = s
  <2>1. SameParents(c, d, b)
    BY <1>1 DEF SameParents
  <2> QED BY <1>1, <2>1, BranchSame
<1>3. s \in Seq(0 .. b)
  BY BranchIsPath DEF Path
<1> HIDE DEF s
<1>4. \A a \in R : d[a] = c[a]
  BY <1>1, <1>3
<1> HIDE DEF R
<1>5. {x \in R : d[x].height >= StartHeight} = {x \in R : c[x].height >= StartHeight}
  BY <1>4
<1>6. \A a \in R : W(d, a) = W(c, a)
  BY Zenon, <1>4
<1> DEFINE H == {x \in R : c[x].height >= StartHeight}
<1>7. \A a \in H : W(d, a) = W(c, a)
  BY <1>6
<1> HIDE DEF H, W
<1>8. {W(d, a) : a \in H} = {W(c, a) : a \in H}
  BY <1>7
<1>9. {x \in R : d[x].height >= StartHeight} = H
  BY Zenon, <1>5 DEF H
<1>10. LogsUpto(d, b) = UNION {W(d, a) : a \in {x \in R : d[x].height >= StartHeight}}
  BY Zenon, <1>2 DEF LogsUpto, R, W
<1>11. LogsUpto(c, b) = UNION {W(c, a) : a \in H}
  BY Zenon DEF LogsUpto, R, H, W, s
<1> QED BY Zenon, <1>8, <1>9, <1>10, <1>11

-----------------------------------------------------------------------------
(* The calls of a block                                                    *)

Uncalled(c) == [contract |-> c, logs |-> <<>>]

\* h maps each part of the first n calls to what they leave behind.
CallsOf(h, c, calls, n) ==
    h = [s \in SUBSET (1 .. n) |->
            IF s = {} THEN Uncalled(c) ELSE AfterCall(h[s \ {Max(s)}], calls[Max(s)])]

LEMMA BlockUnfolds ==
    ASSUME NEW c, NEW calls, NEW n, DOMAIN calls = 1 .. n
    PROVE  BlockAfter(c, calls) = (CHOOSE h : CallsOf(h, c, calls, n))[1 .. n]
BY Zenon DEF BlockAfter, FoldLeft, MapThenFoldSet, CallsOf, Uncalled

LEMMA MaxOfParts ==
    ASSUME NEW i \in Nat \ {0}, NEW s \in SUBSET (1 .. i)
    PROVE  /\ i \in s => Max(s) = i /\ s \ {i} \in SUBSET (1 .. i - 1)
           /\ i \notin s => s \in SUBSET (1 .. i - 1)
           /\ (i \notin s /\ s # {}) => s \ {Max(s)} \in SUBSET (1 .. i - 1)
<1>1. i \notin s => s \in SUBSET (1 .. i - 1)
  OBVIOUS
<1>2. ASSUME i \in s PROVE Max(s) = i /\ s \ {i} \in SUBSET (1 .. i - 1)
  <2>1. \A y \in s : i >= y
    OBVIOUS
  <2>2. \A x \in s : (\A y \in s : x >= y) => x = i
    BY <1>2
  <2>3. Max(s) = i
    BY <1>2, <2>1, <2>2 DEF Max
  <2> QED BY <2>3
<1> QED BY <1>1, <1>2

LEMMA CallsExist ==
    ASSUME NEW c, NEW calls, NEW n \in Nat
    PROVE  \E h : CallsOf(h, c, calls, n)
<1> DEFINE S == {m \in 0 .. n : \E h : CallsOf(h, c, calls, m)}
<1>1. 0 \in S
  <2> DEFINE h == [s \in SUBSET (1 .. 0) |-> Uncalled(c)]
  <2>1. \A s \in SUBSET (1 .. 0) : s = {}
    OBVIOUS
  <2>2. CallsOf(h, c, calls, 0)
    BY <2>1 DEF CallsOf
  <2> HIDE DEF h
  <2> QED BY <2>2
<1>2. ASSUME NEW i \in 1 .. n, i - 1 \in S PROVE i \in S
  <2> DEFINE Rest == SUBSET (1 .. i - 1)
             Value(s, g) == IF s = {} THEN Uncalled(c)
                            ELSE AfterCall(g[s \ {Max(s)}], calls[Max(s)])
  <2>1. PICK h : CallsOf(h, c, calls, i - 1)
    BY <1>2
  <2>2. \A s \in Rest : h[s] = Value(s, h)
    BY <2>1 DEF CallsOf
  <2> DEFINE k == [s \in SUBSET (1 .. i) |->
                     IF i \in s THEN AfterCall(h[s \ {i}], calls[i]) ELSE h[s]]
  <2>3. k = [s \in SUBSET (1 .. i) |-> k[s]]
    OBVIOUS
  <2>4. \A s \in SUBSET (1 .. i) :
           k[s] = IF i \in s THEN AfterCall(h[s \ {i}], calls[i]) ELSE h[s]
    OBVIOUS
  <2> HIDE DEF k
  <2>5. \A s \in Rest : s \in SUBSET (1 .. i) /\ i \notin s
    OBVIOUS
  <2>6. \A s \in Rest : k[s] = h[s]
    BY Zenon, <2>4, <2>5
  <2>7. ASSUME NEW s \in SUBSET (1 .. i) PROVE k[s] = Value(s, k)
    <3>1. CASE i \in s
      <4>1. Max(s) = i /\ s \ {i} \in Rest /\ s # {}
        BY <3>1, MaxOfParts
      <4>2. k[s] = AfterCall(k[s \ {i}], calls[i])
        BY Zenon, <2>4, <2>6, <3>1, <4>1
      <4> QED BY Zenon, <4>1, <4>2
    <3>2. CASE i \notin s
      <4>1. s \in Rest
        BY <3>2, MaxOfParts
      <4>2. k[s] = Value(s, h)
        BY Zenon, <2>2, <2>6, <4>1
      <4>3. s # {} => k[s \ {Max(s)}] = h[s \ {Max(s)}]
        <5>1. s # {} => s \ {Max(s)} \in Rest
          BY <3>2, MaxOfParts
        <5> QED BY Zenon, <2>6, <5>1
      <4> QED BY Zenon, <4>2, <4>3
    <3> QED BY Zenon, <3>1, <3>2
  <2>8. CallsOf(k, c, calls, i)
    BY Zenon, <2>3, <2>7 DEF CallsOf
  <2> QED BY <2>8
<1>3. 0 .. n \subseteq S
  <2> HIDE DEF S
  <2> QED BY <1>1, <1>2, StepsKeep
<1> QED BY <1>3

\* f goes through the calls one after the other.
CallRun(f, c, calls, n) ==
    /\ f[0] = Uncalled(c)
    /\ \A i \in 1 .. n : f[i] = AfterCall(f[i - 1], calls[i])

LEMMA BlockRuns ==
    ASSUME NEW c, NEW calls, NEW n \in Nat, DOMAIN calls = 1 .. n
    PROVE  \E f : CallRun(f, c, calls, n) /\ BlockAfter(c, calls) = f[n]
<1>1. PICK h : h = CHOOSE g : CallsOf(g, c, calls, n)
  OBVIOUS
<1>2. CallsOf(h, c, calls, n) /\ BlockAfter(c, calls) = h[1 .. n]
  BY <1>1, CallsExist, BlockUnfolds
<1>3. \A s \in SUBSET (1 .. n) :
         h[s] = IF s = {} THEN Uncalled(c) ELSE AfterCall(h[s \ {Max(s)}], calls[Max(s)])
  BY <1>2 DEF CallsOf
<1> DEFINE f == [i \in 0 .. n |-> h[1 .. i]]
<1>4. f[0] = Uncalled(c)
  <2>1. 1 .. 0 = {}
    OBVIOUS
  <2> QED BY <1>3, <2>1
<1>5. ASSUME NEW i \in 1 .. n PROVE f[i] = AfterCall(f[i - 1], calls[i])
  <2>1. 1 .. i \in SUBSET (1 .. n) /\ i \in 0 .. n /\ i - 1 \in 0 .. n /\ i \in Nat \ {0}
    OBVIOUS
  <2>2. 1 .. i # {} /\ Max(1 .. i) = i /\ (1 .. i) \ {i} = 1 .. i - 1
    BY <2>1, Prefix
  <2>3. h[1 .. i] = AfterCall(h[1 .. i - 1], calls[i])
    BY Zenon, <1>3, <2>1, <2>2
  <2> QED BY Zenon, <2>1, <2>3
<1>6. f[n] = h[1 .. n]
  OBVIOUS
<1> HIDE DEF f
<1>7. CallRun(f, c, calls, n)
  BY <1>4, <1>5 DEF CallRun
<1> QED BY <1>2, <1>6, <1>7

-----------------------------------------------------------------------------
(* What a call does to the contract and what it logs                       *)

\* The log x, of the contract or not, is what took it from c to d.
Registers(c, d, x) ==
    /\ x.topic = "RequestRegistered" /\ x.id = c.nextRequestId /\ x.readable \in BOOLEAN
    /\ d.nextRequestId = c.nextRequestId + 1 /\ d.requests = c.requests \cup {x.id}

Answers(c, d, x) ==
    /\ x.topic = "RequestStatusUpdated" /\ x.id \in c.requests /\ x.status \in {"Success", "Fail"}
    /\ d.nextRequestId = c.nextRequestId /\ d.requests = c.requests \ {x.id}

Renames(c, d, x) ==
    /\ x.topic = "MasterNodeUpdated"
    /\ d.nextRequestId = c.nextRequestId /\ d.requests = c.requests

LogStep(c, d, x) ==
    /\ d \in Contracts
    /\ \/ x.address = "other" /\ d = c
       \/ x.address = "requests" /\ (Registers(c, d, x) \/ Answers(c, d, x) \/ Renames(c, d, x))

\* before and after a call: nothing, or one log more
CallStep(before, after) ==
    \/ after.contract = before.contract /\ after.logs = before.logs
    \/ \E x : after.logs = Append(before.logs, x) /\ LogStep(before.contract, after.contract, x)

IsSequence(s) == \E A : s \in Seq(A)

LEMMA InsertAddress ==
    ASSUME NEW x, NEW a
    PROVE  LET y == Insert(x, "address", a) IN
           y.address = a /\ \A k \in DOMAIN x : k # "address" => y[k] = x[k]
BY DEF Insert

LEMMA AppendOne ==
    ASSUME NEW L, IsSequence(L), NEW f, NEW x, f = [i \in DOMAIN <<x>> |-> f[i]]
    PROVE  L \o f = Append(L, f[1])
<1>1. PICK A : L \in Seq(A)
  BY DEF IsSequence
<1>2. DOMAIN <<x>> = 1 .. 1
  OBVIOUS
<1>3. f = <<f[1]>>
  BY <1>2
<1> DEFINE B == A \cup {f[1]}
<1>4. L \in Seq(B) /\ f[1] \in B
  BY <1>1
<1>5. L \o <<f[1]>> = Append(L, f[1])
  <2> HIDE DEF B
  <2> QED BY ONLY <1>4
<1> QED BY Zenon, <1>3, <1>5

LEMMA AppendNone ==
    ASSUME NEW L, IsSequence(L), NEW f, f = [i \in DOMAIN <<>> |-> f[i]]
    PROVE  L \o f = L
<1>1. PICK A : L \in Seq(A)
  BY DEF IsSequence
<1>2. f = <<>>
  OBVIOUS
<1> QED BY <1>1, <1>2

LEMMA AppendIs ==
    ASSUME NEW L, IsSequence(L), NEW x
    PROVE  /\ IsSequence(Append(L, x)) /\ Len(L) \in Nat /\ Len(Append(L, x)) = Len(L) + 1
           /\ DOMAIN L = 1 .. Len(L) /\ DOMAIN Append(L, x) = 1 .. Len(L) + 1
           /\ Append(L, x)[Len(L) + 1] = x
           /\ \A i \in 1 .. Len(L) : Append(L, x)[i] = L[i]
<1>1. PICK A : L \in Seq(A)
  BY DEF IsSequence
<1> DEFINE B == A \cup {x}
<1>2. L \in Seq(B) /\ x \in B
  BY <1>1
<1> HIDE DEF B
<1>3. Append(L, x) \in Seq(B)
  BY <1>2
<1>4. IsSequence(Append(L, x))
  BY Zenon, <1>3 DEF IsSequence
<1> QED BY <1>2, <1>4

LEMMA RegisterFields ==
    ASSUME NEW c \in Contracts
    PROVE  LET d == [c EXCEPT !.nextRequestId = c.nextRequestId + 1,
                              !.requests = @ \cup {c.nextRequestId}] IN
           /\ d \in Contracts
           /\ d.nextRequestId = c.nextRequestId + 1 /\ d.requests = c.requests \cup {c.nextRequestId}
<1> DEFINE n == c.nextRequestId + 1
           R == c.requests \cup {c.nextRequestId}
           e == [c EXCEPT !.nextRequestId = n]
           d == [e EXCEPT !.requests = R]
<1>1. /\ c.nextRequestId \in Nat \ {0} /\ c.requests \in SUBSET (Nat \ {0})
  BY DEF Contracts
<1>2. n \in Nat \ {0}
  BY ONLY <1>1
<1>3. R \in SUBSET (Nat \ {0})
  BY <1>1
<1>4. [c EXCEPT !.nextRequestId = c.nextRequestId + 1, !.requests = @ \cup {c.nextRequestId}] = d
  BY DEF Contracts
<1> HIDE DEF n, R
<1>5. e \in Contracts /\ e.nextRequestId = n
  BY <1>2 DEF Contracts
<1> HIDE DEF e
<1>6. d \in Contracts /\ d.nextRequestId = n /\ d.requests = R
  BY <1>3, <1>5 DEF Contracts
<1> HIDE DEF d
<1> QED BY Zenon, <1>4, <1>6 DEF n, R

LEMMA CallSteps ==
    ASSUME NEW before, before.contract \in Contracts,
           IsSequence(before.logs), NEW call \in Calls
    PROVE  CallStep(before, AfterCall(before, call))
<1> DEFINE c == before.contract
           L == before.logs
           r == Execute(c, call)
           a == IF call.fn = "other" THEN "other" ELSE "requests"
           f == [i \in DOMAIN r.logs |-> Insert(r.logs[i], "address", a)]
           after == AfterCall(before, call)
<1>1. after = [contract |-> r.contract, logs |-> L \o f]
  BY Zenon DEF AfterCall
<1>2. after.contract = r.contract /\ after.logs = L \o f
  BY <1>1
<1> SUFFICES CallStep(before, after)
  BY Zenon
<1> HIDE DEF after
<1>3. ASSUME r = Reverted(c) PROVE CallStep(before, after)
  <2>1. r.contract = c /\ r.logs = <<>>
    BY <1>3 DEF Reverted
  <2> HIDE DEF r
  <2>2. f = [i \in DOMAIN <<>> |-> f[i]]
    BY <2>1
  <2> HIDE DEF f
  <2>3. L \o f = L
    BY <2>2, AppendNone
  <2> QED BY Zenon, <1>2, <2>1, <2>3 DEF CallStep
<1>4. ASSUME NEW x, r.logs = <<x>>, NEW y, y = Insert(x, "address", a),
             LogStep(c, r.contract, y)
      PROVE  CallStep(before, after)
  <2> HIDE DEF r
  <2>1. f = [i \in DOMAIN <<x>> |-> f[i]] /\ f[1] = y
    <3>1. <<x>>[1] = x /\ DOMAIN <<x>> = 1 .. 1 /\ 1 \in 1 .. 1
      OBVIOUS
    <3>2. f[1] = Insert(<<x>>[1], "address", a)
      BY Zenon, <1>4, <3>1
    <3>3. f = [i \in DOMAIN <<x>> |-> f[i]]
      BY <1>4
    <3> QED BY Zenon, <1>4, <3>1, <3>2, <3>3
  <2> HIDE DEF f, a
  <2>2. L \o f = Append(L, y)
    BY Zenon, <2>1, AppendOne
  <2>3. after.logs = Append(L, y) /\ LogStep(c, after.contract, y)
    BY Zenon, <1>2, <1>4, <2>2
  <2> QED BY Zenon, <2>3 DEF CallStep
<1> HIDE DEF f
<1>5. ASSUME NEW d \in Contracts, NEW x, r.contract = d, r.logs = <<x>>, a = "requests",
             "address" \notin DOMAIN x,
             \A y : (\A k \in DOMAIN x : y[k] = x[k]) =>
                        (Registers(c, d, y) \/ Answers(c, d, y) \/ Renames(c, d, y))
      PROVE  CallStep(before, after)
  <2> DEFINE y == Insert(x, "address", a)
  <2>1. y.address = a /\ \A k \in DOMAIN x : y[k] = x[k]
    BY <1>5, InsertAddress
  <2> HIDE DEF y
  <2>2. LogStep(c, r.contract, y)
    BY Zenon, <1>5, <2>1 DEF LogStep
  <2> HIDE DEF r, a
  <2> QED BY Zenon, <1>4, <1>5, <2>2 DEF y
<1>6. c \in [nextRequestId : Nat \ {0}, requests : SUBSET (Nat \ {0}), masterNode : Accounts]
  BY Zenon DEF Contracts
<1>7. \/ call \in [fn : {"register"}, readable : BOOLEAN]
      \/ call \in [fn : {"process"}, from : Accounts, id : Nat, status : Status]
      \/ call \in [fn : {"setMaster"}, from : Accounts, to : Accounts \cup {ZeroAddress}]
      \/ call \in [fn : {"other"}, log : [topic : {"RequestRegistered"}, id : Nat, readable : BOOLEAN]
                       \cup [topic : {"RequestStatusUpdated"}, id : Nat, status : Status]]
  BY Zenon DEF Calls
<1> HIDE DEF c
<1>8. CASE call \in [fn : {"register"}, readable : BOOLEAN]
  <2> DEFINE d == [c EXCEPT !.nextRequestId = c.nextRequestId + 1, !.requests = @ \cup {c.nextRequestId}]
             x == [topic |-> "RequestRegistered", id |-> c.nextRequestId, readable |-> call.readable]
  <2>1. call.fn = "register" /\ call.readable \in BOOLEAN
    BY <1>8
  <2>2. r = registerRequest(c, call.readable)
    BY <2>1 DEF Execute
  <2>3. r.contract = d /\ r.logs = <<x>>
    BY <2>2 DEF registerRequest
  <2>4. a = "requests"
    BY <2>1
  <2>5. /\ d \in Contracts /\ d.nextRequestId = c.nextRequestId + 1
        /\ d.requests = c.requests \cup {c.nextRequestId}
    <3>1. c \in Contracts
      BY Zenon DEF c
    <3> QED BY Zenon, <3>1, RegisterFields DEF d
  <2>6. ASSUME NEW y, \A k \in DOMAIN x : y[k] = x[k] PROVE Registers(c, d, y)
    <3>1. y.topic = x.topic /\ y.id = x.id /\ y.readable = x.readable
      BY <2>6
    <3> HIDE DEF d
    <3> QED BY <2>1, <2>5, <3>1 DEF Registers
  <2>7. "address" \notin DOMAIN x
    OBVIOUS
  <2> HIDE DEF r, d, x, a
  <2> QED BY Zenon, <1>5, <2>3, <2>4, <2>5, <2>6, <2>7
<1>9. CASE call \in [fn : {"process"}, from : Accounts, id : Nat, status : Status]
  <2> DEFINE d == [c EXCEPT !.requests = @ \ {call.id}]
             x == [topic |-> "RequestStatusUpdated", id |-> call.id, status |-> call.status]
             ok == /\ call.from = c.masterNode /\ call.status \in {"Success", "Fail"}
                   /\ call.id \in c.requests
  <2>1. call.fn = "process"
    BY <1>9
  <2>2. r = processRequest(c, call.from, call.id, call.status)
    BY <2>1 DEF Execute
  <2>3. ~ok => r = Reverted(c)
    BY <2>2 DEF processRequest
  <2>4. ok => r.contract = d /\ r.logs = <<x>>
    BY <2>2 DEF processRequest
  <2>5. a = "requests"
    BY <2>1
  <2>6. /\ d \in Contracts /\ d.nextRequestId = c.nextRequestId
        /\ d.requests = c.requests \ {call.id}
    BY <1>6 DEF Contracts
  <2>7. ASSUME ok, NEW y, \A k \in DOMAIN x : y[k] = x[k] PROVE Answers(c, d, y)
    <3>1. y.topic = x.topic /\ y.id = x.id /\ y.status = x.status
      BY <2>7
    <3> HIDE DEF d
    <3> QED BY <2>6, <2>7, <3>1 DEF Answers
  <2>8. "address" \notin DOMAIN x
    OBVIOUS
  <2> HIDE DEF r, d, x, a, ok
  <2> QED BY Zenon, <1>3, <1>5, <2>3, <2>4, <2>5, <2>6, <2>7, <2>8
<1>10. CASE call \in [fn : {"setMaster"}, from : Accounts, to : Accounts \cup {ZeroAddress}]
  <2> DEFINE d == [c EXCEPT !.masterNode = call.to]
             x == [topic |-> "MasterNodeUpdated", newMasterNode |-> call.to]
             ok == call.from = Owner /\ call.to # ZeroAddress
  <2>1. call.fn = "setMaster" /\ call.to \in Accounts \cup {ZeroAddress}
    BY <1>10
  <2>2. r = setMasterNode(c, call.from, call.to)
    BY <2>1 DEF Execute
  <2>3. ~ok => r = Reverted(c)
    BY <2>2 DEF setMasterNode
  <2>4. ok => r.contract = d /\ r.logs = <<x>>
    BY <2>2 DEF setMasterNode
  <2>5. a = "requests"
    BY <2>1
  <2>6. ok => /\ d \in Contracts /\ d.nextRequestId = c.nextRequestId
              /\ d.requests = c.requests
    BY <1>6, <2>1 DEF Contracts
  <2>7. ASSUME ok, NEW y, \A k \in DOMAIN x : y[k] = x[k] PROVE Renames(c, d, y)
    <3>1. y.topic = x.topic
      BY <2>7
    <3> HIDE DEF d
    <3> QED BY <2>6, <2>7, <3>1 DEF Renames
  <2>8. "address" \notin DOMAIN x
    OBVIOUS
  <2> HIDE DEF r, d, x, a, ok
  <2> QED BY Zenon, <1>3, <1>5, <2>3, <2>4, <2>5, <2>6, <2>7, <2>8
<1>11. CASE call \in [fn : {"other"}, log : [topic : {"RequestRegistered"}, id : Nat, readable : BOOLEAN]
                       \cup [topic : {"RequestStatusUpdated"}, id : Nat, status : Status]]
  <2>1. call.fn = "other"
    BY <1>11
  <2>2. r = [contract |-> c, logs |-> <<call.log>>]
    BY <2>1 DEF Execute
  <2>3. r.contract = c /\ r.logs = <<call.log>>
    BY <2>2
  <2>4. a = "other"
    BY <2>1
  <2> DEFINE y == Insert(call.log, "address", a)
  <2>5. y.address = "other"
    BY <2>4, InsertAddress
  <2>6. c \in Contracts
    BY Zenon DEF c
  <2> HIDE DEF y
  <2>7. LogStep(c, r.contract, y)
    BY Zenon, <2>3, <2>5, <2>6 DEF LogStep
  <2> HIDE DEF r, a
  <2> QED BY Zenon, <1>4, <2>3, <2>7 DEF y
<1> QED BY Zenon, <1>7, <1>8, <1>9, <1>10, <1>11

-----------------------------------------------------------------------------
(* The tables and the contract                                             *)

Row == [status : Status, createdAtBlock : Nat, processedAtBlock : Nat]

Having(rows, s) == {id \in DOMAIN rows : rows[id].status = s}

\* The totals count the rows.
CountsRows(t) ==
    /\ IsFiniteSet(DOMAIN t.rows)
    /\ \A id \in DOMAIN t.rows : t.rows[id] \in Row
    /\ t.stats.totalRequests = Cardinality(DOMAIN t.rows)
    /\ t.stats.totalPending = Cardinality(Having(t.rows, "Pending"))
    /\ t.stats.totalSuccessful = Cardinality(Having(t.rows, "Success"))
    /\ t.stats.totalFailed = Cardinality(Having(t.rows, "Fail"))

Readable(S) == {l \in S : l.log.topic = "RequestRegistered" /\ l.log.readable}

\* The rows are those of the readable registrations in S.
ListsRows(rows, S) ==
    /\ DOMAIN rows = {l.log.id : l \in Readable(S)}
    /\ \A l \in Readable(S) : rows[l.log.id].createdAtBlock = l.height

\* The contract has answered each request that is not pending.
Settled(rows, id, S) ==
    \E l \in S : /\ l.log.topic = "RequestStatusUpdated" /\ l.log.id = id
                 /\ rows[id].status = l.log.status /\ rows[id].processedAtBlock = l.height

Answered(c, rows, S) ==
    \A id \in DOMAIN rows :
        IF id \in c.requests THEN rows[id].status = "Pending" ELSE Settled(rows, id, S)

\* The tables t mirror the contract c, which logged S.
Mirror(c, t, S) ==
    /\ c \in Contracts
    /\ CountsRows(t)
    /\ \A id \in DOMAIN t.rows : id \in Nat /\ id < c.nextRequestId
    /\ ListsRows(t.rows, S)
    /\ Answered(c, t.rows, S)

LEMMA EmptyMirrors ==
    ASSUME NEW c \in Contracts
    PROVE  Mirror(c, EmptyTables, {})
<1> DEFINE t == EmptyTables
<1>1. t.rows = <<>> /\ t.stats = NoStats
  BY DEF EmptyTables
<1>2. DOMAIN t.rows = {}
  BY <1>1
<1> HIDE DEF t
<1>3. \A s : Having(t.rows, s) = {}
  BY <1>2 DEF Having
<1>4. IsFiniteSet({}) /\ Cardinality({}) = 0
  BY FS_EmptySet
<1>5. CountsRows(t)
  <2>1. /\ t.stats.totalRequests = 0 /\ t.stats.totalPending = 0
        /\ t.stats.totalSuccessful = 0 /\ t.stats.totalFailed = 0
    BY <1>1 DEF NoStats
  <2>2. IsFiniteSet(DOMAIN t.rows) /\ Cardinality(DOMAIN t.rows) = 0
    BY Zenon, <1>2, <1>4
  <2>3. \A s : Cardinality(Having(t.rows, s)) = 0
    BY Zenon, <1>3, <1>4
  <2>4. \A id \in DOMAIN t.rows : t.rows[id] \in Row
    BY <1>2
  <2> QED BY Zenon, <2>1, <2>2, <2>3, <2>4 DEF CountsRows
<1>6. ListsRows(t.rows, {})
  BY <1>2 DEF ListsRows, Readable
<1>7. Answered(c, t.rows, {})
  BY <1>2 DEF Answered
<1> QED BY <1>2, <1>5, <1>6, <1>7 DEF Mirror, t

Adds(u, t, requests, successful, failed, pending) ==
    /\ u.totalRequests = t.totalRequests + requests
    /\ u.totalPending = t.totalPending + pending
    /\ u.totalSuccessful = t.totalSuccessful + successful
    /\ u.totalFailed = t.totalFailed + failed

LEMMA StatsAdd ==
    ASSUME NEW t, NEW requests, NEW successful, NEW failed, NEW pending, NEW h
    PROVE  Adds(updateStats(t, requests, successful, failed, pending, h), t,
                requests, successful, failed, pending)
BY DEF Adds, updateStats

\* A row more, pending.
LEMMA CountInsert ==
    ASSUME NEW t, CountsRows(t), NEW id, id \notin DOMAIN t.rows, NEW row \in Row,
           row.status = "Pending", NEW u, NEW h,
           u.rows = Insert(t.rows, id, row), u.stats = updateStats(t.stats, 1, 0, 0, 1, h)
    PROVE  CountsRows(u)
<1> DEFINE R == t.rows
           Q == u.rows
<1>1. DOMAIN Q = DOMAIN R \cup {id} /\ Q[id] = row /\ \A x \in DOMAIN R : Q[x] = R[x]
  BY DEF Insert
<1>2. IsFiniteSet(DOMAIN R) /\ \A x \in DOMAIN R : R[x] \in Row
  BY DEF CountsRows
<1> HIDE DEF R, Q
<1>3. \A s : IsFiniteSet(Having(R, s)) /\ id \notin Having(R, s)
  <2>1. \A s : Having(R, s) \in SUBSET DOMAIN R
    BY DEF Having
  <2> QED BY <1>2, <2>1, FS_Subset DEF R
<1>4. Having(Q, "Pending") = Having(R, "Pending") \cup {id}
  BY <1>1 DEF Having, R
<1>5. Having(Q, "Success") = Having(R, "Success") /\ Having(Q, "Fail") = Having(R, "Fail")
  BY <1>1 DEF Having, R
<1>6. IsFiniteSet(DOMAIN Q) /\ \A x \in DOMAIN Q : Q[x] \in Row
  <2>1. IsFiniteSet(DOMAIN R \cup {id})
    BY <1>2, FS_AddElement
  <2> QED BY <1>1, <1>2, <2>1
<1>7. Cardinality(DOMAIN Q) = Cardinality(DOMAIN R) + 1
  BY <1>1, <1>2, FS_AddElement DEF R
<1>8. Cardinality(Having(Q, "Pending")) = Cardinality(Having(R, "Pending")) + 1
  BY <1>3, <1>4, FS_AddElement
<1>9. /\ Cardinality(DOMAIN R) \in Nat /\ Cardinality(Having(R, "Pending")) \in Nat
      /\ Cardinality(Having(R, "Success")) \in Nat /\ Cardinality(Having(R, "Fail")) \in Nat
  BY <1>2, <1>3, FS_CardinalityType
<1>10. /\ t.stats.totalRequests = Cardinality(DOMAIN R)
       /\ t.stats.totalPending = Cardinality(Having(R, "Pending"))
       /\ t.stats.totalSuccessful = Cardinality(Having(R, "Success"))
       /\ t.stats.totalFailed = Cardinality(Having(R, "Fail"))
  BY DEF CountsRows, R
<1>11. /\ u.stats.totalRequests = t.stats.totalRequests + 1
       /\ u.stats.totalPending = t.stats.totalPending + 1
       /\ u.stats.totalSuccessful = t.stats.totalSuccessful + 0
       /\ u.stats.totalFailed = t.stats.totalFailed + 0
  BY DEF updateStats
<1>12. /\ u.stats.totalRequests = Cardinality(DOMAIN Q)
       /\ u.stats.totalPending = Cardinality(Having(Q, "Pending"))
       /\ u.stats.totalSuccessful = Cardinality(Having(Q, "Success"))
       /\ u.stats.totalFailed = Cardinality(Having(Q, "Fail"))
  BY ONLY <1>5, <1>7, <1>8, <1>9, <1>10, <1>11
<1> QED BY <1>6, <1>12 DEF CountsRows, Q

\* A pending row gets its outcome.
LEMMA CountMove ==
    ASSUME NEW t, CountsRows(t), NEW id \in DOMAIN t.rows, t.rows[id].status = "Pending",
           NEW s \in {"Success", "Fail"}, NEW u, NEW h, u.rows \in [DOMAIN t.rows -> Row],
           \A x \in DOMAIN t.rows : x # id => u.rows[x] = t.rows[x],
           u.rows[id].status = s,
           u.stats = updateStats(t.stats, 0, IF s = "Success" THEN 1 ELSE 0,
                                         IF s = "Success" THEN 0 ELSE 1, 0 - 1, h)
    PROVE  CountsRows(u)
<1> DEFINE R == t.rows
           Q == u.rows
<1>1. DOMAIN Q = DOMAIN R /\ Q[id].status = s /\ \A x \in DOMAIN R : x # id => Q[x] = R[x]
  OBVIOUS
<1>2. IsFiniteSet(DOMAIN R) /\ \A x \in DOMAIN Q : Q[x] \in Row
  BY DEF CountsRows
<1>3. id \in DOMAIN R /\ R[id].status = "Pending"
  OBVIOUS
<1> HIDE DEF R, Q
<1>4. \A a : IsFiniteSet(Having(R, a))
  <2>1. \A a : Having(R, a) \in SUBSET DOMAIN R
    BY DEF Having
  <2> QED BY <1>2, <2>1, FS_Subset
<1>5. Having(Q, "Pending") = Having(R, "Pending") \ {id} /\ id \in Having(R, "Pending")
  BY <1>1, <1>3 DEF Having
<1>6. Having(Q, s) = Having(R, s) \cup {id} /\ id \notin Having(R, s)
  BY <1>1, <1>3 DEF Having
<1>7. \A a \in {"Success", "Fail"} : a # s => Having(Q, a) = Having(R, a)
  BY <1>1, <1>3 DEF Having
<1>8. Cardinality(Having(Q, "Pending")) = Cardinality(Having(R, "Pending")) - 1
  BY <1>4, <1>5, FS_RemoveElement
<1>9. Cardinality(Having(Q, s)) = Cardinality(Having(R, s)) + 1
  BY <1>4, <1>6, FS_AddElement
<1>10. /\ Cardinality(DOMAIN R) \in Nat /\ Cardinality(Having(R, "Pending")) \in Nat
       /\ Cardinality(Having(R, "Success")) \in Nat /\ Cardinality(Having(R, "Fail")) \in Nat
  BY <1>2, <1>4, FS_CardinalityType
<1>11. /\ t.stats.totalRequests = Cardinality(DOMAIN R)
       /\ t.stats.totalPending = Cardinality(Having(R, "Pending"))
       /\ t.stats.totalSuccessful = Cardinality(Having(R, "Success"))
       /\ t.stats.totalFailed = Cardinality(Having(R, "Fail"))
  BY DEF CountsRows, R
<1> DEFINE won == IF s = "Success" THEN 1 ELSE 0
           lost == IF s = "Success" THEN 0 ELSE 1
           less == 0 - 1
<1>12. /\ u.stats.totalRequests = t.stats.totalRequests + 0
       /\ u.stats.totalPending = t.stats.totalPending + (0 - 1)
       /\ u.stats.totalSuccessful = t.stats.totalSuccessful + won
       /\ u.stats.totalFailed = t.stats.totalFailed + lost
  <2>1. u.stats = updateStats(t.stats, 0, won, lost, less, h)
    OBVIOUS
  <2> HIDE DEF won, lost, less
  <2>2. Adds(u.stats, t.stats, 0, won, lost, less)
    BY Zenon, <2>1, StatsAdd
  <2> QED BY Zenon, <2>2 DEF Adds, less
<1>13. /\ u.stats.totalRequests = Cardinality(DOMAIN Q)
       /\ u.stats.totalPending = Cardinality(Having(Q, "Pending"))
  BY ONLY <1>1, <1>8, <1>10, <1>11, <1>12
<1>14. /\ u.stats.totalSuccessful = Cardinality(Having(Q, "Success"))
       /\ u.stats.totalFailed = Cardinality(Having(Q, "Fail"))
  <2>1. CASE s = "Success"
    <3>1. Having(Q, "Fail") = Having(R, "Fail")
      BY <1>7, <2>1
    <3>2. Cardinality(Having(Q, "Success")) = Cardinality(Having(R, "Success")) + 1
      BY Zenon, <1>9, <2>1
    <3> QED BY ONLY <1>10, <1>11, <1>12, <2>1, <3>1, <3>2
  <2>2. CASE s = "Fail"
    <3>1. Having(Q, "Success") = Having(R, "Success")
      BY <1>7, <2>2
    <3>2. Cardinality(Having(Q, "Fail")) = Cardinality(Having(R, "Fail")) + 1
      BY Zenon, <1>9, <2>2
    <3> QED BY ONLY <1>10, <1>11, <1>12, <2>2, <3>1, <3>2
  <2> QED BY <2>1, <2>2
<1> QED BY <1>1, <1>2, <1>13, <1>14 DEF CountsRows, Q

\* A log of the contract that neither registers a readable request nor answers one
\* in the tables leaves the tables as they are.
LEMMA StillMirrors ==
    ASSUME NEW c, NEW d \in Contracts, NEW t, NEW S, Mirror(c, t, S), NEW N,
           \A l \in N : ~(l.log.topic = "RequestRegistered" /\ l.log.readable),
           c.nextRequestId \in Nat, d.nextRequestId \in Nat, c.nextRequestId <= d.nextRequestId,
           \A id \in DOMAIN t.rows : id \in d.requests <=> id \in c.requests
    PROVE  Mirror(d, t, S \cup N)
<1>1. /\ CountsRows(t)
      /\ \A id \in DOMAIN t.rows : id \in Nat /\ id < c.nextRequestId
      /\ ListsRows(t.rows, S) /\ Answered(c, t.rows, S)
  BY DEF Mirror
<1>2. Readable(S \cup N) = Readable(S)
  BY DEF Readable
<1>3. ListsRows(t.rows, S \cup N)
  BY Zenon, <1>1, <1>2 DEF ListsRows
<1>4. \A id : Settled(t.rows, id, S) => Settled(t.rows, id, S \cup N)
  BY DEF Settled
<1>5. Answered(d, t.rows, S \cup N)
  BY Zenon, <1>1, <1>4 DEF Answered
<1>6. \A id \in DOMAIN t.rows : id \in Nat /\ id < d.nextRequestId
  BY <1>1
<1> QED BY Zenon, <1>1, <1>3, <1>5, <1>6 DEF Mirror

LEMMA RegisterMirrors ==
    ASSUME NEW c, NEW d \in Contracts, NEW t, NEW S, Mirror(c, t, S), NEW x, NEW h \in Nat,
           Registers(c, d, x), x.readable
    PROVE  Mirror(d, handleRequestRegistered(t, x, h), S \cup {[log |-> x, height |-> h]})
<1> DEFINE u == handleRequestRegistered(t, x, h)
           l == [log |-> x, height |-> h]
           W == S \cup {l}
           row == [status |-> "Pending", createdAtBlock |-> h, processedAtBlock |-> 0]
           R == t.rows
           Q == u.rows
<1>1. /\ c \in Contracts /\ CountsRows(t)
      /\ \A id \in DOMAIN R : id \in Nat /\ id < c.nextRequestId
      /\ ListsRows(R, S) /\ Answered(c, R, S)
  BY Zenon DEF Mirror
<1>2. u.rows = Insert(t.rows, x.id, row) /\ u.stats = updateStats(t.stats, 1, 0, 0, 1, h)
  BY DEF handleRequestRegistered
<1>3. row \in Row /\ row.status = "Pending" /\ row.createdAtBlock = h
  BY DEF Row, Status
<1>4. /\ c.nextRequestId \in Nat /\ x.id = c.nextRequestId /\ d.nextRequestId = c.nextRequestId + 1
      /\ d.requests = c.requests \cup {x.id} /\ x.topic = "RequestRegistered"
  BY <1>1 DEF Registers, Contracts
<1>5. x.id \notin DOMAIN R
  BY <1>1, <1>4
<1> HIDE DEF u, row
<1>6. CountsRows(u)
  BY Zenon, <1>1, <1>2, <1>3, <1>5, CountInsert
<1>7. DOMAIN Q = DOMAIN R \cup {x.id} /\ Q[x.id] = row /\ \A id \in DOMAIN R : Q[id] = R[id]
  BY <1>2, <1>5 DEF Insert
<1>8. \A id \in DOMAIN Q : id \in Nat /\ id < d.nextRequestId
  BY <1>1, <1>4, <1>7
<1>9. l.log = x /\ l.height = h
  OBVIOUS
<1> HIDE DEF l, Q, R
<1>10. Readable(W) = Readable(S) \cup {l}
  BY <1>4, <1>9 DEF Readable
<1>11. /\ DOMAIN R = {k.log.id : k \in Readable(S)}
       /\ \A k \in Readable(S) : R[k.log.id].createdAtBlock = k.height
  BY Zenon, <1>1 DEF ListsRows
<1>12. ListsRows(Q, W)
  <2>1. DOMAIN Q = {k.log.id : k \in Readable(W)}
    BY <1>7, <1>9, <1>10, <1>11
  <2>2. ASSUME NEW k \in Readable(W) PROVE Q[k.log.id].createdAtBlock = k.height
    <3>1. CASE k = l
      BY Zenon, <1>3, <1>7, <1>9, <3>1
    <3>2. CASE k # l
      <4>1. k \in Readable(S)
        BY <1>10, <3>2
      <4>2. k.log.id \in DOMAIN R
        BY <1>11, <4>1
      <4> QED BY Zenon, <1>7, <1>11, <4>1, <4>2
    <3> QED BY <3>1, <3>2
  <2> QED BY Zenon, <2>1, <2>2 DEF ListsRows
<1>13. Answered(d, Q, W)
  <2> SUFFICES ASSUME NEW id \in DOMAIN Q
               PROVE IF id \in d.requests THEN Q[id].status = "Pending" ELSE Settled(Q, id, W)
    BY Zenon DEF Answered
  <2>1. CASE id = x.id
    BY Zenon, <1>3, <1>4, <1>7, <2>1
  <2>2. CASE id # x.id
    <3>1. id \in DOMAIN R /\ Q[id] = R[id]
      BY <1>7, <2>2
    <3>2. id \in d.requests <=> id \in c.requests
      BY <1>4, <2>2
    <3>3. IF id \in c.requests THEN R[id].status = "Pending" ELSE Settled(R, id, S)
      BY Zenon, <1>1, <3>1 DEF Answered
    <3>4. Settled(R, id, S) => Settled(Q, id, W)
      BY <3>1 DEF Settled
    <3> QED BY Zenon, <3>1, <3>2, <3>3, <3>4
  <2> QED BY <2>1, <2>2
<1> QED BY Zenon, <1>6, <1>8, <1>12, <1>13 DEF Mirror, Q, W, l, u

LEMMA AnswerMirrors ==
    ASSUME NEW c, NEW d \in Contracts, NEW t, NEW S, Mirror(c, t, S), NEW x, NEW h \in Nat,
           Answers(c, d, x), x.id \in DOMAIN t.rows
    PROVE  Mirror(d, handleRequestStatusUpdated(t, x, h), S \cup {[log |-> x, height |-> h]})
<1> DEFINE u == handleRequestStatusUpdated(t, x, h)
           l == [log |-> x, height |-> h]
           W == S \cup {l}
           R == t.rows
           Q == u.rows
<1>1. /\ c \in Contracts /\ CountsRows(t)
      /\ \A id \in DOMAIN R : id \in Nat /\ id < c.nextRequestId
      /\ ListsRows(R, S) /\ Answered(c, R, S)
  BY Zenon DEF Mirror
<1>2. /\ x.topic = "RequestStatusUpdated" /\ x.id \in c.requests /\ x.status \in {"Success", "Fail"}
      /\ d.nextRequestId = c.nextRequestId /\ d.requests = c.requests \ {x.id}
  BY DEF Answers
<1>3. R[x.id].status = "Pending" /\ R[x.id] \in Row /\ x.id \in DOMAIN R
  BY <1>1, <1>2 DEF Answered, CountsRows
<1> DEFINE new == [R[x.id] EXCEPT !.status = x.status, !.processedAtBlock = h]
<1>4. new \in Row /\ new.status = x.status /\ new.processedAtBlock = h
      /\ new.createdAtBlock = R[x.id].createdAtBlock
  BY <1>2, <1>3 DEF Row, Status
<1>5. u.rows = [R EXCEPT ![x.id] = new]
  <2>1. (IF x.status = "Success" THEN "Success" ELSE "Fail") = x.status
    BY <1>2
  <2> QED BY <1>2, <1>3, <2>1 DEF handleRequestStatusUpdated
<1>6. u.stats = updateStats(t.stats, 0, IF x.status = "Success" THEN 1 ELSE 0,
                                    IF x.status = "Success" THEN 0 ELSE 1, 0 - 1, h)
  BY <1>3 DEF handleRequestStatusUpdated
<1> HIDE DEF u, new
<1>7. DOMAIN Q = DOMAIN R /\ Q[x.id] = new /\ \A id \in DOMAIN R : id # x.id => Q[id] = R[id]
  BY <1>3, <1>5
<1>8. Q \in [DOMAIN R -> Row]
  BY <1>1, <1>4, <1>5, <1>7 DEF CountsRows
<1>9. CountsRows(u)
  <2>1. Q[x.id].status = x.status
    BY <1>4, <1>7
  <2>2. \A y \in DOMAIN t.rows : y # x.id => u.rows[y] = t.rows[y]
    BY <1>7
  <2>3. x.id \in DOMAIN t.rows /\ t.rows[x.id].status = "Pending" /\ x.status \in {"Success", "Fail"}
    BY <1>2, <1>3
  <2> QED BY <1>1, <1>6, <1>8, <2>1, <2>2, <2>3, CountMove
<1>10. \A id \in DOMAIN Q : id \in Nat /\ id < d.nextRequestId
  BY <1>1, <1>2, <1>7
<1>11. l.log = x /\ l.height = h
  OBVIOUS
<1> HIDE DEF l, Q, R
<1>12. Readable(W) = Readable(S)
  BY <1>2, <1>11 DEF Readable
<1>13. \A id \in DOMAIN R : Q[id].createdAtBlock = R[id].createdAtBlock
  BY Zenon, <1>3, <1>4, <1>7
<1>14. ListsRows(Q, W)
  <2>1. /\ DOMAIN R = {k.log.id : k \in Readable(S)}
        /\ \A k \in Readable(S) : R[k.log.id].createdAtBlock = k.height
    BY Zenon, <1>1 DEF ListsRows
  <2>2. \A k \in Readable(S) : k.log.id \in DOMAIN R
    BY <2>1
  <2>3. \A k \in Readable(S) : Q[k.log.id].createdAtBlock = k.height
    BY Zenon, <1>13, <2>1, <2>2
  <2> QED BY Zenon, <1>7, <1>12, <2>1, <2>3 DEF ListsRows
<1>15. Answered(d, Q, W)
  <2> SUFFICES ASSUME NEW id \in DOMAIN Q
               PROVE IF id \in d.requests THEN Q[id].status = "Pending" ELSE Settled(Q, id, W)
    BY Zenon DEF Answered
  <2>1. CASE id = x.id
    <3>1. id \notin d.requests
      BY <1>2, <2>1
    <3>2. l \in W /\ l.log.topic = "RequestStatusUpdated" /\ l.log.id = id
      BY <1>2, <1>11, <2>1
    <3>3. Q[id].status = l.log.status /\ Q[id].processedAtBlock = l.height
      BY Zenon, <1>4, <1>7, <1>11, <2>1
    <3>4. Settled(Q, id, W)
      BY Zenon, <3>2, <3>3 DEF Settled
    <3> QED BY <3>1, <3>4
  <2>2. CASE id # x.id
    <3>1. id \in DOMAIN R /\ Q[id] = R[id]
      BY <1>7, <2>2
    <3>2. id \in d.requests <=> id \in c.requests
      BY <1>2, <2>2
    <3>3. IF id \in c.requests THEN R[id].status = "Pending" ELSE Settled(R, id, S)
      BY Zenon, <1>1, <3>1 DEF Answered
    <3>4. Settled(R, id, S) => Settled(Q, id, W)
      BY <3>1 DEF Settled
    <3> QED BY Zenon, <3>1, <3>2, <3>3, <3>4
  <2> QED BY <2>1, <2>2
<1> QED BY Zenon, <1>9, <1>10, <1>14, <1>15 DEF Mirror, Q, W, l, u

\* Handling the log that a call left keeps the tables the mirror of the contract.
LEMMA LogMirrors ==
    ASSUME NEW c, NEW d, NEW t, NEW S, Mirror(c, t, S), NEW x, NEW h \in Nat, LogStep(c, d, x)
    PROVE  Mirror(d, handleEthereumLog(t, x, h), S \cup OwnLog(x, h))
<1> DEFINE l == [log |-> x, height |-> h]
           u == handleEthereumLog(t, x, h)
<1>1. d \in Contracts /\ c \in Contracts /\ c.nextRequestId \in Nat /\ d.nextRequestId \in Nat
  BY DEF LogStep, Mirror, Contracts
<1>2. \A id \in DOMAIN t.rows : id \in Nat /\ id < c.nextRequestId
  BY Zenon DEF Mirror
<1>3. l.log = x
  OBVIOUS
<1>4. CASE x.address = "other" /\ d = c
  <2>0. x.address # "requests"
    BY <1>4
  <2>1. u = t /\ OwnLog(x, h) = {}
    <3>1. u = t
      BY <2>0 DEF handleEthereumLog
    <3>2. OwnLog(x, h) = {}
      BY Zenon, <2>0 DEF OwnLog
    <3> QED BY <3>1, <3>2
  <2>2. S \cup {} = S
    OBVIOUS
  <2> QED BY Zenon, <1>4, <2>1, <2>2
<1>5. ASSUME x.address = "requests" PROVE OwnLog(x, h) = {l}
  BY Zenon, <1>5 DEF OwnLog
<1>6. CASE x.address = "requests" /\ Registers(c, d, x)
  <2>1. x.topic = "RequestRegistered"
    BY <1>6 DEF Registers
  <2>2. u = handleRequestRegistered(t, x, h)
    BY <1>6, <2>1 DEF handleEthereumLog
  <2>3. CASE x.readable
    <3>1. Mirror(d, handleRequestRegistered(t, x, h), S \cup {l})
      BY <1>1, <1>6, <2>3, RegisterMirrors
    <3> QED BY Zenon, <1>5, <1>6, <2>2, <3>1
  <2>4. CASE ~x.readable
    <3>1. u = t
      BY <2>2, <2>4 DEF handleRequestRegistered
    <3>2. \A k \in {l} : ~(k.log.topic = "RequestRegistered" /\ k.log.readable)
      BY <1>3, <2>4
    <3>3. c.nextRequestId <= d.nextRequestId
      BY <1>1, <1>6 DEF Registers
    <3>4. \A id \in DOMAIN t.rows : id \in d.requests <=> id \in c.requests
      BY <1>1, <1>2, <1>6 DEF Registers
    <3> HIDE DEF l, u
    <3>5. Mirror(d, t, S \cup {l})
      BY <1>1, <3>2, <3>3, <3>4, StillMirrors
    <3> QED BY Zenon, <1>5, <1>6, <3>1, <3>5 DEF u
  <2> QED BY <2>3, <2>4
<1>7. CASE x.address = "requests" /\ Answers(c, d, x)
  <2>1. x.topic = "RequestStatusUpdated"
    BY <1>7 DEF Answers
  <2>2. u = handleRequestStatusUpdated(t, x, h)
    BY <1>7, <2>1 DEF handleEthereumLog
  <2>3. CASE x.id \in DOMAIN t.rows
    <3>1. Mirror(d, handleRequestStatusUpdated(t, x, h), S \cup {l})
      BY <1>1, <1>7, <2>3, AnswerMirrors
    <3> QED BY Zenon, <1>5, <1>7, <2>2, <3>1
  <2>4. CASE x.id \notin DOMAIN t.rows
    <3>1. u = t
      BY Zenon, <2>2, <2>4 DEF handleRequestStatusUpdated
    <3>2. \A k \in {l} : ~(k.log.topic = "RequestRegistered" /\ k.log.readable)
      BY <1>3, <2>1
    <3>3. c.nextRequestId <= d.nextRequestId
      BY <1>1, <1>7 DEF Answers
    <3>4. \A id \in DOMAIN t.rows : id \in d.requests <=> id \in c.requests
      BY <2>4, <1>7 DEF Answers
    <3> HIDE DEF l, u
    <3>5. Mirror(d, t, S \cup {l})
      BY <1>1, <3>2, <3>3, <3>4, StillMirrors
    <3> QED BY Zenon, <1>5, <1>7, <3>1, <3>5 DEF u
  <2> QED BY <2>3, <2>4
<1>8. CASE x.address = "requests" /\ Renames(c, d, x)
  <2>1. x.topic = "MasterNodeUpdated"
    BY <1>8 DEF Renames
  <2>2. u = t
    BY <1>8, <2>1 DEF handleEthereumLog
  <2>3. \A k \in {l} : ~(k.log.topic = "RequestRegistered" /\ k.log.readable)
    BY <1>3, <2>1
  <2>4. c.nextRequestId <= d.nextRequestId /\ d.requests = c.requests
    BY <1>1, <1>8 DEF Renames
  <2> HIDE DEF l, u
  <2>5. Mirror(d, t, S \cup {l})
    BY <1>1, <2>3, <2>4, StillMirrors
  <2> QED BY Zenon, <1>5, <1>8, <2>2, <2>5 DEF u
<1> QED BY Zenon, <1>4, <1>6, <1>7, <1>8 DEF LogStep

\* U are the tables after each log of L, from t on.
Handled(U, t, L, h) ==
    U[0] = t /\ \A i \in 1 .. Len(L) : U[i] = handleEthereumLog(U[i - 1], L[i], h)

\* The tables after the logs L, which took the contract to c, mirror it.
Follows(U, t, L, h, c, S) ==
    /\ Handled(U, t, L, h)
    /\ \A i \in 0 .. Len(L) : CountsRows(U[i])
    /\ Mirror(c, U[Len(L)], S)

Followed(t, L, h, c, S) == \E U : Follows(U, t, L, h, c, S)

\* What calls left behind, after a contract mirrored by t that had logged S.
GoodSoFar(acc, t, S, h) ==
    /\ IsSequence(acc.logs)
    /\ Followed(t, acc.logs, h, acc.contract, S \cup OwnLogs(acc.logs, h))

LEMMA OwnLogsGrow ==
    ASSUME NEW L, IsSequence(L), NEW x, NEW h
    PROVE  OwnLogs(Append(L, x), h) = OwnLogs(L, h) \cup OwnLog(x, h)
<1> DEFINE k == Len(L)
           M == Append(L, x)
<1>1. /\ k \in Nat /\ DOMAIN L = 1 .. k /\ DOMAIN M = 1 .. k + 1
      /\ M[k + 1] = x /\ \A i \in 1 .. k : M[i] = L[i]
  BY AppendIs
<1> HIDE DEF k, M
<1>2. 1 .. k + 1 = (1 .. k) \cup {k + 1}
  BY <1>1
<1>3. OwnLogs(M, h) \subseteq OwnLogs(L, h) \cup OwnLog(x, h)
  <2> SUFFICES ASSUME NEW l \in OwnLogs(M, h) PROVE l \in OwnLogs(L, h) \cup OwnLog(x, h)
    BY Zenon
  <2>1. PICK i \in DOMAIN M : M[i].address = "requests" /\ l = [log |-> M[i], height |-> h]
    BY Zenon DEF OwnLogs
  <2>2. CASE i = k + 1
    <3>1. l \in OwnLog(x, h)
      BY <1>1, <2>1, <2>2 DEF OwnLog
    <3> QED BY <3>1
  <2>3. CASE i \in 1 .. k
    <3>1. l \in OwnLogs(L, h)
      BY <1>1, <2>1, <2>3 DEF OwnLogs
    <3> QED BY <3>1
  <2> QED BY Zenon, <1>1, <1>2, <2>1, <2>2, <2>3
<1>4. OwnLogs(L, h) \subseteq OwnLogs(M, h)
  <2> SUFFICES ASSUME NEW l \in OwnLogs(L, h) PROVE l \in OwnLogs(M, h)
    BY Zenon
  <2>1. PICK i \in DOMAIN L : L[i].address = "requests" /\ l = [log |-> L[i], height |-> h]
    BY Zenon DEF OwnLogs
  <2>2. i \in DOMAIN M /\ M[i] = L[i]
    BY <1>1, <1>2, <2>1
  <2> QED BY <2>1, <2>2 DEF OwnLogs
<1>5. OwnLog(x, h) \subseteq OwnLogs(M, h)
  <2> SUFFICES ASSUME NEW l \in OwnLog(x, h) PROVE l \in OwnLogs(M, h)
    BY Zenon
  <2>1. x.address = "requests" /\ l = [log |-> x, height |-> h]
    BY DEF OwnLog
  <2>2. k + 1 \in DOMAIN M
    BY <1>1, <1>2
  <2> QED BY <1>1, <2>1, <2>2 DEF OwnLogs
<1> QED BY Zenon, <1>3, <1>4, <1>5 DEF M

LEMMA NothingCalled ==
    ASSUME NEW c, NEW t, NEW S, Mirror(c, t, S), NEW h
    PROVE  GoodSoFar(Uncalled(c), t, S, h)
<1> DEFINE L == Uncalled(c).logs
           U == [i \in 0 .. 0 |-> t]
<1>1. L = <<>> /\ Uncalled(c).contract = c
  BY DEF Uncalled
<1>2. Len(L) = 0 /\ DOMAIN L = {} /\ IsSequence(L)
  <2>1. <<>> \in Seq({})
    OBVIOUS
  <2> QED BY <1>1, <2>1 DEF IsSequence
<1> HIDE DEF L
<1>3. OwnLogs(L, h) = {}
  BY <1>2 DEF OwnLogs
<1>4. S \cup {} = S
  OBVIOUS
<1>5. \A i \in 0 .. 0 : U[i] = t
  OBVIOUS
<1> HIDE DEF U
<1>6. U[0] = t
  BY <1>5
<1>7. Handled(U, t, L, h)
  BY <1>2, <1>6 DEF Handled
<1>8. \A i \in 0 .. Len(L) : CountsRows(U[i])
  <2>1. CountsRows(t)
    BY DEF Mirror
  <2> QED BY <1>2, <1>5, <2>1
<1>9. Mirror(c, U[Len(L)], S \cup OwnLogs(L, h))
  BY Zenon, <1>2, <1>3, <1>4, <1>6
<1>10. Followed(t, L, h, c, S \cup OwnLogs(L, h))
  BY Zenon, <1>7, <1>8, <1>9 DEF Followed, Follows
<1> QED BY Zenon, <1>1, <1>2, <1>10 DEF GoodSoFar, L

LEMMA CallKeepsGood ==
    ASSUME NEW before, NEW after, CallStep(before, after), NEW t, NEW S, NEW h \in Nat,
           GoodSoFar(before, t, S, h)
    PROVE  GoodSoFar(after, t, S, h)
<1>1. CASE after.contract = before.contract /\ after.logs = before.logs
  BY Zenon, <1>1 DEF GoodSoFar
<1>2. CASE \E x : after.logs = Append(before.logs, x) /\ LogStep(before.contract, after.contract, x)
  <2> DEFINE L == before.logs
             k == Len(L)
             M == after.logs
             W == S \cup OwnLogs(L, h)
  <2>1. PICK x : M = Append(L, x) /\ LogStep(before.contract, after.contract, x)
    BY <1>2
  <2>2. IsSequence(L)
    BY Zenon DEF GoodSoFar
  <2>3. PICK U : Follows(U, t, L, h, before.contract, W)
    BY Zenon DEF GoodSoFar, Followed
  <2> HIDE DEF L, M
  <2>4. /\ IsSequence(M) /\ k \in Nat /\ Len(M) = k + 1 /\ M[k + 1] = x
        /\ \A i \in 1 .. k : M[i] = L[i]
    BY <2>1, <2>2, AppendIs
  <2>5. /\ U[0] = t /\ \A i \in 1 .. k : U[i] = handleEthereumLog(U[i - 1], L[i], h)
        /\ \A i \in 0 .. k : CountsRows(U[i])
        /\ Mirror(before.contract, U[k], W)
    BY Zenon, <2>3 DEF Follows, Handled
  <2> DEFINE new == handleEthereumLog(U[k], x, h)
             V == [i \in 0 .. k + 1 |-> IF i = k + 1 THEN new ELSE U[i]]
  <2> HIDE DEF k, new, W
  <2>6. Mirror(after.contract, new, W \cup OwnLog(x, h))
    BY <2>1, <2>5, LogMirrors DEF new
  <2>7. W \cup OwnLog(x, h) = S \cup OwnLogs(M, h)
    <3>1. OwnLogs(M, h) = OwnLogs(L, h) \cup OwnLog(x, h)
      BY <2>1, <2>2, OwnLogsGrow
    <3> QED BY <3>1 DEF W
  <2>8. V[k + 1] = new /\ \A i \in 0 .. k : V[i] = U[i]
    BY <2>4
  <2> HIDE DEF V
  <2>9. Handled(V, t, M, h)
    <3>1. V[0] = t
      BY <2>4, <2>5, <2>8
    <3>2. ASSUME NEW i \in 1 .. k + 1 PROVE V[i] = handleEthereumLog(V[i - 1], M[i], h)
      <4>1. CASE i = k + 1
        <5>1. i - 1 = k /\ k \in 0 .. k
          BY <2>4, <4>1
        <5> QED BY Zenon, <2>4, <2>8, <4>1, <5>1 DEF new
      <4>2. CASE i # k + 1
        <5>1. i \in 1 .. k /\ i \in 0 .. k /\ i - 1 \in 0 .. k
          BY <2>4, <4>2
        <5> QED BY Zenon, <2>4, <2>5, <2>8, <5>1
      <4> QED BY <4>1, <4>2
    <3> QED BY Zenon, <2>4, <3>1, <3>2 DEF Handled
  <2>10. \A i \in 0 .. Len(M) : CountsRows(V[i])
    <3>1. CountsRows(new)
      BY Zenon, <2>6 DEF Mirror
    <3>2. \A i \in 0 .. k + 1 : i = k + 1 \/ i \in 0 .. k
      BY <2>4
    <3> QED BY Zenon, <2>4, <2>5, <2>8, <3>1, <3>2
  <2>11. Mirror(after.contract, V[Len(M)], S \cup OwnLogs(M, h))
    BY Zenon, <2>4, <2>6, <2>7, <2>8
  <2>12. Followed(t, M, h, after.contract, S \cup OwnLogs(M, h))
    BY Zenon, <2>9, <2>10, <2>11 DEF Followed, Follows
  <2> QED BY Zenon, <2>4, <2>12 DEF GoodSoFar, M
<1> QED BY Zenon, <1>1, <1>2 DEF CallStep

\* The tables after a block mirror the contract after it, if those before did.
LEMMA BlockMirrors ==
    ASSUME NEW calls \in Seq(Calls), NEW c, NEW t, NEW S,
           Mirror(c, t, S), NEW h \in Nat
    PROVE  GoodSoFar(BlockAfter(c, calls), t, S, h)
<1> DEFINE n == Len(calls)
<1>1. n \in Nat /\ DOMAIN calls = 1 .. n /\ \A i \in 1 .. n : calls[i] \in Calls
  OBVIOUS
<1> HIDE DEF n
<1>2. PICK f : CallRun(f, c, calls, n) /\ BlockAfter(c, calls) = f[n]
  BY <1>1, BlockRuns
<1>3. f[0] = Uncalled(c) /\ \A i \in 1 .. n : f[i] = AfterCall(f[i - 1], calls[i])
  BY Zenon, <1>2 DEF CallRun
<1> DEFINE P == {i \in 0 .. n : GoodSoFar(f[i], t, S, h)}
<1>4. 0 \in P
  BY <1>1, <1>3, NothingCalled
<1>5. ASSUME NEW i \in 1 .. n, i - 1 \in P PROVE i \in P
  <2>1. GoodSoFar(f[i - 1], t, S, h)
    BY Zenon, <1>5
  <2>2. IsSequence(f[i - 1].logs) /\ f[i - 1].contract \in Contracts
    BY Zenon, <2>1 DEF GoodSoFar, Followed, Follows, Mirror
  <2>3. CallStep(f[i - 1], AfterCall(f[i - 1], calls[i]))
    BY <1>1, <2>2, CallSteps
  <2>4. CallStep(f[i - 1], f[i])
    BY Zenon, <1>3, <2>3
  <2>5. GoodSoFar(f[i], t, S, h)
    BY <2>1, <2>4, CallKeepsGood
  <2>6. i \in 0 .. n
    OBVIOUS
  <2> QED BY Zenon, <2>5, <2>6
<1>6. 0 .. n \subseteq P
  <2> HIDE DEF P
  <2> QED BY <1>1, <1>4, <1>5, StepsKeep
<1>7. n \in P
  BY <1>1, <1>6
<1> QED BY Zenon, <1>2, <1>7

-----------------------------------------------------------------------------
(* The invariant                                                           *)

\* The blocks of a tree: their logs lead from the contract of the parent to their
\* own, and so do tables that mirror the one to tables that mirror the other.
Leads(c, b) ==
    \A t : Mirror(c[c[b].parent].contract, t, LogsUpto(c, c[b].parent))
              => Followed(t, c[b].logs, c[b].height, c[b].contract, LogsUpto(c, b))

Sound(c, n) ==
    /\ \A b \in 0 .. n : c[b].contract \in Contracts /\ IsSequence(c[b].logs)
    /\ \A b \in 1 .. n : c[b].height >= StartHeight => Leads(c, b)

\* Indexed blocks, each with the mirror of its contract.
Faithful(c, e) ==
    e.block \in DOMAIN c /\ Mirror(c[e.block].contract, e.tables, LogsUpto(c, e.block))

Line(c, L) == IsSequence(L) /\ \A i \in 1 .. Len(L) : Faithful(c, L[i])

\* Blocks to index, each the parent of the next.
Todo(c, Q) ==
    /\ IsSequence(Q)
    /\ \A i \in 1 .. Len(Q) : Q[i] \in DOMAIN c \ {0} /\ c[Q[i]].height >= StartHeight
    /\ \A i \in 1 .. Len(Q) - 1 : c[Q[i + 1]].parent = Q[i]

\* t are the tables before log g of block b.
AtBlock(c, b, t, g) ==
    \E U, t0 : /\ Follows(U, t0, c[b].logs, c[b].height, c[b].contract, LogsUpto(c, b))
               /\ g \in 1 .. Len(c[b].logs) + 1 /\ t = U[g - 1]

BatchSound(c, k) ==
    /\ k = [running |-> k.running, base |-> k.base, blocks |-> k.blocks, tables |-> k.tables,
            log |-> k.log]
    /\ k.running \in BOOLEAN
    /\ Line(c, k.base) /\ Todo(c, k.blocks) /\ CountsRows(k.tables)
    /\ k.blocks # <<>> => AtBlock(c, k.blocks[1], k.tables, k.log)

ChainInv == \E n : Tree(chain, n) /\ Sound(chain, n) /\ best \in 0 .. n /\ final \in 0 .. n

IndexerInv ==
    /\ switches \in 0 .. MaxSwitches /\ crashes \in 0 .. MaxCrashes
    /\ ChainInv
    /\ Line(chain, indexed)
    /\ BatchSound(chain, batch)

LEMMA IndexerInvImplies == IndexerInv => TablesMirrorContract
<1> SUFFICES ASSUME IndexerInv PROVE TablesMirrorContract
  OBVIOUS
<1> DEFINE k == Len(indexed)
<1>1. PICK n : Tree(chain, n) /\ Sound(chain, n) /\ best \in 0 .. n /\ final \in 0 .. n
  BY Zenon DEF IndexerInv, ChainInv
<1>2. DOMAIN chain = 0 .. n /\ n \in Nat
  BY <1>1 DEF Tree
<1>3. IsSequence(indexed) /\ \A i \in 1 .. k : Faithful(chain, indexed[i])
  BY Zenon DEF IndexerInv, Line
<1>4. DOMAIN indexed = 1 .. k /\ k \in Nat /\ (indexed # <<>> => k \in 1 .. k)
  BY <1>3 DEF IsSequence
<1>5. BatchSound(chain, batch)
  BY Zenon DEF IndexerInv
<1>6. \A t : CountsRows(t) => \A id \in DOMAIN t.rows : t.rows[id].status \in Status
  BY DEF CountsRows, Row
<1>7. TablesTyped
  <2>1. \A b \in DOMAIN chain : chain[b].contract \in Contracts
    BY Zenon, <1>1, <1>2 DEF Sound
  <2>2. best \in DOMAIN chain /\ final \in DOMAIN chain
    BY Zenon, <1>1, <1>2
  <2>3. ASSUME NEW i \in DOMAIN indexed
        PROVE  /\ indexed[i].block \in DOMAIN chain
               /\ \A id \in DOMAIN indexed[i].tables.rows :
                      indexed[i].tables.rows[id].status \in Status
    BY Zenon, <1>3, <1>4, <1>6 DEF Faithful, Mirror
  <2>4. batch.running \in BOOLEAN
    BY Zenon, <1>5 DEF BatchSound
  <2>5. switches \in 0 .. MaxSwitches /\ crashes \in 0 .. MaxCrashes
    BY Zenon DEF IndexerInv
  <2> QED BY Zenon, <2>1, <2>2, <2>3, <2>4, <2>5 DEF TablesTyped
<1>8. indexed # <<>> => Last(indexed) = indexed[k] /\ Tables = indexed[k].tables
  BY Zenon DEF Last, Tables
<1>9. RowsMirrorContract
  <2> SUFFICES ASSUME indexed # <<>>
               PROVE  RowsMirrorContract
    BY Zenon DEF RowsMirrorContract
  <2> DEFINE b == Last(indexed).block
             rows == Tables.rows
             S == LogsOf(b)
  <2>1. Mirror(chain[b].contract, Tables, S)
    <3>1. Faithful(chain, indexed[k])
      BY Zenon, <1>3, <1>4
    <3>2. S = LogsUpto(chain, b)
      BY Zenon, LogsOfIs
    <3> QED BY Zenon, <1>8, <3>1, <3>2 DEF Faithful
  <2>2. ListsRows(rows, S) /\ Answered(chain[b].contract, rows, S)
    BY Zenon, <2>1 DEF Mirror
  <2>3. Registered(b) = Readable(S)
    BY Zenon DEF Registered, Readable
  <2> HIDE DEF b, rows, S
  <2>4. DOMAIN rows = {l.log.id : l \in Registered(b)}
    BY Zenon, <2>2, <2>3 DEF ListsRows
  <2>5. \A l \in Registered(b) : rows[l.log.id].createdAtBlock = l.height
    BY Zenon, <2>2, <2>3 DEF ListsRows
  <2>6. \A id \in DOMAIN rows :
            IF id \in chain[b].contract.requests
            THEN rows[id].status = "Pending"
            ELSE \E l \in S : /\ l.log.topic = "RequestStatusUpdated" /\ l.log.id = id
                              /\ rows[id].status = l.log.status
                              /\ rows[id].processedAtBlock = l.height
    BY Zenon, <2>2 DEF Answered, Settled
  <2> QED BY Zenon, <2>4, <2>5, <2>6 DEF RowsMirrorContract, b, rows, S
<1>10. StatsExact
  <2>1. CountsRows(batch.tables)
    BY Zenon, <1>5 DEF BatchSound
  <2>2. CountsRows(Tables)
    <3>1. CASE indexed = <<>>
      <4>1. Tables = EmptyTables
        BY <3>1 DEF Tables
      <4>2. chain[0].contract \in Contracts
        BY <1>1, <1>2 DEF Sound
      <4> QED BY Zenon, <4>1, <4>2, EmptyMirrors DEF Mirror
    <3>2. CASE indexed # <<>>
      BY Zenon, <1>3, <1>4, <1>8, <3>2 DEF Faithful, Mirror
    <3> QED BY <3>1, <3>2
  <2> SUFFICES ASSUME NEW t \in {Tables, batch.tables}
               PROVE  /\ t.stats.totalRequests = Cardinality(DOMAIN t.rows)
                      /\ t.stats.totalPending = Cardinality(Having(t.rows, "Pending"))
                      /\ t.stats.totalSuccessful = Cardinality(Having(t.rows, "Success"))
                      /\ t.stats.totalFailed = Cardinality(Having(t.rows, "Fail"))
    BY Zenon DEF StatsExact, Having
  <2>3. CountsRows(t)
    BY Zenon, <2>1, <2>2
  <2> QED BY Zenon, <2>3 DEF CountsRows
<1> QED BY Zenon, <1>7, <1>9, <1>10 DEF TablesMirrorContract

LEMMA IndexerStarts == IndexerInit => IndexerInv
<1> SUFFICES ASSUME IndexerInit PROVE IndexerInv
  OBVIOUS
<1> DEFINE genesis == [parent |-> 0, height |-> 0, contract |-> Deployed, logs |-> <<>>]
<1>1. chain = [b \in {0} |-> genesis] /\ best = 0 /\ final = 0 /\ switches = 0 /\ crashes = 0
      /\ indexed = <<>> /\ batch = NoBatch
  BY Zenon DEF IndexerInit
<1>2. DOMAIN chain = 0 .. 0 /\ chain[0] = genesis
  BY <1>1
<1>3. genesis.height = 0 /\ genesis.contract = Deployed /\ genesis.logs = <<>>
  OBVIOUS
<1> HIDE DEF genesis
<1>4. Tree(chain, 0)
  BY <1>2, <1>3 DEF Tree, Grows
<1>5. Deployed \in Contracts
  <2>1. FirstMaster \in Accounts
    BY RequestManagerAssumption
  <2>2. 1 \in Nat \ {0}
    OBVIOUS
  <2>3. {} \in SUBSET (Nat \ {0})
    OBVIOUS
  <2> QED BY <2>1, <2>2, <2>3 DEF Deployed, Contracts
<1>6. IsSequence(<<>>) /\ Len(<<>>) = 0
  <2>1. <<>> \in Seq({})
    OBVIOUS
  <2> QED BY <2>1 DEF IsSequence
<1>7. Sound(chain, 0)
  <2>1. \A b \in 0 .. 0 : chain[b].contract \in Contracts /\ IsSequence(chain[b].logs)
    BY <1>2, <1>3, <1>5, <1>6
  <2>2. 1 .. 0 = {}
    OBVIOUS
  <2> QED BY Zenon, <2>1, <2>2 DEF Sound
<1>8. ChainInv
  <2>1. 0 \in 0 .. 0
    OBVIOUS
  <2> QED BY Zenon, <1>1, <1>4, <1>7, <2>1 DEF ChainInv
<1>9. Line(chain, <<>>)
  BY <1>6 DEF Line
<1>10. Todo(chain, <<>>)
  BY <1>6 DEF Todo
<1>11. CountsRows(EmptyTables)
  BY Zenon, <1>5, EmptyMirrors DEF Mirror
<1>12. BatchSound(chain, NoBatch)
  BY <1>9, <1>10, <1>11 DEF BatchSound, NoBatch
<1>13. switches \in 0 .. MaxSwitches /\ crashes \in 0 .. MaxCrashes
  BY <1>1, IndexerAssumption
<1> QED BY Zenon, <1>1, <1>8, <1>9, <1>12, <1>13 DEF IndexerInv

-----------------------------------------------------------------------------
(* Blocks of a batch                                                       *)

LEMMA BlockStarts ==
    ASSUME NEW c, NEW n \in Nat, Sound(c, n), NEW b \in 1 .. n, c[b].height >= StartHeight, NEW t,
           Mirror(c[c[b].parent].contract, t, LogsUpto(c, c[b].parent))
    PROVE  AtBlock(c, b, t, 1)
<1>1. Leads(c, b)
  BY Zenon DEF Sound
<1>2. PICK U : Follows(U, t, c[b].logs, c[b].height, c[b].contract, LogsUpto(c, b))
  BY Zenon, <1>1 DEF Leads, Followed
<1>3. U[0] = t
  BY Zenon, <1>2 DEF Follows, Handled
<1>4. Len(c[b].logs) \in Nat
  <2>1. IsSequence(c[b].logs)
    BY DEF Sound
  <2> QED BY <2>1 DEF IsSequence
<1>5. 1 \in 1 .. Len(c[b].logs) + 1 /\ 1 - 1 = 0
  BY ONLY <1>4
<1>6. t = U[1 - 1]
  BY Zenon, <1>3, <1>5
<1> QED BY Zenon, <1>2, <1>5, <1>6 DEF AtBlock

LEMMA BlockGoesOn ==
    ASSUME NEW c, NEW b, IsSequence(c[b].logs), NEW t, NEW g, AtBlock(c, b, t, g), g <= Len(c[b].logs),
           NEW u, u = handleEthereumLog(t, c[b].logs[g], c[b].height)
    PROVE  AtBlock(c, b, u, g + 1) /\ CountsRows(u)
<1> DEFINE L == c[b].logs
           h == c[b].height
<1>1. PICK U, t0 : /\ Follows(U, t0, L, h, c[b].contract, LogsUpto(c, b))
                   /\ g \in 1 .. Len(L) + 1 /\ t = U[g - 1]
  BY Zenon DEF AtBlock
<1>2. Len(L) \in Nat
  BY DEF IsSequence
<1>3. g \in 1 .. Len(L) /\ g \in 0 .. Len(L) /\ g + 1 \in 1 .. Len(L) + 1 /\ (g + 1) - 1 = g
  BY <1>1, <1>2
<1>4. U[g] = handleEthereumLog(U[g - 1], L[g], h) /\ CountsRows(U[g])
  BY Zenon, <1>1, <1>3 DEF Follows, Handled
<1>5. u = U[g]
  BY Zenon, <1>1, <1>4
<1>6. u = U[(g + 1) - 1]
  BY Zenon, <1>3, <1>5
<1> QED BY Zenon, <1>1, <1>3, <1>4, <1>5, <1>6 DEF AtBlock

LEMMA BlockEnds ==
    ASSUME NEW c, NEW b, IsSequence(c[b].logs), NEW t, NEW g, AtBlock(c, b, t, g), g > Len(c[b].logs)
    PROVE  Mirror(c[b].contract, t, LogsUpto(c, b))
<1> DEFINE L == c[b].logs
           h == c[b].height
<1>1. PICK U, t0 : /\ Follows(U, t0, L, h, c[b].contract, LogsUpto(c, b))
                   /\ g \in 1 .. Len(L) + 1 /\ t = U[g - 1]
  BY Zenon DEF AtBlock
<1>2. Len(L) \in Nat
  BY DEF IsSequence
<1>3. g - 1 = Len(L)
  BY <1>1, <1>2
<1>4. t = U[Len(L)]
  BY Zenon, <1>1, <1>3
<1> QED BY Zenon, <1>1, <1>4 DEF Follows

LEMMA NextStarts ==
    ASSUME NEW c, NEW n \in Nat, Sound(c, n), DOMAIN c = 0 .. n, NEW Q, Todo(c, Q), Q # <<>>, NEW t,
           Mirror(c[c[Q[1]].parent].contract, t, LogsUpto(c, c[Q[1]].parent))
    PROVE  AtBlock(c, Q[1], t, 1)
<1>1. 1 \in 1 .. Len(Q)
  BY DEF Todo, IsSequence
<1>2. Q[1] \in DOMAIN c \ {0} /\ c[Q[1]].height >= StartHeight
  BY Zenon, <1>1 DEF Todo
<1>3. Q[1] \in 1 .. n
  BY <1>2
<1> QED BY Zenon, <1>2, <1>3, BlockStarts

-----------------------------------------------------------------------------
(* The steps of the processor                                              *)

LEMMA HandleLogKeeps == IndexerInv /\ HandleLog => IndexerInv'
<1> SUFFICES ASSUME IndexerInv, HandleLog PROVE IndexerInv'
  OBVIOUS
<1> DEFINE k == batch
           b == k.blocks[1]
           u == handleEthereumLog(k.tables, chain[b].logs[k.log], chain[b].height)
           m == [running |-> k.running, base |-> k.base, blocks |-> k.blocks, tables |-> u,
                 log |-> k.log + 1]
<1>1. BatchSound(chain, k) /\ ChainInv /\ Line(chain, indexed)
  BY Zenon DEF IndexerInv
<1>2. /\ k.blocks # <<>> /\ k.log <= Len(chain[Head(k.blocks)].logs)
      /\ batch' = [k EXCEPT !.tables = handleEthereumLog(k.tables,
                                chain[Head(k.blocks)].logs[k.log], chain[Head(k.blocks)].height),
                            !.log = k.log + 1]
      /\ UNCHANGED <<chain, best, final, switches, indexed, crashes>>
  BY DEF HandleLog, chainVars, Height
<1>3. /\ k = [running |-> k.running, base |-> k.base, blocks |-> k.blocks, tables |-> k.tables,
              log |-> k.log]
      /\ k.running \in BOOLEAN
      /\ Line(chain, k.base) /\ Todo(chain, k.blocks) /\ CountsRows(k.tables)
      /\ AtBlock(chain, b, k.tables, k.log)
  BY Zenon, <1>1, <1>2 DEF BatchSound
<1>4. Head(k.blocks) = b
  BY <1>2, <1>3 DEF Todo, IsSequence
<1>5. batch' = m
  <2>1. batch' = [k EXCEPT !.tables = u, !.log = k.log + 1]
    BY Zenon, <1>2, <1>4
  <2> HIDE DEF u
  <2> QED BY <1>3, <2>1
<1>6. IsSequence(chain[b].logs)
  <2>1. PICK n : Tree(chain, n) /\ Sound(chain, n)
    BY Zenon, <1>1 DEF ChainInv
  <2>2. 1 \in 1 .. Len(k.blocks)
    BY <1>2, <1>3 DEF Todo, IsSequence
  <2>3. b \in DOMAIN chain
    BY Zenon, <1>3, <2>2 DEF Todo
  <2> QED BY Zenon, <2>1, <2>3 DEF Sound, Tree
<1>7. AtBlock(chain, b, u, k.log + 1) /\ CountsRows(u)
  <2>1. k.log <= Len(chain[b].logs)
    BY Zenon, <1>2, <1>4
  <2> QED BY Zenon, <1>3, <1>6, <2>1, BlockGoesOn
<1>8. /\ m.running = k.running /\ m.base = k.base /\ m.blocks = k.blocks /\ m.tables = u
      /\ m.log = k.log + 1
  OBVIOUS
<1>9. m = [running |-> m.running, base |-> m.base, blocks |-> m.blocks, tables |-> m.tables,
           log |-> m.log]
  OBVIOUS
<1> HIDE DEF m, u
<1>10. BatchSound(chain, m)
  BY Zenon, <1>3, <1>7, <1>8, <1>9 DEF BatchSound
<1>11. switches \in 0 .. MaxSwitches /\ crashes \in 0 .. MaxCrashes
  BY Zenon DEF IndexerInv
<1> QED BY <1>1, <1>2, <1>5, <1>10, <1>11 DEF IndexerInv, ChainInv

LEMMA LineAppend ==
    ASSUME NEW c, NEW L, Line(c, L), NEW e, Faithful(c, e)
    PROVE  Line(c, Append(L, e))
<1>1. /\ IsSequence(Append(L, e)) /\ Len(L) \in Nat /\ Len(Append(L, e)) = Len(L) + 1
      /\ Append(L, e)[Len(L) + 1] = e /\ \A i \in 1 .. Len(L) : Append(L, e)[i] = L[i]
  BY AppendIs DEF Line
<1>2. ASSUME NEW i \in 1 .. Len(L) + 1 PROVE Faithful(c, Append(L, e)[i])
  <2>1. i = Len(L) + 1 \/ i \in 1 .. Len(L)
    BY <1>1
  <2> QED BY Zenon, <1>1, <2>1 DEF Line
<1> QED BY Zenon, <1>1, <1>2 DEF Line

LEMMA TodoTail ==
    ASSUME NEW c, NEW Q, Todo(c, Q), Q # <<>>
    PROVE  /\ Todo(c, Tail(Q)) /\ Head(Q) = Q[1] /\ Q[1] \in DOMAIN c
           /\ Tail(Q) # <<>> => c[Tail(Q)[1]].parent = Q[1]
<1> DEFINE T == Tail(Q)
           k == Len(Q)
<1>1. PICK A : Q \in Seq(A)
  BY DEF Todo, IsSequence
<1>2. /\ T \in Seq(A) /\ k \in Nat \ {0} /\ Len(T) = k - 1 /\ \A i \in 1 .. k - 1 : T[i] = Q[i + 1]
      /\ Head(Q) = Q[1] /\ (T # <<>> => Len(T) \in Nat \ {0})
  <2>1. Q \in Seq(A) /\ Q # <<>>
    BY <1>1
  <2>2. T \in Seq(A) /\ k \in Nat \ {0} /\ Len(T) = k - 1
    BY <2>1
  <2>3. \A i \in 1 .. k - 1 : T[i] = Q[i + 1]
    BY <2>1, <2>2
  <2>4. Head(Q) = Q[1]
    BY <2>1
  <2> HIDE DEF T
  <2>5. T # <<>> => Len(T) \in Nat \ {0}
    BY <2>2
  <2> QED BY Zenon, <2>2, <2>3, <2>4, <2>5
<1>3. IsSequence(T)
  BY Zenon, <1>2 DEF IsSequence
<1> HIDE DEF T
<1>4. /\ \A i \in 1 .. k : Q[i] \in DOMAIN c \ {0} /\ c[Q[i]].height >= StartHeight
      /\ \A i \in 1 .. k - 1 : c[Q[i + 1]].parent = Q[i]
  BY Zenon DEF Todo
<1> HIDE DEF k
<1>5. ASSUME NEW i \in 1 .. k - 1 PROVE T[i] \in DOMAIN c \ {0} /\ c[T[i]].height >= StartHeight
  <2>1. i + 1 \in 1 .. k
    BY <1>2
  <2> QED BY Zenon, <1>2, <1>4, <2>1
<1>6. ASSUME NEW i \in 1 .. (k - 1) - 1 PROVE c[T[i + 1]].parent = T[i]
  <2>1. i + 1 \in 1 .. k - 1 /\ i \in 1 .. k - 1 /\ i + 1 \in 1 .. k - 1
    BY <1>2
  <2> QED BY Zenon, <1>2, <1>4, <2>1
<1>7. Todo(c, T)
  BY Zenon, <1>2, <1>3, <1>5, <1>6 DEF Todo
<1>8. 1 \in 1 .. k /\ (T # <<>> => 1 \in 1 .. k - 1)
  BY <1>2
<1>9. T # <<>> => c[T[1]].parent = Q[1]
  <2>1. T # <<>> => T[1] = Q[1 + 1] /\ c[Q[1 + 1]].parent = Q[1]
    BY Zenon, <1>2, <1>4, <1>8
  <2> QED BY Zenon, <2>1
<1> QED BY Zenon, <1>2, <1>4, <1>7, <1>8, <1>9 DEF T

LEMMA FinishBlockKeeps == IndexerInv /\ FinishBlock => IndexerInv'
<1> SUFFICES ASSUME IndexerInv, FinishBlock PROVE IndexerInv'
  OBVIOUS
<1> DEFINE k == batch
           b == k.blocks[1]
           e == [block |-> b, tables |-> k.tables]
           m == [running |-> k.running, base |-> Append(k.base, e), blocks |-> Tail(k.blocks),
                 tables |-> k.tables, log |-> 1]
<1>1. BatchSound(chain, k) /\ ChainInv /\ Line(chain, indexed)
  BY Zenon DEF IndexerInv
<1>2. /\ k.blocks # <<>> /\ k.log > Len(chain[Head(k.blocks)].logs)
      /\ batch' = [k EXCEPT !.base = Append(k.base, [block |-> Head(k.blocks), tables |-> k.tables]),
                            !.blocks = Tail(k.blocks), !.log = 1]
      /\ UNCHANGED <<chain, best, final, switches, indexed, crashes>>
  BY DEF FinishBlock, chainVars
<1>3. /\ k = [running |-> k.running, base |-> k.base, blocks |-> k.blocks, tables |-> k.tables,
              log |-> k.log]
      /\ k.running \in BOOLEAN
      /\ Line(chain, k.base) /\ Todo(chain, k.blocks) /\ CountsRows(k.tables)
      /\ AtBlock(chain, b, k.tables, k.log)
  BY Zenon, <1>1, <1>2 DEF BatchSound
<1>4. /\ Todo(chain, Tail(k.blocks)) /\ Head(k.blocks) = b /\ b \in DOMAIN chain
      /\ Tail(k.blocks) # <<>> => chain[Tail(k.blocks)[1]].parent = b
  BY <1>2, <1>3, TodoTail
<1>5. batch' = m
  <2>1. batch' = [k EXCEPT !.base = Append(k.base, e), !.blocks = Tail(k.blocks), !.log = 1]
    BY Zenon, <1>2, <1>4
  <2> HIDE DEF e
  <2> QED BY <1>3, <2>1
<1>6. PICK n : Tree(chain, n) /\ Sound(chain, n)
  BY Zenon, <1>1 DEF ChainInv
<1>7. DOMAIN chain = 0 .. n /\ n \in Nat
  BY <1>6 DEF Tree
<1>8. Mirror(chain[b].contract, k.tables, LogsUpto(chain, b))
  <2>1. k.log > Len(chain[b].logs)
    BY Zenon, <1>2, <1>4
  <2>2. IsSequence(chain[b].logs)
    BY Zenon, <1>4, <1>6, <1>7 DEF Sound
  <2> QED BY Zenon, <1>3, <2>1, <2>2, BlockEnds
<1>9. e.block = b /\ e.tables = k.tables
  OBVIOUS
<1> HIDE DEF e
<1>10. Line(chain, Append(k.base, e))
  <2>1. Faithful(chain, e)
    BY Zenon, <1>4, <1>8, <1>9 DEF Faithful
  <2> QED BY Zenon, <1>3, <2>1, LineAppend
<1>11. Tail(k.blocks) # <<>> => AtBlock(chain, Tail(k.blocks)[1], k.tables, 1)
  <2> SUFFICES ASSUME Tail(k.blocks) # <<>> PROVE AtBlock(chain, Tail(k.blocks)[1], k.tables, 1)
    OBVIOUS
  <2> DEFINE Q == Tail(k.blocks)
  <2>1. Todo(chain, Q) /\ Q # <<>> /\ chain[Q[1]].parent = b
    BY <1>4
  <2> HIDE DEF Q
  <2>2. Mirror(chain[chain[Q[1]].parent].contract, k.tables, LogsUpto(chain, chain[Q[1]].parent))
    BY Zenon, <1>8, <2>1
  <2>3. AtBlock(chain, Q[1], k.tables, 1)
    BY Zenon, <1>6, <1>7, <2>1, <2>2, NextStarts
  <2> QED BY Zenon, <2>3 DEF Q
<1>12. /\ m.running = k.running /\ m.base = Append(k.base, e) /\ m.blocks = Tail(k.blocks)
       /\ m.tables = k.tables /\ m.log = 1
  OBVIOUS
<1>13. m = [running |-> m.running, base |-> m.base, blocks |-> m.blocks, tables |-> m.tables,
            log |-> m.log]
  OBVIOUS
<1> HIDE DEF m
<1>14. BatchSound(chain, m)
  BY Zenon, <1>3, <1>4, <1>10, <1>11, <1>12, <1>13 DEF BatchSound
<1>15. switches \in 0 .. MaxSwitches /\ crashes \in 0 .. MaxCrashes
  BY Zenon DEF IndexerInv
<1> QED BY <1>1, <1>2, <1>5, <1>14, <1>15 DEF IndexerInv, ChainInv

\* Part of a sequence.
LEMMA PartIs ==
    ASSUME NEW s, IsSequence(s), NEW m \in Nat, NEW k \in Nat, m + k <= Len(s)
    PROVE  LET t == SubSeq(s, m + 1, m + k) IN
           IsSequence(t) /\ Len(t) = k /\ \A i \in 1 .. k : t[i] = s[m + i]
<1> DEFINE t == SubSeq(s, m + 1, m + k)
<1>1. PICK A : s \in Seq(A)
  BY DEF IsSequence
<1>2. \A i \in m + 1 .. m + k : i \in 1 .. Len(s)
  OBVIOUS
<1>3. \A i \in m + 1 .. m + k : s[i] \in A
  BY <1>1, <1>2
<1>4. m + 1 \in Int /\ m + k \in Int
  OBVIOUS
<1>5. /\ t \in Seq(A)
      /\ Len(t) = IF m + 1 <= m + k THEN (m + k) - (m + 1) + 1 ELSE 0
      /\ \A i \in 1 .. (m + k) - (m + 1) + 1 : t[i] = s[(m + 1) + i - 1]
  <2>1. \A a, b \in Int : (\A i \in a .. b : s[i] \in A) =>
            /\ SubSeq(s, a, b) \in Seq(A)
            /\ Len(SubSeq(s, a, b)) = IF a <= b THEN b - a + 1 ELSE 0
            /\ \A i \in 1 .. b - a + 1 : SubSeq(s, a, b)[i] = s[a + i - 1]
    BY SubSeqProperties
  <2> QED BY Zenon, <1>3, <1>4, <2>1
<1> HIDE DEF t
<1>6. Len(t) = k
  BY ONLY <1>5, m \in Nat, k \in Nat
<1>7. \A i \in 1 .. k : t[i] = s[m + i]
  <2> TAKE i \in 1 .. k
  <2>1. i \in 1 .. (m + k) - (m + 1) + 1 /\ (m + 1) + i - 1 = m + i
    OBVIOUS
  <2> QED BY Zenon, <1>5, <2>1
<1>8. IsSequence(t)
  BY Zenon, <1>5 DEF IsSequence
<1> QED BY Zenon, <1>6, <1>7, <1>8 DEF t

\* The blocks to index of the branch of b.
Wants(W, c, n) ==
    /\ IsSequence(W)
    /\ \A i \in 1 .. Len(W) : W[i] \in 1 .. n /\ c[W[i]].height = StartHeight + i - 1
    /\ \A i \in 1 .. Len(W) - 1 : c[W[i + 1]].parent = W[i]

LEMMA WantedIs ==
    ASSUME NEW n, Tree(chain, n), best \in 0 .. n, StartHeight \in Nat \ {0}
    PROVE  Wants(Wanted, chain, n)
<1> DEFINE s == BranchOf(chain, best)
           W == Wanted
           k == Len(s) - StartHeight
<1>1. Path(s, chain, best)
  BY BranchIsPath
<1>2. W = SubSeq(s, StartHeight + 1, Len(s))
  BY Zenon, IndexerBranch DEF Wanted
<1> HIDE DEF s, W
<1>3. n \in Nat /\ best \in Nat /\ \A b \in 0 .. n : chain[b].height \in Nat
  BY DEF Tree
<1>4. /\ s \in Seq(0 .. best) /\ Len(s) = chain[best].height + 1 /\ chain[best].height \in Nat
      /\ \A i \in 1 .. Len(s) : chain[s[i]].height = i - 1
      /\ \A i \in 1 .. Len(s) - 1 : chain[s[i + 1]].parent = s[i]
  BY Zenon, <1>1, <1>3 DEF Path
<1>5. IsSequence(s) /\ Len(s) \in Nat
  BY <1>4 DEF IsSequence
<1>6. CASE StartHeight >= Len(s)
  <2>1. Len(s) < StartHeight + 1 /\ Len(s) \in Int /\ StartHeight + 1 \in Int
    BY ONLY <1>5, <1>6, StartHeight \in Nat \ {0}
  <2>2. W = <<>>
    BY <1>2, <2>1, SubSeqEmpty
  <2>3. IsSequence(W) /\ Len(W) = 0
    <3>1. <<>> \in Seq({})
      OBVIOUS
    <3> QED BY <2>2, <3>1 DEF IsSequence
  <2>4. 1 .. 0 = {} /\ 1 .. 0 - 1 = {}
    OBVIOUS
  <2> QED BY Zenon, <2>3, <2>4 DEF Wants, W
<1>7. CASE StartHeight < Len(s)
  <2>1. k \in Nat /\ StartHeight \in Nat /\ StartHeight + k <= Len(s) /\ StartHeight + k = Len(s)
    BY ONLY <1>5, <1>7, StartHeight \in Nat \ {0}
  <2> HIDE DEF k
  <2>2. W = SubSeq(s, StartHeight + 1, StartHeight + k)
    BY Zenon, <1>2, <2>1
  <2>3. IsSequence(W) /\ Len(W) = k /\ \A i \in 1 .. k : W[i] = s[StartHeight + i]
    BY Zenon, <1>5, <2>1, <2>2, PartIs
  <2>4. ASSUME NEW i \in 1 .. k PROVE W[i] \in 1 .. n /\ chain[W[i]].height = StartHeight + i - 1
    <3>1. StartHeight + i \in 1 .. Len(s) /\ (StartHeight + i) - 1 # 0
          /\ (StartHeight + i) - 1 = StartHeight + i - 1
      BY <2>1
    <3>2. W[i] = s[StartHeight + i]
      BY Zenon, <2>3
    <3>3. chain[W[i]].height = (StartHeight + i) - 1
      BY Zenon, <1>4, <3>1, <3>2
    <3>4. W[i] \in 0 .. best
      <4>1. \A j \in 1 .. Len(s) : s[j] \in 0 .. best
        BY <1>4
      <4> QED BY Zenon, <3>1, <3>2, <4>1
    <3>5. W[i] # 0
      <4>1. chain[0].height = 0
        BY DEF Tree
      <4> QED BY Zenon, <3>1, <3>3, <4>1
    <3>6. W[i] \in 1 .. n
      BY <1>3, <3>4, <3>5
    <3> QED BY Zenon, <3>1, <3>3, <3>6
  <2>5. ASSUME NEW i \in 1 .. k - 1 PROVE chain[W[i + 1]].parent = W[i]
    <3>1. /\ StartHeight + i \in 1 .. Len(s) - 1 /\ i \in 1 .. k /\ i + 1 \in 1 .. k
          /\ StartHeight + (i + 1) = (StartHeight + i) + 1
      BY <2>1
    <3>2. W[i] = s[StartHeight + i] /\ W[i + 1] = s[(StartHeight + i) + 1]
      <4>1. W[i + 1] = s[StartHeight + (i + 1)]
        BY <2>3, <3>1
      <4>2. W[i] = s[StartHeight + i]
        BY Zenon, <2>3, <3>1
      <4> QED BY <3>1, <4>1, <4>2
    <3> QED BY Zenon, <1>4, <3>1, <3>2
  <2> QED BY Zenon, <2>3, <2>4, <2>5 DEF Wants, W
<1> QED BY <1>5, <1>6, <1>7

\* A downward closed set of the first numbers is the first numbers.
LEMMA FirstOnes ==
    ASSUME NEW k \in Nat, NEW K \in SUBSET (1 .. k), \A i \in K : \A j \in 1 .. i : j \in K
    PROVE  Cardinality(K) \in 0 .. k /\ K = 1 .. Cardinality(K)
<1> DEFINE S == {m \in 0 .. k : \E q \in 0 .. m : K \cap (1 .. m) = 1 .. q}
<1>1. 0 \in S
  <2>1. K \cap (1 .. 0) = 1 .. 0 /\ 0 \in 0 .. 0
    OBVIOUS
  <2> QED BY <2>1
<1>2. ASSUME NEW m \in 1 .. k, m - 1 \in S PROVE m \in S
  <2>1. PICK q \in 0 .. m - 1 : K \cap (1 .. m - 1) = 1 .. q
    BY <1>2
  <2>2. CASE m \in K
    <3>1. \A j \in 1 .. m : j \in K
      BY <2>2
    <3>2. K \cap (1 .. m) = 1 .. m /\ m \in 0 .. m
      BY <3>1
    <3> QED BY <3>2
  <2>3. CASE m \notin K
    <3>1. K \cap (1 .. m) = K \cap (1 .. m - 1)
      BY <2>3
    <3>2. q \in 0 .. m
      OBVIOUS
    <3> QED BY <2>1, <3>1, <3>2
  <2> QED BY <2>2, <2>3
<1>3. 0 .. k \subseteq S
  <2> HIDE DEF S
  <2> QED BY <1>1, <1>2, StepsKeep
<1>4. PICK q \in 0 .. k : K \cap (1 .. k) = 1 .. q
  BY <1>3
<1>5. K = 1 .. q
  BY <1>4
<1>6. Cardinality(1 .. q) = q
  <2>1. 1 \in Int /\ q \in Int /\ q >= 0
    OBVIOUS
  <2>2. Cardinality(1 .. q) = IF 1 > q THEN 0 ELSE q - 1 + 1
    BY <2>1, FS_Interval
  <2> QED BY ONLY <2>1, <2>2
<1> QED BY <1>5, <1>6

LEMMA IdleBatch ==
    ASSUME NEW c, NEW n, Tree(c, n), Sound(c, n)
    PROVE  BatchSound(c, NoBatch)
<1>1. IsSequence(<<>>) /\ Len(<<>>) = 0
  <2>1. <<>> \in Seq({})
    OBVIOUS
  <2> QED BY <2>1 DEF IsSequence
<1>2. Line(c, <<>>) /\ Todo(c, <<>>)
  BY <1>1 DEF Line, Todo
<1>3. c[0].contract \in Contracts
  BY DEF Tree, Sound
<1>4. CountsRows(EmptyTables)
  BY Zenon, <1>3, EmptyMirrors DEF Mirror
<1> QED BY <1>2, <1>4 DEF BatchSound, NoBatch

LEMMA CommitKeeps == IndexerInv /\ Commit => IndexerInv'
<1> SUFFICES ASSUME IndexerInv, Commit PROVE IndexerInv'
  OBVIOUS
<1>1. /\ indexed' = batch.base /\ batch' = NoBatch
      /\ UNCHANGED <<chain, best, final, switches, crashes>>
  BY DEF Commit, chainVars
<1>2. Line(chain, batch.base) /\ ChainInv
      /\ switches \in 0 .. MaxSwitches /\ crashes \in 0 .. MaxCrashes
  BY Zenon DEF IndexerInv, BatchSound
<1>3. BatchSound(chain, NoBatch)
  BY <1>2, IdleBatch DEF ChainInv
<1> QED BY <1>1, <1>2, <1>3 DEF IndexerInv, ChainInv

LEMMA CrashKeeps == IndexerInv /\ Crash => IndexerInv'
<1> SUFFICES ASSUME IndexerInv, Crash PROVE IndexerInv'
  OBVIOUS
<1>1. /\ crashes < MaxCrashes /\ crashes' = crashes + 1 /\ batch' = NoBatch
      /\ UNCHANGED <<chain, best, final, switches, indexed>>
  BY DEF Crash, chainVars
<1>2. Line(chain, indexed) /\ ChainInv
      /\ switches \in 0 .. MaxSwitches /\ crashes \in 0 .. MaxCrashes
  BY Zenon DEF IndexerInv
<1>3. BatchSound(chain, NoBatch)
  BY <1>2, IdleBatch DEF ChainInv
<1>4. crashes' \in 0 .. MaxCrashes
  BY <1>1, <1>2, IndexerAssumption
<1> QED BY <1>1, <1>2, <1>3, <1>4 DEF IndexerInv, ChainInv

LEMMA ReorganiseKeeps ==
    ASSUME IndexerInv, NEW b \in DOMAIN chain, Reorganise(b)
    PROVE  IndexerInv'
<1>1. /\ switches < MaxSwitches /\ switches' = switches + 1 /\ best' = b
      /\ UNCHANGED <<chain, final, indexed, batch, crashes>>
  BY DEF Reorganise
<1>2. Line(chain, indexed) /\ BatchSound(chain, batch) /\ ChainInv
      /\ switches \in 0 .. MaxSwitches /\ crashes \in 0 .. MaxCrashes
  BY Zenon DEF IndexerInv
<1>3. switches' \in 0 .. MaxSwitches
  BY <1>1, <1>2, IndexerAssumption
<1>4. ChainInv'
  BY <1>1, <1>2 DEF ChainInv, Tree
<1> QED BY <1>1, <1>2, <1>3, <1>4 DEF IndexerInv

LEMMA FinalizeKeeps ==
    ASSUME IndexerInv, NEW b \in DOMAIN chain, Finalize(b)
    PROVE  IndexerInv'
<1>1. final' = b /\ UNCHANGED <<chain, best, switches, indexed, batch, crashes>>
  BY DEF Finalize
<1>2. Line(chain, indexed) /\ BatchSound(chain, batch) /\ ChainInv
      /\ switches \in 0 .. MaxSwitches /\ crashes \in 0 .. MaxCrashes
  BY Zenon DEF IndexerInv
<1>3. ChainInv'
  BY <1>1, <1>2 DEF ChainInv, Tree
<1> QED BY <1>1, <1>2, <1>3 DEF IndexerInv

\* The next blocks of the wanted ones.
Begins(c, Q, b) == Todo(c, Q) /\ Q # <<>> /\ Q[1] = b

LEMMA TodoPart ==
    ASSUME NEW c, NEW n \in Nat, DOMAIN c = 0 .. n, NEW W, Wants(W, c, n), StartHeight \in Nat,
           NEW k \in Nat, NEW m \in Nat \ {0}, k + m <= Len(W)
    PROVE  Begins(c, SubSeq(W, k + 1, k + m), W[k + 1])
<1> DEFINE Q == SubSeq(W, k + 1, k + m)
<1>1. /\ IsSequence(W)
      /\ \A i \in 1 .. Len(W) : W[i] \in 1 .. n /\ c[W[i]].height = StartHeight + i - 1
      /\ \A i \in 1 .. Len(W) - 1 : c[W[i + 1]].parent = W[i]
  BY Zenon DEF Wants
<1>2. IsSequence(Q) /\ Len(Q) = m /\ \A i \in 1 .. m : Q[i] = W[k + i]
  <2>1. m \in Nat
    OBVIOUS
  <2> QED BY Zenon, <1>1, <2>1, PartIs
<1> HIDE DEF Q
<1>3. Len(W) \in Nat
  BY <1>1 DEF IsSequence
<1>4. ASSUME NEW i \in 1 .. m PROVE Q[i] \in DOMAIN c \ {0} /\ c[Q[i]].height >= StartHeight
  <2>1. k + i \in 1 .. Len(W) /\ k + i >= 1
    BY <1>3
  <2>2. Q[i] = W[k + i]
    BY Zenon, <1>2
  <2>3. W[k + i] \in 1 .. n /\ c[W[k + i]].height = StartHeight + (k + i) - 1
    BY <1>1, <2>1
  <2>4. StartHeight + (k + i) - 1 >= StartHeight
    BY <2>1
  <2> QED BY <2>2, <2>3, <2>4
<1>5. ASSUME NEW i \in 1 .. m - 1 PROVE c[Q[i + 1]].parent = Q[i]
  <2>1. k + i \in 1 .. Len(W) - 1 /\ i \in 1 .. m /\ i + 1 \in 1 .. m /\ k + (i + 1) = (k + i) + 1
    BY <1>3
  <2>2. Q[i] = W[k + i]
    BY Zenon, <1>2, <2>1
  <2>3. Q[i + 1] = W[k + (i + 1)]
    BY <1>2, <2>1
  <2>4. c[W[(k + i) + 1]].parent = W[k + i]
    BY Zenon, <1>1, <2>1
  <2> QED BY <2>1, <2>2, <2>3, <2>4
<1>6. Todo(c, Q)
  BY Zenon, <1>2, <1>4, <1>5 DEF Todo
<1>7. Q # <<>> /\ Q[1] = W[k + 1]
  <2>1. 1 \in 1 .. m /\ m # 0
    OBVIOUS
  <2>2. Len(<<>>) = 0
    OBVIOUS
  <2> QED BY Zenon, <1>2, <2>1, <2>2
<1> QED BY Zenon, <1>6, <1>7 DEF Q, Begins

LEMMA LinePart ==
    ASSUME NEW c, NEW L, Line(c, L), NEW k \in Nat, k <= Len(L)
    PROVE  LET B == SubSeq(L, 1, k) IN
           /\ Line(c, B) /\ Len(B) = k
           /\ k = 0 => B = <<>>
           /\ k # 0 => B # <<>> /\ Last(B) = L[k]
<1> DEFINE B == SubSeq(L, 1, k)
<1>1. 0 + 1 = 1 /\ 0 + k = k /\ 0 \in Nat /\ 0 + k <= Len(L)
  OBVIOUS
<1>2. IsSequence(L) /\ \A i \in 1 .. Len(L) : Faithful(c, L[i])
  BY Zenon DEF Line
<1>3. IsSequence(B) /\ Len(B) = k /\ \A i \in 1 .. k : B[i] = L[0 + i]
  <2>1. B = SubSeq(L, 0 + 1, 0 + k)
    BY Zenon, <1>1
  <2> DEFINE a == 0
  <2>2. a \in Nat /\ a + k <= Len(L) /\ B = SubSeq(L, a + 1, a + k)
    BY Zenon, <1>1, <2>1
  <2> HIDE DEF a, B
  <2>3. IsSequence(B) /\ Len(B) = k /\ \A i \in 1 .. k : B[i] = L[a + i]
    BY Zenon, <1>2, <2>2, PartIs
  <2> QED BY Zenon, <2>3 DEF a
<1> HIDE DEF B
<1>4. \A i \in 1 .. k : B[i] = L[i] /\ i \in 1 .. Len(L)
  <2>1. Len(L) \in Nat
    BY <1>2 DEF IsSequence
  <2>2. \A i \in 1 .. k : 0 + i = i /\ i \in 1 .. Len(L)
    BY <2>1
  <2> QED BY Zenon, <1>3, <2>2
<1>5. Line(c, B)
  BY Zenon, <1>2, <1>3, <1>4 DEF Line
<1>6. k = 0 => B = <<>>
  BY <1>3 DEF IsSequence
<1>7. k # 0 => B # <<>> /\ Last(B) = L[k]
  <2>1. k # 0 => k \in 1 .. k
    OBVIOUS
  <2>2. Len(<<>>) = 0
    OBVIOUS
  <2> QED BY Zenon, <1>3, <1>4, <2>1, <2>2 DEF Last
<1> QED BY Zenon, <1>3, <1>5, <1>6, <1>7 DEF B

LEMMA BeginBatchKeeps ==
    ASSUME IndexerInv, NEW m \in 1 .. MaxBatch, BeginBatch(m)
    PROVE  IndexerInv'
<1> DEFINE W == Wanted
           k == Kept
           B == SubSeq(indexed, 1, k)
           Q == SubSeq(W, k + 1, k + m)
           t == IF B = <<>> THEN EmptyTables ELSE Last(B).tables
           new == [running |-> TRUE, base |-> B, blocks |-> Q, tables |-> t, log |-> 1]
<1>1. Line(chain, indexed) /\ ChainInv
      /\ switches \in 0 .. MaxSwitches /\ crashes \in 0 .. MaxCrashes
  BY Zenon DEF IndexerInv
<1>2. k + m <= Len(W) /\ batch' = new
      /\ UNCHANGED <<chain, best, final, switches, indexed, crashes>>
  BY Zenon DEF BeginBatch, chainVars
<1>3. PICK n : Tree(chain, n) /\ Sound(chain, n) /\ best \in 0 .. n /\ final \in 0 .. n
  BY Zenon, <1>1 DEF ChainInv
<1>4. DOMAIN chain = 0 .. n /\ n \in Nat
  BY <1>3 DEF Tree
<1>5. StartHeight \in Nat \ {0} /\ StartHeight \in Nat /\ m \in Nat \ {0}
  <2>1. StartHeight \in Nat \ {0} /\ MaxBatch \in Nat
    BY <1>1, IndexerAssumption
  <2> QED BY <2>1
<1>6. Wants(W, chain, n)
  BY Zenon, <1>3, <1>5, WantedIs
<1>7. IsSequence(indexed) /\ Len(indexed) \in Nat /\ DOMAIN indexed = 1 .. Len(indexed)
  <2>1. IsSequence(indexed)
    BY Zenon, <1>1 DEF Line
  <2> QED BY <2>1 DEF IsSequence
<1>8. Len(W) \in Nat
  <2>1. IsSequence(W)
    BY Zenon, <1>6 DEF Wants
  <2> HIDE DEF W
  <2> QED BY <2>1 DEF IsSequence
<1> DEFINE K == {i \in DOMAIN indexed :
                    i <= Len(W) /\ \A j \in 1 .. i : indexed[j].block = W[j]}
<1>9. k = Cardinality(K)
  BY Zenon DEF Kept
<1> HIDE DEF W, k
<1>10. k \in 0 .. Len(indexed) /\ K = 1 .. k
  <2>1. K \in SUBSET (1 .. Len(indexed))
    BY <1>7
  <2>2. ASSUME NEW i \in K, NEW j \in 1 .. i PROVE j \in K
    BY <1>7, <1>8
  <2> HIDE DEF K
  <2> QED BY <1>7, <1>9, <2>1, <2>2, FirstOnes
<1>11. k \in Nat /\ k <= Len(indexed)
  BY <1>7, <1>10
<1>12. k # 0 => k \in 1 .. Len(indexed) /\ indexed[k].block = W[k]
  <2>1. k # 0 => k \in 1 .. k /\ k \in 1 .. Len(indexed)
    BY <1>7, <1>11
  <2>2. k # 0 => k \in K
    BY Zenon, <1>10, <2>1
  <2>3. k # 0 => \A j \in 1 .. k : indexed[j].block = W[j]
    BY Zenon, <2>2
  <2> QED BY Zenon, <2>1, <2>3
<1> HIDE DEF K
<1>13. Todo(chain, Q) /\ Q # <<>> /\ Q[1] = W[k + 1]
  <2>1. Begins(chain, Q, W[k + 1])
    <3> HIDE DEF K
    <3> QED BY <1>2, <1>4, <1>5, <1>6, <1>11, TodoPart
  <2> QED BY Zenon, <2>1 DEF Begins
<1>14. /\ Line(chain, B) /\ (k = 0 => B = <<>>)
       /\ k # 0 => B # <<>> /\ Last(B) = indexed[k]
  BY Zenon, <1>1, <1>11, LinePart
<1> HIDE DEF Q, B
<1>15. W[k + 1] \in 1 .. n /\ chain[W[k + 1]].height = StartHeight + (k + 1) - 1
  <2>1. k + 1 \in 1 .. Len(W)
    BY <1>2, <1>5, <1>8, <1>11
  <2> QED BY <1>6, <2>1 DEF Wants
<1> DEFINE p == chain[W[k + 1]].parent
<1>16. Mirror(chain[p].contract, t, LogsUpto(chain, p))
  <2>1. CASE k = 0
    <3>1. t = EmptyTables
      BY Zenon, <1>14, <2>1
    <3>2. p \in 0 .. n /\ chain[W[k + 1]].height = chain[p].height + 1 /\ chain[p].height \in Nat
      <4>1. \A b \in 1 .. n : /\ chain[b].parent \in 0 .. b - 1
                              /\ chain[b].height = chain[chain[b].parent].height + 1
        BY Zenon, <1>3 DEF Tree, Grows
      <4>2. p \in 0 .. W[k + 1] - 1 /\ chain[W[k + 1]].height = chain[p].height + 1
        BY Zenon, <1>15, <4>1
      <4>3. p \in 0 .. n
        <5> HIDE DEF p
        <5> QED BY ONLY <1>4, <1>15, <4>2
      <4>4. \A b \in 0 .. n : chain[b].height \in Nat
        BY Zenon, <1>3 DEF Tree
      <4> QED BY Zenon, <4>2, <4>3, <4>4
    <3> HIDE DEF p
    <3>3. chain[p].height < StartHeight
      BY <1>5, <1>15, <2>1, <3>2
    <3>4. LogsUpto(chain, p) = {}
      BY <1>3, <1>5, <3>2, <3>3, NoLogsYet
    <3>5. chain[p].contract \in Contracts
      BY Zenon, <1>3, <3>2 DEF Sound
    <3> QED BY Zenon, <3>1, <3>4, <3>5, EmptyMirrors
  <2>2. CASE k # 0
    <3>1. t = indexed[k].tables
      BY Zenon, <1>14, <2>2
    <3>2. p = W[k]
      <4>1. k \in 1 .. Len(W) - 1
        BY <1>2, <1>5, <1>8, <1>11, <2>2
      <4> QED BY Zenon, <1>6, <4>1 DEF Wants
    <3>3. Faithful(chain, indexed[k])
      BY Zenon, <1>1, <1>12, <2>2 DEF Line
    <3> HIDE DEF p
    <3> QED BY Zenon, <1>12, <2>2, <3>1, <3>2, <3>3 DEF Faithful
  <2> QED BY <2>1, <2>2
<1>17. AtBlock(chain, Q[1], t, 1)
  <2> HIDE DEF t
  <2>1. Mirror(chain[chain[Q[1]].parent].contract, t, LogsUpto(chain, chain[Q[1]].parent))
    BY Zenon, <1>13, <1>16
  <2> QED BY Zenon, <1>3, <1>4, <1>13, <2>1, NextStarts
<1>18. CountsRows(t)
  BY Zenon, <1>16 DEF Mirror
<1> HIDE DEF t
<1>19. /\ new.running = TRUE /\ new.base = B /\ new.blocks = Q /\ new.tables = t /\ new.log = 1
       /\ new = [running |-> new.running, base |-> new.base, blocks |-> new.blocks,
                 tables |-> new.tables, log |-> new.log]
  OBVIOUS
<1> HIDE DEF new
<1>20. BatchSound(chain, new)
  <2>1. TRUE \in BOOLEAN
    OBVIOUS
  <2> QED BY Zenon, <1>13, <1>14, <1>17, <1>18, <1>19, <2>1 DEF BatchSound
<1> QED BY <1>1, <1>2, <1>20 DEF IndexerInv, ChainInv

-----------------------------------------------------------------------------
(* A new block                                                             *)

\* d is c and a block.
Extended(d, c, n) == DOMAIN d = 0 .. n + 1 /\ \A a \in 0 .. n : d[a] = c[a]

\* The block came from calls on the one it was authored on.
Authored(d, c, n, calls) ==
    LET b == d[n + 1]
        after == BlockAfter(c[b.parent].contract, calls) IN
    /\ b.parent \in 0 .. n /\ b.height = c[b.parent].height + 1
    /\ b.contract = after.contract /\ b.logs = after.logs

LEMMA TreeGrows ==
    ASSUME NEW c, NEW n, Tree(c, n), NEW d, Extended(d, c, n), NEW calls, Authored(d, c, n, calls)
    PROVE  Tree(d, n + 1)
<1> DEFINE m == n + 1
<1>1. /\ n \in Nat /\ \A a \in 1 .. n : c[a].parent \in 0 .. a - 1
      /\ \A b \in 0 .. n : c[b].height \in Nat
      /\ c[0].height = 0
      /\ \A b \in 1 .. n : c[b].height = c[c[b].parent].height + 1
  BY Zenon DEF Tree, Grows
<1>2. DOMAIN d = 0 .. m /\ \A a \in 0 .. n : d[a] = c[a]
  BY Zenon DEF Extended
<1>3. d[m].parent \in 0 .. n /\ d[m].height = c[d[m].parent].height + 1
  BY Zenon DEF Authored
<1>4. m \in Nat /\ m - 1 = n /\ 0 \in 0 .. n /\ (\A a \in 0 .. m : a = m \/ a \in 0 .. n)
      /\ (\A a \in 1 .. m : a = m \/ (a \in 1 .. n /\ a \in 0 .. n))
  BY <1>1
<1> HIDE DEF m
<1>5. ASSUME NEW a \in 1 .. m PROVE d[a].parent \in 0 .. a - 1 /\ d[a].height = d[d[a].parent].height + 1
  <2>1. CASE a = m
    BY Zenon, <1>2, <1>3, <1>4, <2>1
  <2>2. CASE a # m
    <3>1. a \in 1 .. n /\ d[a] = c[a]
      BY Zenon, <1>2, <1>4, <2>2
    <3>2. c[a].parent \in 0 .. a - 1
      BY Zenon, <1>1, <3>1
    <3> DEFINE p == c[a].parent
    <3>3. p \in 0 .. n
      <4> HIDE DEF p
      <4>1. p \in 0 .. a - 1
        BY Zenon, <3>2 DEF p
      <4> QED BY ONLY <1>1, <3>1, <4>1
    <3> QED BY Zenon, <1>1, <1>2, <3>1, <3>2, <3>3
  <2> QED BY <2>1, <2>2
<1>6. ASSUME NEW b \in 0 .. m PROVE d[b].height \in Nat
  <2>1. CASE b = m
    <3>1. c[d[m].parent].height \in Nat
      BY Zenon, <1>1, <1>3
    <3> QED BY <1>3, <2>1, <3>1
  <2>2. CASE b # m
    BY Zenon, <1>1, <1>2, <1>4, <2>2
  <2> QED BY <2>1, <2>2
<1>7. d[0].height = 0
  BY Zenon, <1>1, <1>2, <1>4
<1>8. Tree(d, m)
  BY Zenon, <1>2, <1>4, <1>5, <1>6, <1>7 DEF Tree, Grows
<1> QED BY Zenon, <1>8 DEF m

LEMMA SoundGrows ==
    ASSUME NEW c, NEW n, Tree(c, n), Sound(c, n), NEW d, Extended(d, c, n),
           NEW calls \in Payloads, Authored(d, c, n, calls)
    PROVE  Sound(d, n + 1)
<1> DEFINE m == n + 1
           p == d[m].parent
           h == d[m].height
           after == BlockAfter(c[p].contract, calls)
<1>1. Tree(d, m)
  BY Zenon, TreeGrows
<1>2. DOMAIN d = 0 .. m /\ \A a \in 0 .. n : d[a] = c[a]
  BY Zenon DEF Extended
<1>3. p \in 0 .. n /\ d[m].contract = after.contract /\ d[m].logs = after.logs
  BY Zenon DEF Authored
<1>4. n \in Nat /\ \A a \in 1 .. n : c[a].parent \in 0 .. a - 1
  BY Zenon DEF Tree, Grows
<1>5. m \in Nat /\ m \in 1 .. m /\ m \in 0 .. m /\ (\A a \in 0 .. m : a = m \/ a \in 0 .. n)
      /\ (\A a \in 1 .. m : a = m \/ (a \in 1 .. n /\ a \in 0 .. n))
  BY <1>4
<1>6. \A a \in 0 .. n : LogsUpto(d, a) = LogsUpto(c, a)
  <2>1. \A a \in 0 .. n : d[a] = c[a]
    BY Zenon, <1>2
  <2> HIDE DEF m
  <2> QED BY <2>1, LogsSame
<1>7. calls \in Seq(Calls)
  BY IndexerAssumption
<1>8. h \in Nat
  BY Zenon, <1>1, <1>5 DEF Tree
<1> HIDE DEF m
<1>9. c[p].contract \in Contracts
  BY Zenon, <1>3 DEF Sound
<1>10. \A t, S : Mirror(c[p].contract, t, S) => GoodSoFar(after, t, S, h)
  <2> TAKE t, S
  <2> HAVE Mirror(c[p].contract, t, S)
  <2> HIDE DEF h
  <2> QED BY Zenon, <1>7, <1>8, BlockMirrors
<1>11. IsSequence(after.logs) /\ after.contract \in Contracts
  <2>1. GoodSoFar(after, EmptyTables, {}, h)
    BY Zenon, <1>9, <1>10, EmptyMirrors
  <2> QED BY Zenon, <2>1 DEF GoodSoFar, Followed, Follows, Mirror
<1>12. \A b \in 0 .. m : d[b].contract \in Contracts /\ IsSequence(d[b].logs)
  <2> TAKE b \in 0 .. m
  <2>1. CASE b = m
    BY Zenon, <1>3, <1>11, <2>1
  <2>2. CASE b # m
    BY Zenon, <1>2, <1>5, <2>2 DEF Sound
  <2> QED BY <2>1, <2>2
<1>13. ASSUME NEW b \in 1 .. m, d[b].height >= StartHeight PROVE Leads(d, b)
  <2>1. CASE b = m
    <3>1. LogsUpto(d, m) = LogsUpto(d, p) \cup OwnLogs(d[m].logs, h)
      BY <1>1, <1>5, <1>13, <2>1, LogsGrow
    <3>2. LogsUpto(d, p) = LogsUpto(c, p) /\ d[p] = c[p]
      BY Zenon, <1>2, <1>3, <1>6
    <3>3. \A t : Mirror(d[p].contract, t, LogsUpto(d, p))
                    => Followed(t, d[m].logs, h, d[m].contract, LogsUpto(d, m))
      <4> TAKE t
      <4> HAVE Mirror(d[p].contract, t, LogsUpto(d, p))
      <4>1. GoodSoFar(after, t, LogsUpto(d, p), h)
        BY Zenon, <1>10, <3>2
      <4>2. Followed(t, after.logs, h, after.contract, LogsUpto(d, p) \cup OwnLogs(after.logs, h))
        BY Zenon, <4>1 DEF GoodSoFar
      <4> QED BY Zenon, <1>3, <3>1, <4>2
    <3>4. Leads(d, m)
      BY Zenon, <3>3 DEF Leads
    <3> QED BY Zenon, <2>1, <3>4
  <2>2. CASE b # m
    <3>1. b \in 1 .. n /\ b \in 0 .. n /\ d[b] = c[b] /\ LogsUpto(d, b) = LogsUpto(c, b)
      BY Zenon, <1>2, <1>5, <1>6, <2>2
    <3> DEFINE q == c[b].parent
    <3>2. q \in 0 .. n
      <4>1. q \in 0 .. b - 1
        BY Zenon, <1>4, <3>1
      <4> HIDE DEF q
      <4> QED BY ONLY <1>4, <3>1, <4>1
    <3>3. d[b].parent = q /\ d[q] = c[q] /\ LogsUpto(d, q) = LogsUpto(c, q)
      BY Zenon, <1>2, <1>6, <3>1, <3>2
    <3>4. Leads(c, b)
      BY Zenon, <1>13, <3>1 DEF Sound
    <3>5. \A t : Mirror(d[q].contract, t, LogsUpto(d, q))
                    => Followed(t, d[b].logs, d[b].height, d[b].contract, LogsUpto(d, b))
      BY Zenon, <3>1, <3>3, <3>4 DEF Leads
    <3> QED BY Zenon, <3>3, <3>5 DEF Leads
  <2> QED BY <2>1, <2>2
<1>14. Sound(d, m)
  BY Zenon, <1>12, <1>13 DEF Sound
<1> QED BY Zenon, <1>14 DEF m

LEMMA LineStays ==
    ASSUME NEW c, NEW n, Tree(c, n), NEW d, Extended(d, c, n), NEW L, Line(c, L)
    PROVE  Line(d, L)
<1>1. DOMAIN c = 0 .. n /\ n \in Nat /\ \A a \in 0 .. n : a \in DOMAIN d /\ d[a] = c[a]
  BY DEF Tree, Extended
<1>2. \A a \in 0 .. n : LogsUpto(d, a) = LogsUpto(c, a)
  BY <1>1, LogsSame
<1>3. \A e : Faithful(c, e) => Faithful(d, e)
  BY Zenon, <1>1, <1>2 DEF Faithful
<1> QED BY Zenon, <1>3 DEF Line

LEMMA BatchStays ==
    ASSUME NEW c, NEW n, Tree(c, n), NEW d, Extended(d, c, n), NEW k, BatchSound(c, k)
    PROVE  BatchSound(d, k)
<1>1. DOMAIN c = 0 .. n /\ n \in Nat /\ \A a \in 0 .. n : a \in DOMAIN d /\ d[a] = c[a]
  BY DEF Tree, Extended
<1>2. \A a \in 0 .. n : LogsUpto(d, a) = LogsUpto(c, a)
  BY <1>1, LogsSame
<1>3. Line(d, k.base)
  BY Zenon, LineStays DEF BatchSound
<1> DEFINE Q == k.blocks
<1>4. /\ IsSequence(Q)
      /\ \A i \in 1 .. Len(Q) : Q[i] \in DOMAIN c \ {0} /\ c[Q[i]].height >= StartHeight
      /\ \A i \in 1 .. Len(Q) - 1 : c[Q[i + 1]].parent = Q[i]
  BY Zenon DEF BatchSound, Todo
<1>5. Len(Q) \in Nat /\ (Q # <<>> => 1 \in 1 .. Len(Q))
  BY <1>4 DEF IsSequence
<1> HIDE DEF Q
<1>6. \A i \in 1 .. Len(Q) : Q[i] \in DOMAIN d \ {0} /\ d[Q[i]] = c[Q[i]] /\ Q[i] \in 0 .. n
  BY <1>1, <1>4
<1>7. ASSUME NEW i \in 1 .. Len(Q) - 1 PROVE d[Q[i + 1]].parent = Q[i]
  <2>1. i + 1 \in 1 .. Len(Q)
    BY <1>5
  <2> QED BY Zenon, <1>4, <1>6, <2>1
<1>8. Todo(d, Q)
  BY Zenon, <1>4, <1>6, <1>7 DEF Todo
<1>9. Q # <<>> => AtBlock(d, Q[1], k.tables, k.log)
  <2> SUFFICES ASSUME Q # <<>> PROVE AtBlock(d, Q[1], k.tables, k.log)
    OBVIOUS
  <2>1. AtBlock(c, Q[1], k.tables, k.log)
    BY Zenon DEF BatchSound, Q
  <2>2. d[Q[1]] = c[Q[1]] /\ LogsUpto(d, Q[1]) = LogsUpto(c, Q[1])
    BY Zenon, <1>2, <1>5, <1>6
  <2> QED BY Zenon, <2>1, <2>2 DEF AtBlock
<1> QED BY Zenon, <1>3, <1>8, <1>9 DEF BatchSound, Q

LEMMA AuthorKeeps ==
    ASSUME IndexerInv, NEW parent \in DOMAIN chain, NEW calls \in Payloads,
           Author(parent, calls)
    PROVE  IndexerInv'
<1> DEFINE after == BlockAfter(chain[parent].contract, calls)
           b == Cardinality(DOMAIN chain)
           rec == [parent |-> parent, height |-> chain[parent].height + 1,
                   contract |-> after.contract, logs |-> after.logs]
<1>1. Line(chain, indexed) /\ BatchSound(chain, batch) /\ ChainInv
      /\ switches \in 0 .. MaxSwitches /\ crashes \in 0 .. MaxCrashes
  BY Zenon DEF IndexerInv
<1>2. /\ chain' = Insert(chain, b, rec)
      /\ best' = (IF parent = best THEN b ELSE best)
      /\ UNCHANGED <<final, switches, indexed, batch, crashes>>
  BY Zenon DEF Author, Height
<1>3. PICK n : Tree(chain, n) /\ Sound(chain, n) /\ best \in 0 .. n /\ final \in 0 .. n
  BY Zenon, <1>1 DEF ChainInv
<1>4. DOMAIN chain = 0 .. n /\ n \in Nat /\ parent \in 0 .. n
  BY <1>3 DEF Tree
<1> DEFINE m == n + 1
<1>5. b = m
  <2>1. b = Cardinality(0 .. n)
    BY Zenon, <1>4
  <2>2. 0 \in Int /\ n \in Int /\ ~(0 > n)
    BY <1>4
  <2>3. Cardinality(0 .. n) = IF 0 > n THEN 0 ELSE n - 0 + 1
    BY <2>2, FS_Interval
  <2>4. Cardinality(0 .. n) = n + 1
    BY ONLY <2>2, <2>3
  <2> QED BY Zenon, <2>1, <2>4
<1> HIDE DEF b
<1>6. rec.parent = parent /\ rec.height = chain[parent].height + 1
      /\ rec.contract = after.contract /\ rec.logs = after.logs
  OBVIOUS
<1> HIDE DEF rec, after
<1>7. 0 .. m = (0 .. n) \cup {m} /\ m \notin 0 .. n /\ m \in 0 .. m /\ 0 .. n \subseteq 0 .. m
  BY <1>4
<1> HIDE DEF m
<1>8. DOMAIN chain' = 0 .. m /\ chain'[m] = rec /\ \A a \in 0 .. n : chain'[a] = chain[a]
  BY <1>2, <1>4, <1>5, <1>7 DEF Insert
<1>9. Extended(chain', chain, n)
  BY Zenon, <1>8 DEF Extended, m
<1>10. Authored(chain', chain, n, calls)
  <2>1. chain'[n + 1] = rec
    BY Zenon, <1>8 DEF m
  <2> QED BY Zenon, <1>4, <1>6, <2>1 DEF Authored, after
<1>11. Tree(chain', m) /\ Sound(chain', m)
  <2>1. Tree(chain', n + 1)
    BY Zenon, <1>3, <1>9, <1>10, TreeGrows
  <2>2. Sound(chain', n + 1)
    BY Zenon, <1>1, <1>3, <1>9, <1>10, SoundGrows
  <2> QED BY Zenon, <2>1, <2>2 DEF m
<1>12. best' \in 0 .. m /\ final' \in 0 .. m
  BY <1>2, <1>3, <1>5, <1>7
<1>13. ChainInv'
  BY Zenon, <1>11, <1>12 DEF ChainInv
<1>14. Line(chain', indexed) /\ BatchSound(chain', batch)
  BY Zenon, <1>1, <1>3, <1>9, LineStays, BatchStays
<1>15. indexed' = indexed /\ batch' = batch /\ switches' = switches /\ crashes' = crashes
  BY <1>2
<1>16. Line(chain', indexed') /\ BatchSound(chain', batch')
  BY Zenon, <1>14, <1>15
<1>17. switches' \in 0 .. MaxSwitches /\ crashes' \in 0 .. MaxCrashes
  BY Zenon, <1>1, <1>15
<1> QED BY Zenon, <1>13, <1>16, <1>17 DEF IndexerInv

-----------------------------------------------------------------------------

LEMMA IndexerStep == IndexerInv /\ [IndexerNext]_indexerVars => IndexerInv'
<1> SUFFICES ASSUME IndexerInv, [IndexerNext]_indexerVars PROVE IndexerInv'
  OBVIOUS
<1>1. ASSUME NEW parent \in DOMAIN chain, NEW calls \in Payloads, Author(parent, calls)
      PROVE  IndexerInv'
  BY <1>1, AuthorKeeps
<1>2. ASSUME NEW b \in DOMAIN chain, Reorganise(b) PROVE IndexerInv'
  BY <1>2, ReorganiseKeeps
<1>3. ASSUME NEW b \in DOMAIN chain, Finalize(b) PROVE IndexerInv'
  BY <1>3, FinalizeKeeps
<1>4. ASSUME NEW m \in 1 .. MaxBatch, BeginBatch(m) PROVE IndexerInv'
  BY <1>4, BeginBatchKeeps
<1>5. CASE HandleLog
  BY <1>5, HandleLogKeeps
<1>6. CASE FinishBlock
  BY <1>6, FinishBlockKeeps
<1>7. CASE Commit
  BY <1>7, CommitKeeps
<1>8. CASE Crash
  BY <1>8, CrashKeeps
<1>9. CASE UNCHANGED indexerVars
  BY <1>9 DEF indexerVars, chainVars, IndexerInv, ChainInv
<1> QED BY Zenon, <1>1, <1>2, <1>3, <1>4, <1>5, <1>6, <1>7, <1>8, <1>9
        DEF IndexerNext, Process

\* In every state of the indexer: each block of the tree leads from its parent's
\* contract to its own, and the database and the batch under way mirror the blocks
\* they have taken.  The hypothesis is the assumptions QuStreamIndexer and
\* RequestManager make on their constants.
THEOREM IndexerInvariant == IndexerSpec => []IndexerInv
<1>1. IndexerInit => IndexerInv
  BY IndexerStarts
<1> QED BY <1>1, IndexerStep, PTL DEF IndexerSpec

\* Whatever the calls, the forks, the reorganisations, the crashes and the bounds,
\* the tables the processor of the indexer (src/processor/index.ts) leaves behind
\* are what the contract says at the last indexed block.
THEOREM IndexMirrorsContract == IndexerSpec => []TablesMirrorContract
<1>1. IndexerSpec => []IndexerInv
  BY IndexerInvariant
<1> QED BY <1>1, IndexerInvImplies, PTL
=============================================================================
