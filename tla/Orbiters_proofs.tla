--------------------------- MODULE Orbiters_proofs ---------------------------
(***************************************************************************)
(* The properties of Orbiters, for every set of collators and orbiters,    *)
(* every order of the pools in storage and every choice of the periods.    *)
(*                                                                         *)
(* A rotation is a loop over the pools, so what it leaves is proved by     *)
(* induction on the pools dealt with (LoopInv, LoopStep, RotationDoes).    *)
(* StorageInv adds to StorageSound, LockedOutHasStandIn and AuthorIsPaid   *)
(* what makes them inductive: the rows of OrbiterPerRound are the same for *)
(* every round until the next rotation and there are none beyond it        *)
(* (RowsKept), a deposit stands behind the current orbiter of a pool too   *)
(* (Backed), and whoever has an override for a collator is the current     *)
(* orbiter of its pool (Serves).                                           *)
(*                                                                         *)
(* That rewards follow the work needs a hypothesis the pallet does not     *)
(* enforce, Apart: no account is both a collator of the program and a      *)
(* registered orbiter.  An account that is both loses, in the rotation of  *)
(* the pool it orbits for, the override that kept it from authoring for    *)
(* its own, and authors blocks its orbiter is paid for.                    *)
(***************************************************************************)
EXTENDS Orbiters, Sums_proofs, SequenceTheorems

-----------------------------------------------------------------------------
(* Sequences                                                               *)

\* two sequences, one after the other
LEMMA Joined ==
    ASSUME NEW S, NEW a \in Seq(S), NEW b \in Seq(S)
    PROVE  /\ a \o b \in Seq(S) /\ Len(a \o b) = Len(a) + Len(b)
           /\ \A j \in 1 .. Len(a) + Len(b) :
                 (a \o b)[j] = IF j <= Len(a) THEN a[j] ELSE b[j - Len(a)]
BY ConcatProperties

\* a part of a sequence
LEMMA Part ==
    ASSUME NEW S, NEW s \in Seq(S), NEW m \in 1 .. Len(s) + 1, NEW n \in m - 1 .. Len(s)
    PROVE  /\ SubSeq(s, m, n) \in Seq(S) /\ Len(SubSeq(s, m, n)) = n - m + 1
           /\ \A j \in 1 .. n - m + 1 : SubSeq(s, m, n)[j] = s[m + j - 1]
<1>1. \A i \in m .. n : s[i] \in S
  OBVIOUS
<1> QED BY <1>1, SubSeqProperties

\* a sequence with e put in at place i
LEMMA Inserted ==
    ASSUME NEW S, NEW s \in Seq(S), NEW e \in S, NEW i \in 1 .. Len(s) + 1
    PROVE  LET t == InsertAt(s, i, e) IN
           /\ t \in Seq(S) /\ Len(t) = Len(s) + 1
           /\ \A j \in 1 .. Len(s) + 1 :
                 t[j] = IF j < i THEN s[j] ELSE IF j = i THEN e ELSE s[j - 1]
<1>0. PICK n \in Nat : n = Len(s)
  OBVIOUS
<1> DEFINE a == SubSeq(s, 1, i - 1)
           b == SubSeq(s, i, n)
           h == a \o <<e>>
           t == h \o b
<1>1. a \in Seq(S) /\ Len(a) = i - 1 /\ \A j \in 1 .. i - 1 : a[j] = s[j]
  BY <1>0, Part
<1>2. b \in Seq(S) /\ Len(b) = n - i + 1 /\ \A j \in 1 .. n - i + 1 : b[j] = s[i + j - 1]
  BY <1>0, Part
<1>3. t = InsertAt(s, i, e)
  BY <1>0 DEF InsertAt
<1> HIDE DEF a, b
<1>4. h = Append(a, e)
  BY <1>1, AppendIsConcat
<1>5. h \in Seq(S) /\ Len(h) = i /\ \A j \in 1 .. i : h[j] = IF j < i THEN s[j] ELSE e
  <2> HIDE DEF h
  <2> QED BY <1>0, <1>1, <1>4
<1> HIDE DEF h
<1>6. /\ t \in Seq(S) /\ Len(t) = n + 1
      /\ \A j \in 1 .. n + 1 : t[j] = IF j <= i THEN h[j] ELSE b[j - i]
  BY <1>0, <1>2, <1>5, Joined
<1> HIDE DEF t
<1>7. ASSUME NEW j \in 1 .. n + 1
      PROVE  t[j] = IF j < i THEN s[j] ELSE IF j = i THEN e ELSE s[j - 1]
  <2>1. CASE j <= i
    BY <1>0, <1>5, <1>6, <2>1
  <2>2. CASE j > i
    <3>1. j - i \in 1 .. n - i + 1 /\ i + (j - i) - 1 = j - 1
      BY <1>0, <2>2
    <3>2. ~(j <= i) /\ ~(j < i) /\ j # i
      BY <1>0, <2>2
    <3>3. t[j] = b[j - i] /\ b[j - i] = s[i + (j - i) - 1]
      BY <1>2, <1>6, <3>1, <3>2
    <3> QED BY <3>1, <3>2, <3>3
  <2> QED BY <1>0, <2>1, <2>2
<1> QED BY <1>0, <1>3, <1>6, <1>7

\* a sequence without its i-th member
LEMMA Removed ==
    ASSUME NEW S, NEW s \in Seq(S), NEW i \in 1 .. Len(s)
    PROVE  LET t == RemoveAt(s, i) IN
           /\ t \in Seq(S) /\ Len(t) = Len(s) - 1
           /\ \A j \in 1 .. Len(s) - 1 : t[j] = IF j < i THEN s[j] ELSE s[j + 1]
<1>0. PICK n \in Nat : n = Len(s)
  OBVIOUS
<1> DEFINE a == SubSeq(s, 1, i - 1)
           b == SubSeq(s, i + 1, n)
           t == a \o b
<1>1. a \in Seq(S) /\ Len(a) = i - 1 /\ \A j \in 1 .. i - 1 : a[j] = s[j]
  BY <1>0, Part
<1>2. b \in Seq(S) /\ Len(b) = n - i /\ \A j \in 1 .. n - i : b[j] = s[i + j]
  BY <1>0, Part
<1>3. t = RemoveAt(s, i)
  BY <1>0 DEF RemoveAt
<1> HIDE DEF a, b
<1>4. /\ t \in Seq(S) /\ Len(t) = n - 1
      /\ \A j \in 1 .. n - 1 : t[j] = IF j <= i - 1 THEN a[j] ELSE b[j - (i - 1)]
  BY <1>0, <1>1, <1>2, Joined
<1> HIDE DEF t
<1>5. ASSUME NEW j \in 1 .. n - 1
      PROVE  t[j] = IF j < i THEN s[j] ELSE s[j + 1]
  <2>1. CASE j < i
    BY <1>0, <1>1, <1>4, <2>1
  <2>2. CASE j >= i
    <3>1. j - (i - 1) \in 1 .. n - i /\ i + (j - (i - 1)) = j + 1
      BY <1>0, <2>2
    <3> QED BY <1>0, <1>2, <1>4, <2>2, <3>1
  <2> QED BY <1>0, <2>1, <2>2
<1> QED BY <1>0, <1>3, <1>4, <1>5

-----------------------------------------------------------------------------
\* what removing an orbiter leaves of a list without duplicates
LEMMA RemovedMember ==
    ASSUME NEW S, NEW s \in Seq(S), IsInjective(s), NEW i \in 1 .. Len(s)
    PROVE  IsInjective(RemoveAt(s, i)) /\ ToSet(RemoveAt(s, i)) = ToSet(s) \ {s[i]}
<1> DEFINE t == RemoveAt(s, i)
<1>0. PICK n \in Nat : n = Len(s)
  OBVIOUS
<1>1. t \in Seq(S) /\ Len(t) = n - 1 /\ \A j \in 1 .. n - 1 : t[j] = IF j < i THEN s[j] ELSE s[j + 1]
  BY <1>0, Removed
<1> HIDE DEF t
<1>2. DOMAIN s = 1 .. n /\ DOMAIN t = 1 .. n - 1 /\ i \in 1 .. n
  BY <1>0, <1>1, LenProperties
<1>3. \A j, k \in 1 .. n : s[j] = s[k] => j = k
  BY <1>2 DEF IsInjective
<1>4. IsInjective(t)
  <2> SUFFICES ASSUME NEW j \in 1 .. n - 1, NEW k \in 1 .. n - 1, t[j] = t[k]  PROVE j = k
    BY <1>2 DEF IsInjective
  <2> DEFINE J == IF j < i THEN j ELSE j + 1
             K == IF k < i THEN k ELSE k + 1
  <2>1. J \in 1 .. n /\ K \in 1 .. n /\ t[j] = s[J] /\ t[k] = s[K]
    BY <1>0, <1>1, <1>2
  <2>2. J = K
    BY <1>3, <2>1
  <2> QED BY <1>2, <2>2
<1>5. ToSet(t) \subseteq ToSet(s) \ {s[i]}
  <2> SUFFICES ASSUME NEW j \in 1 .. n - 1  PROVE t[j] \in ToSet(s) /\ t[j] # s[i]
    BY <1>2 DEF ToSet
  <2> DEFINE J == IF j < i THEN j ELSE j + 1
  <2>1. J \in 1 .. n /\ t[j] = s[J] /\ J # i
    BY <1>0, <1>1, <1>2
  <2> QED BY <1>2, <1>3, <2>1 DEF ToSet
<1>6. ToSet(s) \ {s[i]} \subseteq ToSet(t)
  <2> SUFFICES ASSUME NEW J \in 1 .. n, J # i  PROVE s[J] \in ToSet(t)
    BY <1>2 DEF ToSet
  <2> DEFINE j == IF J < i THEN J ELSE J - 1
  <2>1. j \in 1 .. n - 1 /\ t[j] = s[J]
    BY <1>0, <1>1, <1>2
  <2> QED BY <1>2, <2>1 DEF ToSet
<1> QED BY <1>4, <1>5, <1>6 DEF t

\* what adding an orbiter makes of a list without duplicates
LEMMA InsertedMember ==
    ASSUME NEW S, NEW s \in Seq(S), IsInjective(s), NEW i \in 1 .. Len(s) + 1,
           NEW e \in S, e \notin ToSet(s)
    PROVE  IsInjective(InsertAt(s, i, e)) /\ ToSet(InsertAt(s, i, e)) = ToSet(s) \cup {e}
<1> DEFINE t == InsertAt(s, i, e)
<1>0. PICK n \in Nat : n = Len(s)
  OBVIOUS
<1>1. t \in Seq(S) /\ Len(t) = n + 1
      /\ \A j \in 1 .. n + 1 : t[j] = IF j < i THEN s[j] ELSE IF j = i THEN e ELSE s[j - 1]
  <2>1. /\ t \in Seq(S) /\ Len(t) = Len(s) + 1
        /\ \A j \in 1 .. Len(s) + 1 :
              t[j] = IF j < i THEN s[j] ELSE IF j = i THEN e ELSE s[j - 1]
    BY Inserted
  <2> HIDE DEF t
  <2> QED BY <1>0, <2>1
<1> HIDE DEF t
<1>2. DOMAIN s = 1 .. n /\ DOMAIN t = 1 .. n + 1 /\ i \in 1 .. n + 1
  BY <1>0, <1>1, LenProperties
<1>3. /\ \A j, k \in 1 .. n : s[j] = s[k] => j = k
      /\ \A j \in 1 .. n : s[j] # e
  BY <1>2 DEF IsInjective, ToSet
<1>4. IsInjective(t)
  <2> SUFFICES ASSUME NEW j \in 1 .. n + 1, NEW k \in 1 .. n + 1, t[j] = t[k]  PROVE j = k
    BY <1>2 DEF IsInjective
  <2>1. CASE j = i \/ k = i
    BY <1>1, <1>2, <1>3, <2>1
  <2>2. CASE j # i /\ k # i
    <3> DEFINE J == IF j < i THEN j ELSE j - 1
               K == IF k < i THEN k ELSE k - 1
    <3>1. J \in 1 .. n /\ K \in 1 .. n /\ t[j] = s[J] /\ t[k] = s[K]
      BY <1>0, <1>1, <1>2, <2>2
    <3>2. J = K
      BY <1>3, <3>1
    <3> QED BY <1>2, <2>2, <3>2
  <2> QED BY <2>1, <2>2
<1>5. ToSet(t) \subseteq ToSet(s) \cup {e}
  <2> SUFFICES ASSUME NEW j \in 1 .. n + 1, j # i  PROVE t[j] \in ToSet(s)
    BY <1>1, <1>2 DEF ToSet
  <2> DEFINE J == IF j < i THEN j ELSE j - 1
  <2>1. J \in 1 .. n /\ t[j] = s[J]
    BY <1>0, <1>1, <1>2
  <2> QED BY <1>2, <2>1 DEF ToSet
<1>6. ToSet(s) \cup {e} \subseteq ToSet(t)
  <2>1. e \in ToSet(t)
    BY <1>1, <1>2 DEF ToSet
  <2>2. ASSUME NEW J \in 1 .. n  PROVE s[J] \in ToSet(t)
    <3> DEFINE j == IF J < i THEN J ELSE J + 1
    <3>1. j \in 1 .. n + 1 /\ t[j] = s[J]
      BY <1>0, <1>1, <1>2
    <3> QED BY <1>2, <3>1 DEF ToSet
  <2> QED BY <1>2, <2>1, <2>2 DEF ToSet
<1> QED BY <1>4, <1>5, <1>6 DEF t

-----------------------------------------------------------------------------
(* A pool                                                                  *)

\* add_orbiter keeps a pool well formed and appends nobody but o
LEMMA AddOrbiterOK ==
    ASSUME NEW pool, PoolOK(pool), NEW o \in Orbiters,
           ~Lists(pool, o), Len(pool.orbiters) < MaxPoolSize
    PROVE  LET new == AddOrbiter(pool, o) IN
           /\ PoolOK(new) /\ new.current = pool.current
           /\ ToSet(new.orbiters) = ToSet(pool.orbiters) \cup {o}
<1> DEFINE s == pool.orbiters
           at == IF pool.next > Len(s) THEN 0 ELSE pool.next
           t == InsertAt(s, at + 1, o)
           new == AddOrbiter(pool, o)
<1>1. s \in Seq(Orbiters) /\ IsInjective(s) /\ Len(s) < MaxPoolSize /\ o \notin ToSet(s)
  BY DEF PoolOK, Lists
<1>2. Len(s) \in Nat /\ MaxPoolSize \in Nat /\ pool.next \in Nat
  BY <1>1, PeriodsAssumption DEF PoolOK
<1>3. at + 1 \in 1 .. Len(s) + 1
  BY <1>2
<1>4. t \in Seq(Orbiters) /\ Len(t) = Len(s) + 1
  BY <1>1, <1>3, Inserted
<1>5. IsInjective(t) /\ ToSet(t) = ToSet(s) \cup {o}
  BY <1>1, <1>3, InsertedMember
<1>6. new = [pool EXCEPT !.orbiters = t, !.next = at + 1]
  BY DEF AddOrbiter
<1>7. new.orbiters = t /\ new.next = at + 1 /\ new.current = pool.current
      /\ new \in [orbiters : Seq(Orbiters), next : 0..MaxPoolSize,
                  current : SUBSET [account : Orbiters, removed : BOOLEAN]]
  <2>1. at + 1 \in 0 .. MaxPoolSize
    BY <1>1, <1>2, <1>3
  <2> HIDE DEF t, at, new
  <2> QED BY <1>4, <1>6, <2>1 DEF PoolOK
<1> HIDE DEF t, new
<1> QED BY <1>1, <1>2, <1>4, <1>5, <1>7 DEF PoolOK, Lists, new

\* remove_orbiter keeps a pool well formed; the current orbiter stays, marked
LEMMA RemoveOrbiterOK ==
    ASSUME NEW pool, PoolOK(pool), NEW o \in Orbiters, Lists(pool, o)
    PROVE  LET new == RemoveOrbiter(pool, o) IN
           /\ PoolOK(new) /\ OldOrbiter(new) = OldOrbiter(pool)
           /\ ToSet(new.orbiters) = ToSet(pool.orbiters) \ {o}
<1> DEFINE s == pool.orbiters
           i == Place(pool, o)
           t == RemoveAt(s, i)
           now == {[cur EXCEPT !.removed = @ \/ cur.account = o] : cur \in pool.current}
           new == RemoveOrbiter(pool, o)
<1>1. s \in Seq(Orbiters) /\ IsInjective(s) /\ Len(s) <= MaxPoolSize /\ Len(s) \in Nat
  BY DEF PoolOK
<1>2. i \in 1 .. Len(s) /\ s[i] = o
  <2>1. \E j \in DOMAIN s : s[j] = o
    BY DEF Lists, ToSet
  <2> QED BY <1>1, <2>1 DEF Place
<1>3. t \in Seq(Orbiters) /\ Len(t) = Len(s) - 1
  BY <1>1, <1>2, Removed
<1>4. IsInjective(t) /\ ToSet(t) = ToSet(s) \ {o}
  BY <1>1, <1>2, RemovedMember
<1>5. new = [pool EXCEPT !.orbiters = t, !.current = now]
  BY DEF RemoveOrbiter
<1>6. now \in SUBSET [account : Orbiters, removed : BOOLEAN]
  BY DEF PoolOK
<1>7. {cur.account : cur \in now} = OldOrbiter(pool)
  <2> DEFINE Marked(cur) == [cur EXCEPT !.removed = @ \/ cur.account = o]
  <2>1. \A cur \in pool.current : Marked(cur).account = cur.account
    BY DEF PoolOK
  <2>2. now = {Marked(cur) : cur \in pool.current}
    OBVIOUS
  <2> HIDE DEF Marked, now
  <2>3. {cur.account : cur \in now} = {Marked(cur).account : cur \in pool.current}
    BY <2>2
  <2> QED BY <2>1, <2>3 DEF OldOrbiter
<1>8. ASSUME NEW cur \in now
      PROVE  now = {cur} /\ (cur.removed \/ cur.account \in ToSet(s) \ {o})
  <2>1. PICK old \in pool.current : cur = [old EXCEPT !.removed = @ \/ old.account = o]
    OBVIOUS
  <2>2. pool.current = {old} /\ (old.removed \/ old.account \in ToSet(s))
        /\ old \in [account : Orbiters, removed : BOOLEAN]
    BY DEF PoolOK, Lists
  <2>3. now = {cur}
    BY <2>1, <2>2
  <2>4. cur.account = old.account /\ cur.removed = (old.removed \/ old.account = o)
    BY <2>1, <2>2
  <2> QED BY <2>2, <2>3, <2>4
<1> HIDE DEF t, now, i
<1>9. new.orbiters = t /\ new.next = pool.next /\ new.current = now
      /\ new \in [orbiters : Seq(Orbiters), next : 0..MaxPoolSize,
                  current : SUBSET [account : Orbiters, removed : BOOLEAN]]
  <2> HIDE DEF new
  <2> QED BY <1>3, <1>5, <1>6 DEF PoolOK
<1> HIDE DEF new
<1>10. PoolOK(new)
  <2>1. Len(t) <= MaxPoolSize
    BY <1>1, <1>3, PeriodsAssumption
  <2> QED BY <1>4, <1>8, <1>9, <2>1 DEF PoolOK, Lists
<1> QED BY <1>4, <1>7, <1>9, <1>10 DEF OldOrbiter, new

\* rotate_orbiter makes the next orbiter of the list the current one
LEMMA RotateOrbiterOK ==
    ASSUME NEW pool, PoolOK(pool)
    PROVE  LET new == RotateOrbiter(pool) IN
           /\ PoolOK(new) /\ new.orbiters = pool.orbiters
           /\ pool.orbiters = <<>> => new.current = pool.current
           /\ pool.orbiters # <<>> =>
                /\ NextOrbiter(pool) \in ToSet(pool.orbiters)
                /\ new.current = {[account |-> NextOrbiter(pool), removed |-> FALSE]}
                /\ OldOrbiter(new) = {NextOrbiter(pool)}
<1> DEFINE s == pool.orbiters
           n == NextIndex(pool)
           o == NextOrbiter(pool)
           new == RotateOrbiter(pool)
           Shape == [orbiters : Seq(Orbiters), next : 0..MaxPoolSize,
                     current : SUBSET [account : Orbiters, removed : BOOLEAN]]
<1>1. s \in Seq(Orbiters) /\ Len(s) <= MaxPoolSize /\ Len(s) \in Nat /\ pool \in Shape
  BY DEF PoolOK
<1>2. MaxPoolSize \in Nat /\ pool.next \in 0 .. MaxPoolSize
  BY <1>1, PeriodsAssumption
<1>3. CASE s = <<>>
  <2>1. new = [pool EXCEPT !.next = 0]
    BY <1>3 DEF RotateOrbiter
  <2>2. new \in Shape /\ new.orbiters = s /\ new.current = pool.current
    BY <1>1, <1>2, <2>1
  <2>3. PoolOK(new)
    <3> HIDE DEF new
    <3> QED BY <2>2 DEF PoolOK, Lists
  <2> QED BY <1>3, <2>2, <2>3
<1>4. CASE s # <<>>
  <2>1. n \in Nat /\ n + 1 \in 1 .. Len(s)
    BY <1>1, <1>2, <1>4, EmptySeq DEF NextIndex
  <2>2. o = s[n + 1] /\ o \in Orbiters /\ o \in ToSet(s)
    <3> HIDE DEF n
    <3> QED BY <1>1, <2>1, LenProperties, ElementOfSeq DEF NextOrbiter, ToSet, n
  <2>3. new = [pool EXCEPT !.current = {[account |-> o, removed |-> FALSE]}, !.next = n + 1]
    BY <1>4 DEF RotateOrbiter
  <2> HIDE DEF n, o, new
  <2>4. n + 1 \in 0 .. MaxPoolSize
    BY <1>1, <1>2, <2>1
  <2>5. new \in Shape /\ new.orbiters = s /\ new.current = {[account |-> o, removed |-> FALSE]}
    <3>1. {[account |-> o, removed |-> FALSE]} \in SUBSET [account : Orbiters, removed : BOOLEAN]
      BY <2>2
    <3> QED BY <1>1, <2>3, <2>4, <3>1
  <2>6. PoolOK(new)
    BY <2>2, <2>5 DEF PoolOK, Lists
  <2>7. OldOrbiter(new) = {o}
    BY <2>5 DEF OldOrbiter
  <2> QED BY <1>4, <2>2, <2>5, <2>6, <2>7 DEF o, new
<1> QED BY <1>3, <1>4

-----------------------------------------------------------------------------
(* Induction on the steps of on_rotate                                     *)

\* the recursive function of on_rotate, unfolded once
LEMMA RotatedSteps ==
    ASSUME NEW r \in Nat
    PROVE  \A n \in 0 .. Len(PoolOrder) :
               Rotated(r)[n] = IF n = 0 THEN Storage
                               ELSE RotatePool(r, Rotated(r)[n - 1], PoolOrder[n])
<1> DEFINE N == Len(PoolOrder)
           At(f, n) == IF n = 0 THEN Storage ELSE RotatePool(r, f[n - 1], PoolOrder[n])
           Upto(m) == \E f : f = [n \in 0 .. m |-> At(f, n)]
           S == {m \in Nat : Upto(m)}
<1>1. N \in Nat
  BY PoolsAssumption
<1>2. 0 \in S
  <2> DEFINE f == [n \in 0 .. 0 |-> Storage]
  <2>1. \A n \in 0 .. 0 : n = 0
    OBVIOUS
  <2>2. f = [n \in 0 .. 0 |-> At(f, n)]
    BY <2>1
  <2> QED BY <2>2
<1>3. ASSUME NEW m \in Nat, m \in S  PROVE m + 1 \in S
  <2>1. PICK f : f = [n \in 0 .. m |-> At(f, n)]
    BY <1>3
  <2> DEFINE g == [n \in 0 .. m + 1 |-> IF n = m + 1 THEN At(f, m + 1) ELSE f[n]]
  <2>2. \A n \in 0 .. m + 1 : n # 0 => n - 1 \in 0 .. m /\ g[n - 1] = f[n - 1]
    OBVIOUS
  <2>3. \A n \in 0 .. m + 1 : At(g, n) = At(f, n)
    BY <2>2
  <2>4. \A n \in 0 .. m : f[n] = At(f, n)
    BY <2>1, Zenon
  <2>5. \A n \in 0 .. m + 1 : n # m + 1 => n \in 0 .. m
    OBVIOUS
  <2> HIDE DEF At
  <2>6. \A n \in 0 .. m + 1 : g[n] = At(g, n)
    BY <2>3, <2>4, <2>5
  <2>7. g = [n \in 0 .. m + 1 |-> g[n]]
    OBVIOUS
  <2> HIDE DEF g
  <2>8. g = [n \in 0 .. m + 1 |-> At(g, n)]
    BY <2>6, <2>7
  <2>9. Upto(m + 1)
    BY <2>8, Zenon
  <2> HIDE DEF Upto
  <2> QED BY <2>9
<1>4. Upto(N)
  <2> HIDE DEF Upto
  <2>1. Nat \subseteq S
    <3> HIDE DEF S
    <3> QED BY <1>2, <1>3, Induction
  <2> QED BY <1>1, <2>1
<1> DEFINE after == CHOOSE f : f = [n \in 0 .. N |-> At(f, n)]
<1>5. after = [n \in 0 .. N |-> At(after, n)]
  <2> HIDE DEF At
  <2> QED BY <1>4, Zenon
<1>6. Rotated(r) = after
  BY DEF Rotated
<1> HIDE DEF after
<1>7. \A n \in 0 .. N : after[n] = At(after, n)
  <2> HIDE DEF At
  <2> QED BY <1>5, Zenon
<1> QED BY <1>6, <1>7

-----------------------------------------------------------------------------
(* Rounds until the next rotation                                          *)

\* the rounds from r on that no rotation has yet replaced the orbiters of
Until(r) == {s \in Nat : s >= r /\ \A t \in r + 1 .. s : ~IsRotation(t)}

\* a number has one remainder
LEMMA OneRemainder ==
    ASSUME NEW P \in Nat \ {0}, NEW a \in Int, NEW b \in Int,
           NEW c \in 0 .. P - 1, NEW d \in 0 .. P - 1, P * a + c = P * b + d
    PROVE  c = d
<1>1. P * (a - b) = d - c /\ P * (b - a) = c - d
  OBVIOUS
<1>2. CASE a - b >= 1
  <2>1. P * (a - b) >= P
    BY <1>2
  <2> QED BY <1>1, <2>1
<1>3. CASE a - b <= -1
  <2>1. P * (b - a) >= P
    BY <1>3
  <2> QED BY <1>1, <2>1
<1>4. CASE a = b
  BY <1>4
<1> QED BY <1>2, <1>3, <1>4

\* what div and mod are
LEMMA Divided ==
    ASSUME NEW P \in Nat \ {0}, NEW r \in Nat
    PROVE  r = P * (r \div P) + (r % P) /\ r \div P \in Int /\ r % P \in 0 .. P - 1
<1>1. r = P * (r \div P) + (r % P)
  OBVIOUS
<1>2. r \div P \in Int
  OBVIOUS
<1>3. r % P \in 0 .. P - 1
  OBVIOUS
<1> QED BY <1>1, <1>2, <1>3

\* the remainder of the next number
LEMMA RemainderAfter ==
    ASSUME NEW P \in Nat \ {0}, NEW r \in Nat, r % P = 0, NEW q \in 0 .. P - 1
    PROVE  (r + q) % P = q
<1>1. r = P * (r \div P) + (r % P) /\ r \div P \in Int
  BY Divided
<1>2. r + q \in Nat
  OBVIOUS
<1>3. /\ r + q = P * ((r + q) \div P) + ((r + q) % P)
      /\ (r + q) \div P \in Int /\ (r + q) % P \in 0 .. P - 1
  BY <1>2, Divided
<1> DEFINE a == r \div P
           b == (r + q) \div P
           d == (r + q) % P
<1>4. P * a + q = P * b + d
  BY <1>1, <1>3
<1> HIDE DEF a, b, d
<1>5. a \in Int /\ b \in Int /\ d \in 0 .. P - 1
  BY <1>1, <1>3 DEF a, b, d
<1>6. q = d
  BY <1>4, <1>5, OneRemainder
<1> QED BY <1>6 DEF d

\* at a rotation, the rounds it writes rows for are those until the next rotation
LEMMA PeriodIsUntil ==
    ASSUME NEW r \in Nat, IsRotation(r)
    PROVE  Until(r) = Period(r)
<1> DEFINE P == RotatePeriod
<1>1. P \in Nat \ {0}
  BY PeriodsAssumption
<1>2. r % P = 0
  BY DEF IsRotation
<1>3. ASSUME NEW s \in Until(r), s \notin Period(r)  PROVE FALSE
  <2>1. s \in Nat /\ s >= r + P /\ r + P \in r + 1 .. s
    BY <1>1, <1>3 DEF Until, Period
  <2>2. (r + P) % P = 0
    <3>1. r = P * (r \div P) + (r % P) /\ r \div P \in Int
      BY <1>1, Divided
    <3>2. r + P \in Nat
      BY <1>1
    <3>3. /\ r + P = P * ((r + P) \div P) + ((r + P) % P)
          /\ (r + P) \div P \in Int /\ (r + P) % P \in 0 .. P - 1
      BY <1>1, <3>2, Divided
    <3> DEFINE a == r \div P
               b == (r + P) \div P
               d == (r + P) % P
    <3>4. P * (a + 1) + 0 = P * b + d
      BY <1>1, <1>2, <3>1, <3>3
    <3> HIDE DEF a, b, d
    <3>5. a + 1 \in Int /\ b \in Int /\ d \in 0 .. P - 1 /\ 0 \in 0 .. P - 1
      BY <1>1, <3>1, <3>3 DEF a, b, d
    <3>6. 0 = d
      BY <1>1, <3>4, <3>5, OneRemainder
    <3> QED BY <3>6 DEF d
  <2> QED BY <2>1, <2>2 DEF Until, IsRotation
<1>4. ASSUME NEW s \in Period(r), NEW t \in r + 1 .. s  PROVE ~IsRotation(t)
  <2>1. t - r \in 0 .. P - 1 /\ t - r # 0 /\ r + (t - r) = t
    BY <1>1 DEF Period
  <2>2. t % P = t - r
    BY <1>1, <1>2, <2>1, RemainderAfter
  <2> QED BY <2>1, <2>2 DEF IsRotation
<1>5. \A s \in Period(r) : s \in Nat /\ s >= r
  BY <1>1 DEF Period
<1> QED BY <1>3, <1>4, <1>5 DEF Until

\* the rounds until the next rotation, a round later
LEMMA UntilNext ==
    ASSUME NEW r \in Nat
    PROVE  /\ r \in Until(r) /\ Until(r) \subseteq Nat
           /\ IsRotation(r + 1) => \A s \in Until(r) : s <= r
           /\ ~IsRotation(r + 1) => Until(r + 1) = Until(r) \ {r}
<1>1. r \in Until(r) /\ Until(r) \subseteq Nat
  BY DEF Until
<1>2. ASSUME IsRotation(r + 1), NEW s \in Until(r)  PROVE s <= r
  <2>1. ~(r + 1 \in r + 1 .. s)
    BY <1>2 DEF Until
  <2> QED BY <2>1 DEF Until
<1>3. ASSUME ~IsRotation(r + 1)  PROVE Until(r + 1) = Until(r) \ {r}
  <2>1. ASSUME NEW s \in Until(r + 1)  PROVE s \in Until(r) \ {r}
    <3>1. s \in Nat /\ s >= r + 1 /\ \A t \in r + 2 .. s : ~IsRotation(t)
      BY DEF Until
    <3>2. \A t \in r + 1 .. s : t = r + 1 \/ t \in r + 2 .. s
      OBVIOUS
    <3> QED BY <1>3, <3>1, <3>2 DEF Until
  <2>2. ASSUME NEW s \in Until(r), s # r  PROVE s \in Until(r + 1)
    <3>1. s \in Nat /\ s >= r + 1 /\ \A t \in r + 1 .. s : ~IsRotation(t)
      BY <2>2 DEF Until
    <3>2. \A t \in r + 2 .. s : t \in r + 1 .. s
      OBVIOUS
    <3> QED BY <3>1, <3>2 DEF Until
  <2> QED BY <2>1, <2>2
<1> QED BY <1>1, <1>2, <1>3

-----------------------------------------------------------------------------
(* One step of on_rotate                                                   *)

\* the collators the first n steps of on_rotate deal with
Visited(n) == {PoolOrder[i] : i \in 1 .. n}

\* the collators a rotation gives an orbiter to
Appointing == {c \in DOMAIN pools : pools[c].orbiters # <<>>}

\* no account is both a collator of the program and one of its orbiters
Apart == Collators \cap Orbiters = {}

LookupsOK(lookups) ==
    /\ DOMAIN lookups \subseteq Accounts
    /\ \A a \in DOMAIN lookups :
        lookups[a] \in SUBSET Collators /\ (lookups[a] # {} => a \in Orbiters)

\* the orbiter a rotation gives to the collator of the pool
Appointed(pool) == IF pool.orbiters = <<>> THEN {} ELSE {NextOrbiter(pool)}

\* what holds of the storage st after the first n steps of on_rotate in round r
LoopPools(st, n) ==
    /\ DOMAIN st.pools = DOMAIN pools
    /\ \A c \in DOMAIN pools :
        st.pools[c] = IF c \in Visited(n) THEN RotateOrbiter(pools[c]) ELSE pools[c]

LoopRows(st, n, r) ==
    LET new == Period(r) \X (Appointing \cap Visited(n))
    IN  /\ DOMAIN st.orbiterPerRound = new \cup DOMAIN orbiterPerRound
        /\ \A k \in DOMAIN st.orbiterPerRound :
            st.orbiterPerRound[k] =
                IF k \in new THEN NextOrbiter(pools[k[2]]) ELSE orbiterPerRound[k]

LoopServes(st, n) ==
    \A a \in Orbiters \cap DOMAIN st.override : \A c \in st.override[a] \cap Permanent :
        /\ c \in DOMAIN pools
        /\ c \in Visited(n) => c \in Appointing /\ a = NextOrbiter(pools[c])
        /\ c \notin Visited(n) => a \in OldOrbiter(pools[c])

LoopLocked(st, n) ==
    \A c \in Collators \cap DOMAIN st.override :
        st.override[c] = {} =>
            c \in DOMAIN pools /\ (c \in Visited(n) => c \in Appointing)

LoopReplaced(st, n) ==
    \A c \in Appointing \cap Visited(n) : c \in DOMAIN st.override /\ st.override[c] = {}

LoopSole(st, n) ==
    \A o \in Orbiters : \A c \in Appointing \cap Visited(n) :
        FoundBy(o) = {c} /\ NextOrbiter(pools[c]) = o =>
            o \in DOMAIN st.override /\ st.override[o] = {c}

LoopInv(st, n, r) ==
    /\ LoopPools(st, n) /\ LoopRows(st, n, r)
    /\ LookupsOK(st.override) /\ LoopServes(st, n) /\ LoopLocked(st, n)
    /\ Apart => LoopReplaced(st, n) /\ LoopSole(st, n)

\* a step of the loop deals with one more pool
LEMMA VisitedNext ==
    ASSUME NEW n \in 1 .. Len(PoolOrder)
    PROVE  /\ PoolOrder[n] \in Collators /\ PoolOrder[n] \notin Visited(n - 1)
           /\ Visited(n) = Visited(n - 1) \cup {PoolOrder[n]}
<1>1. DOMAIN PoolOrder = 1 .. Len(PoolOrder) /\ Len(PoolOrder) \in Nat
  BY PoolsAssumption
<1>2. \A i \in 1 .. n - 1 : i \in 1 .. Len(PoolOrder) /\ i # n
  BY <1>1
<1>3. 1 .. n = (1 .. n - 1) \cup {n}
  BY <1>1
<1>4. PoolOrder[n] \in Collators
  BY PoolsAssumption, ElementOfSeq
<1>5. PoolOrder[n] \notin Visited(n - 1)
  BY <1>1, <1>2, PoolsAssumption DEF Visited, IsInjective
<1>6. Visited(n) = Visited(n - 1) \cup {PoolOrder[n]}
  BY <1>3 DEF Visited
<1> QED BY <1>4, <1>5, <1>6

\* the loop deals with every pool
LEMMA AllVisited ==
    Visited(0) = {} /\ Visited(Len(PoolOrder)) = Collators
<1>1. DOMAIN PoolOrder = 1 .. Len(PoolOrder) /\ ToSet(PoolOrder) = Collators
  BY PoolsAssumption
<1>2. 1 .. 0 = {}
  OBVIOUS
<1> QED BY <1>1, <1>2 DEF Visited, ToSet

\* one step of the loop, on a pool it has not dealt with
LEMMA RotatePoolDoes ==
    ASSUME NEW r, NEW st, NEW c \in DOMAIN pools, PoolOK(pools[c]),
           DOMAIN st.pools = DOMAIN pools, st.pools[c] = pools[c]
    PROVE  /\ DOMAIN RotatePool(r, st, c).pools = DOMAIN pools
           /\ \A d \in DOMAIN pools : RotatePool(r, st, c).pools[d] =
                IF d = c THEN RotateOrbiter(pools[c]) ELSE st.pools[d]
           /\ RotatePool(r, st, c).override =
                LookupsAfter(c, Appointed(pools[c]), OldOrbiter(pools[c]), st.override)
           /\ RotatePool(r, st, c).orbiterPerRound =
                Over([s \in Period(r) \X (IF Appointed(pools[c]) = {} THEN {} ELSE {c}) |->
                          NextOrbiter(pools[c])],
                     st.orbiterPerRound)
<1> DEFINE pool == pools[c]
           next == Appointed(pool)
           later == IF RotateOrbiter(pool).orbiters = <<>> THEN {} ELSE OldOrbiter(RotateOrbiter(pool))
           new == RotatePool(r, st, c)
           rows == [s \in Period(r) \X (IF next = {} THEN {} ELSE {c}) |-> CHOOSE o \in next : TRUE]
           row == [s \in Period(r) \X (IF next = {} THEN {} ELSE {c}) |-> NextOrbiter(pool)]
<1>1. later = next
  BY RotateOrbiterOK DEF Appointed
<1> HIDE DEF later
<1>2. new = [pools |-> [st.pools EXCEPT ![c] = RotateOrbiter(pool)],
             override |-> LookupsAfter(c, later, OldOrbiter(pool), st.override),
             orbiterPerRound |->
                 Over([s \in Period(r) \X (IF later = {} THEN {} ELSE {c}) |->
                          CHOOSE o \in later : TRUE], st.orbiterPerRound)]
  BY DEF RotatePool, later
<1>3. /\ new.pools = [st.pools EXCEPT ![c] = RotateOrbiter(pool)]
      /\ new.override = LookupsAfter(c, next, OldOrbiter(pool), st.override)
      /\ new.orbiterPerRound = Over(rows, st.orbiterPerRound)
  <2> HIDE DEF new, next, pool
  <2> QED BY <1>1, <1>2
<1>4. rows = row
  <2>1. CASE next = {}
    BY <2>1
  <2>2. CASE next # {}
    <3>a. next = {NextOrbiter(pool)}
      BY <2>2 DEF Appointed
    <3> DEFINE x == CHOOSE o \in next : TRUE
    <3>0. x \in next
      <4> HIDE DEF next
      <4> QED BY <2>2
    <3>1. x = NextOrbiter(pool)
      <4> HIDE DEF x, next
      <4> QED BY <3>a, <3>0
    <3> HIDE DEF next
    <3> QED BY <3>1
  <2> QED BY <2>1, <2>2
<1>5. /\ DOMAIN new.pools = DOMAIN pools
      /\ \A d \in DOMAIN pools : new.pools[d] = IF d = c THEN RotateOrbiter(pool) ELSE st.pools[d]
  <2> HIDE DEF new, pool
  <2> QED BY <1>3
<1>6. new.orbiterPerRound = Over(row, st.orbiterPerRound)
  <2> HIDE DEF new, row, rows
  <2> QED BY <1>3, <1>4
<1> QED BY <1>3, <1>5, <1>6

\* which accounts have an override after the rotation of one pool
LEMMA LookupsAfterDomain ==
    ASSUME NEW c, NEW next, NEW old, NEW lookups
    PROVE  \A a : a \in DOMAIN LookupsAfter(c, next, old, lookups) <=>
              IF next = {} THEN a \in DOMAIN lookups /\ a \notin old \cup {c}
              ELSE a \in next \/ a = c \/ (a \in DOMAIN lookups /\ a \notin old)
<1>1. CASE next = {}
  BY <1>1 DEF LookupsAfter, Without
<1>2. CASE next # {}
  BY <1>2 DEF LookupsAfter, Without, Over, StandsIn
<1> QED BY <1>1, <1>2

\* what they are looked up as
LEMMA LookupsAfterAt ==
    ASSUME NEW c, NEW next, NEW old, NEW lookups
    PROVE  \A a : a \in DOMAIN LookupsAfter(c, next, old, lookups) =>
              LookupsAfter(c, next, old, lookups)[a] =
                  IF a \in next THEN {c} ELSE IF a = c THEN {} ELSE lookups[a]
<1>1. CASE next = {}
  BY <1>1 DEF LookupsAfter, Without
<1>2. CASE next # {}
  BY <1>2 DEF LookupsAfter, Without, Over, StandsIn
<1> QED BY <1>1, <1>2

\* one step of the loop keeps what the steps before it established
LEMMA LoopStep ==
    ASSUME NEW r \in Nat, DOMAIN pools \subseteq Collators,
           \A c \in DOMAIN pools : PoolOK(pools[c]),
           NEW n \in 1 .. Len(PoolOrder), NEW st, LoopInv(st, n - 1, r)
    PROVE  LoopInv(RotatePool(r, st, PoolOrder[n]), n, r)
<1> DEFINE c == PoolOrder[n]
           new == RotatePool(r, st, c)
           V == Visited(n - 1)
           W == Visited(n)
<1>1. c \in Collators /\ c \notin V /\ W = V \cup {c}
  BY VisitedNext
<1> HIDE DEF c, V, W
<1>2. CASE c \notin DOMAIN pools
  <2>1. new = st
    BY <1>2 DEF RotatePool, LoopInv, LoopPools
  <2>2. \A d \in DOMAIN pools : d \in W <=> d \in V
    BY <1>1, <1>2
  <2>3. Appointing \cap W = Appointing \cap V
    BY <2>2 DEF Appointing
  <2>4. LoopPools(st, n) /\ LoopServes(st, n) /\ LoopLocked(st, n)
    BY <2>2 DEF LoopInv, LoopPools, LoopServes, LoopLocked, V, W
  <2>5. LoopRows(st, n, r)
    BY <2>3 DEF LoopInv, LoopRows, V, W
  <2>6. Apart => LoopReplaced(st, n) /\ LoopSole(st, n)
    BY <2>3 DEF LoopInv, LoopReplaced, LoopSole, V, W
  <2> HIDE DEF new
  <2> QED BY <2>1, <2>4, <2>5, <2>6 DEF LoopInv, new, c
<1>3. CASE c \in DOMAIN pools
  <2> DEFINE pool == pools[c]
             next == Appointed(pool)
             old == OldOrbiter(pool)
             rows == Period(r) \X (IF next = {} THEN {} ELSE {c})
             row == [s \in rows |-> NextOrbiter(pool)]
  <2>1. DOMAIN st.pools = DOMAIN pools /\ st.pools[c] = pool
        /\ \A d \in DOMAIN pools : st.pools[d] = IF d \in V THEN RotateOrbiter(pools[d]) ELSE pools[d]
    BY <1>1, <1>3 DEF LoopInv, LoopPools, V
  <2>2. /\ DOMAIN new.pools = DOMAIN pools
        /\ \A d \in DOMAIN pools : new.pools[d] = IF d = c THEN RotateOrbiter(pool) ELSE st.pools[d]
        /\ new.override = LookupsAfter(c, next, old, st.override)
        /\ new.orbiterPerRound = Over(row, st.orbiterPerRound)
    <3>1. PoolOK(pools[c])
      BY <1>3
    <3> HIDE DEF new, next
    <3> QED BY <1>3, <2>1, <3>1, RotatePoolDoes DEF new, next
  <2>3. /\ \A a : a \in DOMAIN new.override <=>
             IF next = {} THEN a \in DOMAIN st.override /\ a \notin old \cup {c}
             ELSE a \in next \/ a = c \/ (a \in DOMAIN st.override /\ a \notin old)
        /\ \A a \in DOMAIN new.override :
             new.override[a] = IF a \in next THEN {c} ELSE IF a = c THEN {} ELSE st.override[a]
    <3>1. new.override = LookupsAfter(c, next, old, st.override)
      BY <2>2
    <3> DEFINE lookups == st.override
    <3> HIDE DEF next, old, lookups
    <3> DEFINE after == LookupsAfter(c, next, old, lookups)
    <3>2. \A a : a \in DOMAIN after <=>
             IF next = {} THEN a \in DOMAIN lookups /\ a \notin old \cup {c}
             ELSE a \in next \/ a = c \/ (a \in DOMAIN lookups /\ a \notin old)
      BY LookupsAfterDomain
    <3>3. \A a \in DOMAIN after :
             after[a] = IF a \in next THEN {c} ELSE IF a = c THEN {} ELSE lookups[a]
      BY LookupsAfterAt
    <3> HIDE DEF after, new
    <3> QED BY <3>1, <3>2, <3>3 DEF after, lookups
  <2>4. PoolOK(pool)
    BY <1>3
  <2>5. /\ next # {} => NextOrbiter(pool) \in Orbiters /\ next = {NextOrbiter(pool)}
        /\ next \subseteq ToSet(pool.orbiters) /\ next \subseteq Orbiters
        /\ old \subseteq Orbiters
        /\ c \in Appointing <=> next # {}
    <3>1. pool.orbiters # <<>> => NextOrbiter(pool) \in ToSet(pool.orbiters)
      BY <2>4, RotateOrbiterOK
    <3>2. ToSet(pool.orbiters) \subseteq Orbiters
      BY <2>4 DEF PoolOK, ToSet
    <3>3. old \subseteq Orbiters
      <4>1. pool.current \in SUBSET [account : Orbiters, removed : BOOLEAN]
        <5> HIDE DEF pool
        <5> QED BY <2>4 DEF PoolOK
      <4> HIDE DEF pool
      <4> QED BY <4>1 DEF OldOrbiter
    <3> QED BY <1>3, <3>1, <3>2, <3>3 DEF Appointing, Appointed
  <2> HIDE DEF pool, next, old, new
  <2>6. LoopPools(new, n)
    <3>1. \A d \in DOMAIN pools : new.pools[d] = IF d \in W THEN RotateOrbiter(pools[d]) ELSE pools[d]
      BY <1>1, <2>1, <2>2 DEF pool
    <3> QED BY <2>2, <3>1 DEF LoopPools, W
  <2>7. LoopRows(new, n, r)
    <3> DEFINE before == Period(r) \X (Appointing \cap V)
               after == Period(r) \X (Appointing \cap W)
    <3>1. /\ DOMAIN st.orbiterPerRound = before \cup DOMAIN orbiterPerRound
          /\ \A k \in DOMAIN st.orbiterPerRound :
               st.orbiterPerRound[k] =
                   IF k \in before THEN NextOrbiter(pools[k[2]]) ELSE orbiterPerRound[k]
      BY DEF LoopInv, LoopRows, V
    <3>2. after = rows \cup before
      BY <1>1, <2>5
    <3>3. \A k \in rows : k[2] = c
      OBVIOUS
    <3> HIDE DEF rows, before, after
    <3>4. DOMAIN new.orbiterPerRound = after \cup DOMAIN orbiterPerRound
      BY <2>2, <3>1, <3>2 DEF Over
    <3>5. ASSUME NEW k \in DOMAIN new.orbiterPerRound
          PROVE  new.orbiterPerRound[k] =
                     IF k \in after THEN NextOrbiter(pools[k[2]]) ELSE orbiterPerRound[k]
      <4>1. CASE k \in rows
        BY <2>2, <3>2, <3>3, <4>1 DEF Over, pool
      <4>2. CASE k \notin rows
        BY <2>2, <3>1, <3>2, <3>4, <3>5, <4>2 DEF Over
      <4> QED BY <4>1, <4>2
    <3> QED BY <3>4, <3>5 DEF LoopRows, after, W
  <2>8. LookupsOK(new.override)
    <3>1. LookupsOK(st.override)
      BY DEF LoopInv
    <3> QED BY <1>1, <2>3, <2>5, <3>1 DEF LookupsOK, Accounts
  <2>9. LoopServes(new, n)
    <3> SUFFICES ASSUME NEW a \in Orbiters \cap DOMAIN new.override,
                        NEW d \in new.override[a] \cap Permanent
                 PROVE  /\ d \in DOMAIN pools
                        /\ d \in W => d \in Appointing /\ a = NextOrbiter(pools[d])
                        /\ d \notin W => a \in OldOrbiter(pools[d])
      BY DEF LoopServes, W
    <3>1. CASE a \in next
      BY <1>1, <1>3, <2>3, <2>5, <3>1 DEF pool
    <3>2. CASE a \notin next
      <4>1. a # c /\ a \in DOMAIN st.override /\ a \notin old /\ new.override[a] = st.override[a]
        BY <2>3, <3>2
      <4>2. /\ d \in DOMAIN pools
            /\ d \in V => d \in Appointing /\ a = NextOrbiter(pools[d])
            /\ d \notin V => a \in OldOrbiter(pools[d])
        BY <4>1 DEF LoopInv, LoopServes, V
      <4> QED BY <1>1, <4>1, <4>2 DEF old, pool
    <3> QED BY <3>1, <3>2
  <2>10. LoopLocked(new, n)
    <3> SUFFICES ASSUME NEW d \in Collators \cap DOMAIN new.override, new.override[d] = {}
                 PROVE  d \in DOMAIN pools /\ (d \in W => d \in Appointing)
      BY DEF LoopLocked, W
    <3>1. CASE d = c
      BY <1>3, <2>3, <2>5, <3>1
    <3>2. CASE d # c
      <4>1. d \in DOMAIN st.override /\ st.override[d] = {}
        BY <2>3, <3>2
      <4> QED BY <1>1, <3>2, <4>1 DEF LoopInv, LoopLocked, V
    <3> QED BY <3>1, <3>2
  <2>11. ASSUME Apart
         PROVE  LoopReplaced(new, n) /\ LoopSole(new, n)
    <3>1. LoopReplaced(st, n - 1) /\ LoopSole(st, n - 1)
      BY <2>11 DEF LoopInv
    <3>2. LoopReplaced(new, n)
      <4> SUFFICES ASSUME NEW d \in Appointing \cap W
                   PROVE  d \in DOMAIN new.override /\ new.override[d] = {}
        BY DEF LoopReplaced, W
      <4>1. d \in Collators /\ d \notin Orbiters
        BY <2>11 DEF Apart, Appointing
      <4>2. CASE d = c
        BY <2>3, <2>5, <4>1, <4>2
      <4>3. CASE d # c
        <5>1. d \in DOMAIN st.override /\ st.override[d] = {}
          BY <1>1, <3>1, <4>3 DEF LoopReplaced, V
        <5> QED BY <2>3, <2>5, <4>1, <4>3, <5>1
      <4> QED BY <4>2, <4>3
    <3>3. LoopSole(new, n)
      <4> SUFFICES ASSUME NEW o \in Orbiters, NEW d \in Appointing \cap W,
                          FoundBy(o) = {d}, NextOrbiter(pools[d]) = o
                   PROVE  o \in DOMAIN new.override /\ new.override[o] = {d}
        BY DEF LoopSole, W
      <4>1. o # c
        BY <1>1, <2>11 DEF Apart
      <4>2. CASE d = c
        BY <2>3, <2>5, <4>2 DEF pool
      <4>3. CASE d # c
        <5>1. o \in DOMAIN st.override /\ st.override[o] = {d}
          BY <1>1, <3>1, <4>3 DEF LoopSole, V
        <5>2. ~ContainsOrbiter(pool, o)
          BY <1>3, <4>3 DEF FoundBy, pool
        <5>3. o \notin next /\ o \notin old
          BY <2>5, <5>2 DEF ContainsOrbiter, Lists, old, OldOrbiter
        <5> QED BY <2>3, <4>1, <5>1, <5>3
      <4> QED BY <4>2, <4>3
    <3> QED BY <3>2, <3>3
  <2> QED BY <2>6, <2>7, <2>8, <2>9, <2>10, <2>11 DEF LoopInv, new, c
<1> QED BY <1>2, <1>3

-----------------------------------------------------------------------------
(* The inductive invariants                                                *)

\* the deposits back the orbiters of a pool, the current one included
Backed ==
    \A c \in DOMAIN pools : ToSet(pools[c].orbiters) \cup OldOrbiter(pools[c]) \subseteq registered

\* until the next rotation every round has the rows of this one; there are no others to come
RowsKept ==
    /\ \A k \in DOMAIN orbiterPerRound : k[1] <= round \/ k[1] \in Until(round)
    /\ \A c \in Collators : \A s \in Until(round) :
        /\ <<s, c>> \in DOMAIN orbiterPerRound <=> <<round, c>> \in DOMAIN orbiterPerRound
        /\ <<round, c>> \in DOMAIN orbiterPerRound =>
             orbiterPerRound[<<s, c>>] = orbiterPerRound[<<round, c>>]

Serves ==
    \A a \in Orbiters \cap DOMAIN override : \A c \in override[a] \cap Permanent :
        /\ c \in DOMAIN pools /\ a \in OldOrbiter(pools[c])
        /\ <<round, c>> \in DOMAIN orbiterPerRound
        /\ orbiterPerRound[<<round, c>>] = a

Locked ==
    \A c \in Collators \cap DOMAIN override :
        override[c] = {} => c \in DOMAIN pools /\ <<round, c>> \in DOMAIN orbiterPerRound

StorageInv == TypeOK /\ LookupsOK(override) /\ Backed /\ RowsKept /\ Serves /\ Locked

Replaced ==
    \A c \in Permanent :
        <<round, c>> \in DOMAIN orbiterPerRound => c \in DOMAIN override /\ override[c] = {}

Credited ==
    /\ \A k \in Shifts : k[1] > round => authored[k] = {}
    /\ \A k \in Shifts : k[1] >= PaidFor =>
        /\ k \in DOMAIN orbiterPerRound => authored[k] \subseteq {orbiterPerRound[k]}
        /\ k \notin DOMAIN orbiterPerRound /\ k \notin DOMAIN payee => authored[k] \subseteq {k[2]}
    /\ \A k \in DOMAIN payee : k[1] = PaidFor

WorkInv == Replaced /\ Credited /\ PaidForOwnBlocks

-----------------------------------------------------------------------------
(* What a rotation leaves                                                  *)

\* what on_rotate leaves, by induction on the pools it has dealt with
LEMMA RotationDoes ==
    ASSUME NEW r \in Nat, DOMAIN pools \subseteq Collators,
           \A c \in DOMAIN pools : PoolOK(pools[c]), LoopInv(Storage, 0, r)
    PROVE  LoopInv(OnRotate(r), Len(PoolOrder), r)
<1> DEFINE N == Len(PoolOrder)
           Good(n) == LoopInv(Rotated(r)[n], n, r)
           S == {n \in Nat : n <= N => Good(n)}
<1>1. N \in Nat
  BY PoolsAssumption
<1>2. 0 \in S
  <2>1. Rotated(r)[0] = Storage
    BY <1>1, RotatedSteps
  <2>2. Good(0)
    BY <2>1
  <2> HIDE DEF Good
  <2> QED BY <2>2
<1>3. ASSUME NEW n \in Nat, n \in S  PROVE n + 1 \in S
  <2>1. CASE n + 1 <= N
    <3>1. n <= N /\ n + 1 \in 1 .. N /\ n + 1 \in 0 .. N /\ (n + 1) - 1 = n /\ n + 1 # 0
      BY <1>1, <2>1
    <3>2. Good(n)
      <4> HIDE DEF Good
      <4> QED BY <1>3, <3>1
    <3>3. Rotated(r)[n + 1] = RotatePool(r, Rotated(r)[n], PoolOrder[n + 1])
      BY <3>1, RotatedSteps
    <3> DEFINE m == n + 1
    <3>4. m \in 1 .. N /\ m - 1 = n
      BY <3>1
    <3>5. LoopInv(Rotated(r)[n], m - 1, r)
      BY <3>2, <3>4
    <3> HIDE DEF m
    <3>6. LoopInv(RotatePool(r, Rotated(r)[n], PoolOrder[m]), m, r)
      BY <3>4, <3>5, LoopStep
    <3>7. Good(n + 1)
      BY <3>3, <3>6 DEF m
    <3> HIDE DEF Good
    <3> QED BY <1>3, <3>7
  <2>2. CASE ~(n + 1 <= N)
    <3> HIDE DEF Good
    <3> QED BY <1>3, <2>2
  <2> QED BY <2>1, <2>2
<1>4. Nat \subseteq S
  <2> HIDE DEF S
  <2> QED BY <1>2, <1>3, Induction
<1>5. Good(N)
  <2> HIDE DEF Good
  <2> QED BY <1>1, <1>4
<1> QED BY <1>5 DEF OnRotate

\* what holds in the storage holds before the first step of the loop
LEMMA NothingRotatedYet ==
    ASSUME NEW r \in Nat, StorageInv
    PROVE  LoopInv(Storage, 0, r)
<1>1. Storage.pools = pools /\ Storage.override = override /\ Storage.orbiterPerRound = orbiterPerRound
  BY DEF Storage
<1> DEFINE st == Storage
<1> HIDE DEF st
<1>2. \A S : S \cap Visited(0) = {}
  BY AllVisited
<1>3. LoopPools(st, 0)
  BY <1>1, AllVisited DEF LoopPools, st
<1>4. LoopRows(st, 0, r)
  BY <1>1, <1>2 DEF LoopRows, st
<1>5. LookupsOK(st.override)
  BY <1>1 DEF StorageInv, st
<1>6. LoopServes(st, 0)
  BY <1>1, AllVisited DEF LoopServes, StorageInv, Serves, st
<1>7. LoopLocked(st, 0)
  BY <1>1, AllVisited DEF LoopLocked, StorageInv, Locked, st
<1>8. LoopReplaced(st, 0) /\ LoopSole(st, 0)
  BY <1>2 DEF LoopReplaced, LoopSole
<1> QED BY <1>3, <1>4, <1>5, <1>6, <1>7, <1>8 DEF LoopInv, st

NewRows == Period(round + 1) \X Appointing

\* a rotation, as a step
LEMMA RotationStep ==
    ASSUME StorageInv, NewRound, IsRotation(round + 1)
    PROVE  /\ DOMAIN pools' = DOMAIN pools
           /\ \A c \in DOMAIN pools : pools'[c] = RotateOrbiter(pools[c])
           /\ LookupsOK(override')
           /\ \A k : k \in DOMAIN orbiterPerRound' <=>
                /\ k[1] # (round + 1) - MaxRoundArchive
                /\ k \in NewRows \/ k \in DOMAIN orbiterPerRound
           /\ \A k \in DOMAIN orbiterPerRound' : orbiterPerRound'[k] =
                IF k \in NewRows THEN NextOrbiter(pools[k[2]])
                ELSE orbiterPerRound[k]
           /\ \A a \in Orbiters \cap DOMAIN override' : \A c \in override'[a] \cap Permanent :
                c \in Appointing /\ a = NextOrbiter(pools[c])
           /\ \A c \in Collators \cap DOMAIN override' : override'[c] = {} => c \in Appointing
           /\ Apart =>
                /\ \A c \in Appointing : c \in DOMAIN override' /\ override'[c] = {}
                /\ \A o \in Orbiters : \A c \in Appointing :
                     FoundBy(o) = {c} /\ NextOrbiter(pools[c]) = o =>
                         o \in DOMAIN override' /\ override'[o] = {c}
<1> DEFINE r == round + 1
           st == OnRotate(r)
<1>1. r \in Nat /\ round' = r /\ DOMAIN pools \subseteq Collators
      /\ \A c \in DOMAIN pools : PoolOK(pools[c])
  BY PeriodsAssumption DEF StorageInv, TypeOK, NewRound
<1>2. /\ pools' = st.pools /\ override' = st.override
      /\ orbiterPerRound' = Archived(r, st.orbiterPerRound)
  BY <1>1 DEF NewRound, OnNewRound
<1>3. LoopInv(st, Len(PoolOrder), r)
  <2> HIDE DEF r
  <2> QED BY <1>1, NothingRotatedYet, RotationDoes
<1> HIDE DEF st
<1>4. Visited(Len(PoolOrder)) = Collators /\ Appointing \subseteq Collators
      /\ Appointing \subseteq DOMAIN pools
  BY <1>1, AllVisited DEF Appointing
<1>5. Appointing \cap Visited(Len(PoolOrder)) = Appointing
  BY <1>4
<1>6. DOMAIN pools' = DOMAIN pools /\ \A c \in DOMAIN pools : pools'[c] = RotateOrbiter(pools[c])
  BY <1>1, <1>2, <1>3, <1>4 DEF LoopInv, LoopPools
<1>7. LookupsOK(override')
  BY <1>2, <1>3 DEF LoopInv
<1>8. /\ DOMAIN st.orbiterPerRound = NewRows \cup DOMAIN orbiterPerRound
      /\ \A k \in DOMAIN st.orbiterPerRound : st.orbiterPerRound[k] =
            IF k \in NewRows THEN NextOrbiter(pools[k[2]]) ELSE orbiterPerRound[k]
  BY <1>3, <1>5 DEF LoopInv, LoopRows, NewRows
<1>9. /\ \A k : k \in DOMAIN orbiterPerRound' <=>
            /\ k[1] # (round + 1) - MaxRoundArchive
            /\ k \in NewRows \/ k \in DOMAIN orbiterPerRound
      /\ \A k \in DOMAIN orbiterPerRound' : orbiterPerRound'[k] =
            IF k \in NewRows THEN NextOrbiter(pools[k[2]]) ELSE orbiterPerRound[k]
  <2> DEFINE after == st.orbiterPerRound
             gone == {s \in DOMAIN after : s[1] = (round + 1) - MaxRoundArchive}
  <2>1. orbiterPerRound' = [k \in DOMAIN after \ gone |-> after[k]]
    <3>1. orbiterPerRound' = Archived(round + 1, after)
      BY <1>2, Zenon
    <3> HIDE DEF after
    <3>2. Archived(round + 1, after) = Without(after, gone)
      BY DEF Archived
    <3> HIDE DEF gone
    <3> QED BY <3>1, <3>2, Zenon DEF Without
  <2>2. \A k : k \in gone <=> k \in DOMAIN after /\ k[1] = (round + 1) - MaxRoundArchive
    OBVIOUS
  <2> HIDE DEF gone
  <2>3. \A k : k \in DOMAIN after <=> k \in NewRows \/ k \in DOMAIN orbiterPerRound
    BY <1>8, Zenon
  <2>4. \A k \in DOMAIN after : after[k] =
            IF k \in NewRows THEN NextOrbiter(pools[k[2]]) ELSE orbiterPerRound[k]
    BY <1>8, Zenon
  <2> HIDE DEF after
  <2> QED BY <2>1, <2>2, <2>3, <2>4
<1>10. \A a \in Orbiters \cap DOMAIN override' : \A c \in override'[a] \cap Permanent :
            c \in Appointing /\ a = NextOrbiter(pools[c])
  <2>1. LoopServes(st, Len(PoolOrder)) /\ override' = st.override
    BY <1>2, <1>3 DEF LoopInv
  <2>2. \A c \in Permanent : c \in Visited(Len(PoolOrder))
    BY <1>4 DEF Permanent
  <2> QED BY <2>1, <2>2 DEF LoopServes
<1>11. \A c \in Collators \cap DOMAIN override' : override'[c] = {} => c \in Appointing
  BY <1>2, <1>3, <1>4 DEF LoopInv, LoopLocked
<1>12. Apart => \A c \in Appointing : c \in DOMAIN override' /\ override'[c] = {}
  BY <1>2, <1>3, <1>5 DEF LoopInv, LoopReplaced
<1>13. Apart => \A o \in Orbiters : \A c \in Appointing :
                    FoundBy(o) = {c} /\ NextOrbiter(pools[c]) = o =>
                        o \in DOMAIN override' /\ override'[o] = {c}
  BY <1>2, <1>3, <1>5 DEF LoopInv, LoopSole
<1> QED BY <1>6, <1>7, <1>9, <1>10, <1>11, <1>12, <1>13

-----------------------------------------------------------------------------
(* The calls keep the storage consistent                                   *)

\* a call that concerns the orbiters of one pool
LEMMA PoolStep ==
    ASSUME StorageInv, NEW c \in DOMAIN pools, NEW pool, PoolOK(pool),
           OldOrbiter(pool) = OldOrbiter(pools[c]), ToSet(pool.orbiters) \subseteq registered,
           pools' = [pools EXCEPT ![c] = pool],
           UNCHANGED <<round, registered, override, orbiterPerRound, authored, payee>>
    PROVE  StorageInv'
<1>1. /\ DOMAIN pools' = DOMAIN pools /\ pools'[c] = pool
      /\ \A d \in DOMAIN pools : d # c => pools'[d] = pools[d]
      /\ \A d \in DOMAIN pools : OldOrbiter(pools'[d]) = OldOrbiter(pools[d])
  OBVIOUS
<1>2. TypeOK'
  BY <1>1 DEF StorageInv, TypeOK
<1>3. LookupsOK(override)' /\ RowsKept'
  BY DEF StorageInv, LookupsOK, RowsKept
<1>4. Backed'
  BY <1>1 DEF StorageInv, Backed
<1>5. Serves' /\ Locked'
  BY <1>1 DEF StorageInv, Serves, Locked
<1> QED BY <1>2, <1>3, <1>4, <1>5 DEF StorageInv

\* collator_add_orbiter: the newcomer has a deposit
LEMMA CollatorAddOrbiterStep ==
    ASSUME StorageInv, NEW c \in Collators, NEW o \in Orbiters, CollatorAddOrbiter(c, o)
    PROVE  StorageInv'
<1> DEFINE pool == AddOrbiter(pools[c], o)
<1>1. /\ c \in DOMAIN pools /\ PoolOK(pools[c]) /\ o \in registered
      /\ ~Lists(pools[c], o) /\ Len(pools[c].orbiters) < MaxPoolSize
      /\ ToSet(pools[c].orbiters) \subseteq registered
  BY DEF CollatorAddOrbiter, JoinsPool, StorageInv, TypeOK, Backed
<1>2. /\ PoolOK(pool) /\ pool.current = pools[c].current
      /\ ToSet(pool.orbiters) = ToSet(pools[c].orbiters) \cup {o}
  BY <1>1, AddOrbiterOK
<1>3. /\ pools' = [pools EXCEPT ![c] = pool]
      /\ UNCHANGED <<round, registered, override, orbiterPerRound, authored, payee>>
  BY DEF CollatorAddOrbiter
<1> HIDE DEF pool
<1>4. OldOrbiter(pool) = OldOrbiter(pools[c])
  BY <1>2 DEF OldOrbiter
<1> QED BY <1>1, <1>2, <1>3, <1>4, PoolStep

\* collator_remove_orbiter and orbiter_leave_collator_pool
LEMMA RemoveOrbiterFromPoolStep ==
    ASSUME StorageInv, NEW c \in Collators, NEW o \in Orbiters, RemoveOrbiterFromPool(c, o)
    PROVE  StorageInv'
<1> DEFINE pool == RemoveOrbiter(pools[c], o)
<1>1. /\ c \in DOMAIN pools /\ PoolOK(pools[c]) /\ Lists(pools[c], o)
      /\ ToSet(pools[c].orbiters) \subseteq registered
  BY DEF RemoveOrbiterFromPool, StorageInv, TypeOK, Backed
<1>2. /\ PoolOK(pool) /\ OldOrbiter(pool) = OldOrbiter(pools[c])
      /\ ToSet(pool.orbiters) = ToSet(pools[c].orbiters) \ {o}
  BY <1>1, RemoveOrbiterOK
<1>3. /\ pools' = [pools EXCEPT ![c] = pool]
      /\ UNCHANGED <<round, registered, override, orbiterPerRound, authored, payee>>
  BY DEF RemoveOrbiterFromPool
<1> HIDE DEF pool
<1> QED BY <1>1, <1>2, <1>3, PoolStep

\* orbiter_register and orbiter_unregister: nobody in a pool unregisters
LEMMA RegistrationStep ==
    ASSUME StorageInv, NEW o \in Orbiters, OrbiterRegister(o) \/ OrbiterUnregister(o)
    PROVE  StorageInv'
<1>1. UNCHANGED <<round, pools, override, orbiterPerRound, authored, payee>>
  BY DEF OrbiterRegister, OrbiterUnregister
<1>2. registered' \subseteq Orbiters
  BY DEF OrbiterRegister, OrbiterUnregister, StorageInv, TypeOK
<1>3. TypeOK' /\ LookupsOK(override)' /\ RowsKept' /\ Serves' /\ Locked'
  BY <1>1, <1>2 DEF StorageInv, TypeOK, LookupsOK, RowsKept, Serves, Locked
<1>4. ASSUME NEW c \in DOMAIN pools
      PROVE  ToSet(pools[c].orbiters) \cup OldOrbiter(pools[c]) \subseteq registered'
  <2>1. ToSet(pools[c].orbiters) \cup OldOrbiter(pools[c]) \subseteq registered
    BY DEF StorageInv, Backed
  <2>2. CASE OrbiterRegister(o)
    BY <2>1, <2>2 DEF OrbiterRegister
  <2>3. CASE OrbiterUnregister(o)
    <3>1. ~ContainsOrbiter(pools[c], o)
      BY <2>3 DEF OrbiterUnregister, InNoPool
    <3>2. o \notin ToSet(pools[c].orbiters) \cup OldOrbiter(pools[c])
      BY <3>1 DEF ContainsOrbiter, Lists, OldOrbiter
    <3> QED BY <2>1, <2>3, <3>2 DEF OrbiterUnregister
  <2> QED BY <2>2, <2>3
<1> QED BY <1>1, <1>3, <1>4 DEF StorageInv, Backed

LEMMA EmptyPoolOK ==
    PoolOK(EmptyPool) /\ ToSet(EmptyPool.orbiters) = {} /\ OldOrbiter(EmptyPool) = {}
<1>1. <<>> \in Seq(Orbiters) /\ Len(<<>>) = 0 /\ DOMAIN <<>> = {}
  OBVIOUS
<1>2. EmptyPool.orbiters = <<>> /\ EmptyPool.current = {} /\ EmptyPool.next = 0
  BY DEF EmptyPool, NobodyCurrent
<1>3. MaxPoolSize \in Nat
  BY PeriodsAssumption
<1>4. EmptyPool \in [orbiters : Seq(Orbiters), next : 0..MaxPoolSize,
                     current : SUBSET [account : Orbiters, removed : BOOLEAN]]
  BY <1>1, <1>3 DEF EmptyPool, NobodyCurrent
<1>5. IsInjective(<<>>) /\ ToSet(<<>>) = {}
  BY <1>1 DEF IsInjective, ToSet
<1> QED BY <1>1, <1>2, <1>3, <1>4, <1>5 DEF PoolOK, OldOrbiter

\* add_collator
LEMMA AddCollatorStep ==
    ASSUME StorageInv, NEW c \in Collators, AddCollator(c)
    PROVE  StorageInv'
<1>1. UNCHANGED <<round, registered, override, orbiterPerRound, authored, payee>>
  BY DEF AddCollator
<1>2. /\ DOMAIN pools' = DOMAIN pools \cup {c} /\ pools'[c] = EmptyPool
      /\ \A d \in DOMAIN pools : d # c /\ pools'[d] = pools[d]
  BY DEF AddCollator, Over
<1>3. TypeOK'
  BY <1>1, <1>2, EmptyPoolOK DEF StorageInv, TypeOK
<1>4. LookupsOK(override)' /\ RowsKept'
  BY <1>1 DEF StorageInv, LookupsOK, RowsKept
<1>5. Backed'
  BY <1>1, <1>2, EmptyPoolOK DEF StorageInv, Backed
<1>6. Serves' /\ Locked'
  BY <1>1, <1>2 DEF StorageInv, Serves, Locked
<1> QED BY <1>3, <1>4, <1>5, <1>6 DEF StorageInv

\* remove_collator takes the overrides of the pool with it
LEMMA RemoveCollatorStep ==
    ASSUME StorageInv, NEW c \in Collators, RemoveCollator(c)
    PROVE  StorageInv'
<1>1. UNCHANGED <<round, registered, orbiterPerRound, authored, payee>> /\ c \notin Permanent
  BY DEF RemoveCollator, Permanent
<1>2. /\ DOMAIN pools' = DOMAIN pools \ {c}
      /\ \A d \in DOMAIN pools \ {c} : pools'[d] = pools[d]
  BY DEF RemoveCollator, Without
<1>3. /\ DOMAIN override' \subseteq DOMAIN override /\ c \notin DOMAIN override'
      /\ \A a \in DOMAIN override' : override'[a] = override[a]
  BY DEF RemoveCollator, Without, LookupsOfPool
<1>4. TypeOK'
  BY <1>1, <1>2, <1>3 DEF StorageInv, TypeOK
<1>5. LookupsOK(override)' /\ RowsKept'
  BY <1>1, <1>3 DEF StorageInv, LookupsOK, RowsKept
<1>6. Backed'
  BY <1>1, <1>2 DEF StorageInv, Backed
<1>7. Serves'
  BY <1>1, <1>2, <1>3 DEF StorageInv, Serves
<1>8. Locked'
  BY <1>1, <1>2, <1>3 DEF StorageInv, Locked
<1> QED BY <1>4, <1>5, <1>6, <1>7, <1>8 DEF StorageInv

LEMMA AuthorStep ==
    ASSUME StorageInv, NEW c \in Collators, NEW a \in Accounts, Author(a, c)
    PROVE  StorageInv'
<1>1. UNCHANGED <<round, registered, pools, override, orbiterPerRound, payee>>
  BY DEF Author
<1>2. authored' \in [Shifts -> SUBSET Accounts]
  BY DEF Author, StorageInv, TypeOK
<1>3. TypeOK'
  BY <1>1, <1>2 DEF StorageInv, TypeOK
<1> QED BY <1>1, <1>3 DEF StorageInv, LookupsOK, Backed, RowsKept, Serves, Locked

\* a payment takes a row of a round that is over
LEMMA PayCollatorStep ==
    ASSUME StorageInv, NEW c \in Collators, PayCollator(c)
    PROVE  StorageInv'
<1> DEFINE s == <<PaidFor, c>>
<1>1. UNCHANGED <<round, registered, pools, override, authored>> /\ s \in Shifts
  BY DEF PayCollator
<1>2. /\ DOMAIN payee' = {s} \cup DOMAIN payee
      /\ DOMAIN orbiterPerRound' = DOMAIN orbiterPerRound \ {s}
      /\ \A k \in DOMAIN orbiterPerRound' : orbiterPerRound'[k] = orbiterPerRound[k]
  BY DEF PayCollator, Over, Without
<1>3. round \in Nat /\ PaidFor < round
  BY PeriodsAssumption DEF StorageInv, TypeOK, PaidFor
<1>4. \A t \in Until(round) : \A d : <<t, d>> # s
  BY <1>3 DEF Until
<1>5. round \in Until(round)
  BY <1>3, UntilNext
<1> HIDE DEF s
<1>6. TypeOK'
  BY <1>1, <1>2 DEF StorageInv, TypeOK
<1>7. LookupsOK(override)' /\ Backed'
  BY <1>1 DEF StorageInv, LookupsOK, Backed
<1>8. RowsKept'
  BY <1>1, <1>2, <1>4, <1>5 DEF StorageInv, RowsKept
<1>9. Serves' /\ Locked'
  BY <1>1, <1>2, <1>4, <1>5 DEF StorageInv, Serves, Locked
<1> QED BY <1>6, <1>7, <1>8, <1>9 DEF StorageInv

-----------------------------------------------------------------------------
(* So do the rounds                                                        *)

\* the parts of a new round that a rotation has no say in
LEMMA RecentTyped ==
    ASSUME TypeOK, NewRound
    PROVE  /\ round \in Nat /\ round' = round + 1 /\ round' \in 1 .. MaxRound
           /\ registered' = registered /\ DOMAIN payee' = {}
           /\ authored' \in [Shifts -> SUBSET Accounts]
           /\ \A k \in Shifts : authored'[k] =
                IF k[1] < round' - RewardPaymentDelay THEN {} ELSE authored[k]
<1>1. /\ round \in 1 .. MaxRound /\ MaxRound \in Nat /\ round' = round + 1 /\ round < MaxRound
      /\ authored \in [Shifts -> SUBSET Accounts]
  BY PeriodsAssumption DEF TypeOK, NewRound
<1>2. authored' = [s \in Shifts |-> IF s[1] < round' - RewardPaymentDelay THEN {} ELSE authored[s]]
  BY DEF NewRound, Recent
<1>3. registered' = registered /\ payee' = [s \in {} |-> 0]
  BY DEF NewRound
<1> QED BY <1>1, <1>2, <1>3

\* the rows of the rounds until the next rotation are those the rotation has written
LEMMA RotationRows ==
    ASSUME StorageInv, NewRound, IsRotation(round + 1)
    PROVE  /\ Until(round + 1) = Period(round + 1)
           /\ round + 1 \in Until(round + 1) /\ Until(round + 1) \subseteq Nat
           /\ \A s \in Until(round + 1) : \A c :
                /\ <<s, c>> \in DOMAIN orbiterPerRound' <=> c \in Appointing
                /\ c \in Appointing => orbiterPerRound'[<<s, c>>] = NextOrbiter(pools[c])
<1> DEFINE r == round + 1
<1>1. round \in Nat /\ r \in Nat
  BY RecentTyped DEF StorageInv
<1>3. /\ \A k : k \in DOMAIN orbiterPerRound' <=>
            /\ k[1] # (round + 1) - MaxRoundArchive
            /\ k \in NewRows \/ k \in DOMAIN orbiterPerRound
      /\ \A k \in DOMAIN orbiterPerRound' : orbiterPerRound'[k] =
            IF k \in NewRows THEN NextOrbiter(pools[k[2]]) ELSE orbiterPerRound[k]
  BY RotationStep
<1>7. Until(r) = Period(r) /\ r \in Until(r) /\ Until(r) \subseteq Nat
  <2> HIDE DEF r
  <2>1. r \in Until(r) /\ Until(r) \subseteq Nat
    BY <1>1, UntilNext
  <2>2. IsRotation(r)
    BY DEF r
  <2> QED BY <1>1, <2>1, <2>2, PeriodIsUntil
<1>8. \A s \in Until(r) : s # (round + 1) - MaxRoundArchive
  <2>1. \A s \in Until(r) : s >= r
    BY DEF Until
  <2> QED BY <1>1, <1>7, <2>1, PeriodsAssumption
<1>9. \A s \in Until(r) : \A c : <<s, c>> \notin DOMAIN orbiterPerRound
  <2>1. \A s \in Until(round) : s <= round
    BY <1>1, UntilNext
  <2>2. \A k \in DOMAIN orbiterPerRound : k[1] <= round
    BY <2>1 DEF StorageInv, RowsKept
  <2>3. \A s \in Until(r) : ~(s <= round)
    BY <1>1, <1>7 DEF Until
  <2> QED BY <2>2, <2>3
<1>10. \A s \in Until(r) : \A c : <<s, c>> \in NewRows <=> c \in Appointing
  BY <1>7 DEF NewRows
<1>11. \A s \in Until(r) : \A c :
           /\ <<s, c>> \in DOMAIN orbiterPerRound' <=> c \in Appointing
           /\ c \in Appointing => orbiterPerRound'[<<s, c>>] = NextOrbiter(pools[c])
  BY <1>3, <1>8, <1>9, <1>10
<1> QED BY <1>7, <1>11

\* a round that begins with a rotation
LEMMA RotatingStep ==
    ASSUME StorageInv, NewRound, IsRotation(round + 1)
    PROVE  StorageInv'
<1> DEFINE r == round + 1
<1>1. /\ round \in Nat /\ round' = r /\ round' \in 1 .. MaxRound
      /\ registered' = registered /\ DOMAIN payee' = {}
      /\ authored' \in [Shifts -> SUBSET Accounts] /\ r \in Nat
  BY RecentTyped DEF StorageInv
<1>2. DOMAIN pools' = DOMAIN pools /\ \A c \in DOMAIN pools : pools'[c] = RotateOrbiter(pools[c])
  BY RotationStep
<1>3. /\ \A k : k \in DOMAIN orbiterPerRound' <=>
            /\ k[1] # (round + 1) - MaxRoundArchive
            /\ k \in NewRows \/ k \in DOMAIN orbiterPerRound
      /\ \A k \in DOMAIN orbiterPerRound' : orbiterPerRound'[k] =
            IF k \in NewRows THEN NextOrbiter(pools[k[2]]) ELSE orbiterPerRound[k]
  BY RotationStep
<1>4. LookupsOK(override')
  BY RotationStep
<1>5. /\ \A a \in Orbiters \cap DOMAIN override' : \A c \in override'[a] \cap Permanent :
            c \in Appointing /\ a = NextOrbiter(pools[c])
      /\ \A c \in Collators \cap DOMAIN override' : override'[c] = {} => c \in Appointing
  BY RotationStep
<1>6. ASSUME NEW c \in DOMAIN pools
      PROVE  /\ PoolOK(pools'[c]) /\ pools'[c].orbiters = pools[c].orbiters
             /\ OldOrbiter(pools'[c]) \subseteq registered
             /\ c \in Appointing => OldOrbiter(pools'[c]) = {NextOrbiter(pools[c])}
  <2>1. PoolOK(pools[c]) /\ ToSet(pools[c].orbiters) \cup OldOrbiter(pools[c]) \subseteq registered
    BY DEF StorageInv, TypeOK, Backed
  <2>2. pools'[c] = RotateOrbiter(pools[c])
    BY <1>2
  <2>3. CASE pools[c].orbiters = <<>>
    BY <2>1, <2>2, <2>3, RotateOrbiterOK DEF OldOrbiter, Appointing
  <2>4. CASE pools[c].orbiters # <<>>
    BY <2>1, <2>2, <2>4, RotateOrbiterOK DEF Appointing
  <2> QED BY <2>3, <2>4
<1>7. Until(r) = Period(r) /\ r \in Until(r) /\ Until(r) \subseteq Nat
  BY RotationRows
<1>11. \A s \in Until(r) : \A c :
           /\ <<s, c>> \in DOMAIN orbiterPerRound' <=> c \in Appointing
           /\ c \in Appointing => orbiterPerRound'[<<s, c>>] = NextOrbiter(pools[c])
  BY RotationRows
<1>12. Appointing \subseteq DOMAIN pools /\ DOMAIN pools \subseteq Collators
  BY DEF Appointing, StorageInv, TypeOK
<1>13. TypeOK'
  <2>1. NewRows \subseteq Nat \X Collators
    BY <1>7, <1>12 DEF NewRows
  <2>2. DOMAIN orbiterPerRound' \subseteq Nat \X Collators
    BY <1>3, <2>1 DEF StorageInv, TypeOK
  <2>3. registered' \subseteq Orbiters
    BY <1>1 DEF StorageInv, TypeOK
  <2> QED BY <1>1, <1>2, <1>4, <1>6, <1>12, <2>2, <2>3 DEF TypeOK, LookupsOK
<1>14. Backed'
  BY <1>1, <1>2, <1>6 DEF Backed, StorageInv
<1>15. RowsKept'
  <2>1. ASSUME NEW k \in DOMAIN orbiterPerRound'  PROVE k[1] <= r \/ k[1] \in Until(r)
    <3>1. CASE k \in NewRows
      BY <1>7, <3>1 DEF NewRows
    <3>2. CASE k \notin NewRows
      <4>1. k \in DOMAIN orbiterPerRound /\ k \in Nat \X Collators
        BY <1>3, <3>2 DEF StorageInv, TypeOK
      <4>2. k[1] <= round
        BY <1>1, <4>1, UntilNext DEF StorageInv, RowsKept
      <4> QED BY <1>1, <4>1, <4>2
    <3> QED BY <3>1, <3>2
  <2> HIDE DEF r
  <2> QED BY <1>1, <1>7, <1>11, <2>1 DEF RowsKept
<1>16. Serves'
  <2> HIDE DEF r
  <2> QED BY <1>1, <1>2, <1>5, <1>6, <1>7, <1>11, <1>12 DEF Serves
<1>17. Locked'
  <2> HIDE DEF r
  <2> QED BY <1>1, <1>2, <1>5, <1>7, <1>11, <1>12 DEF Locked
<1> QED BY <1>4, <1>13, <1>14, <1>15, <1>16, <1>17 DEF StorageInv

\* a round that begins without a rotation only loses the row that leaves the archive
LEMMA QuietRoundDoes ==
    ASSUME StorageInv, NewRound, ~IsRotation(round + 1)
    PROVE  /\ pools' = pools /\ override' = override
           /\ \A k : k \in DOMAIN orbiterPerRound' <=>
                k[1] # (round + 1) - MaxRoundArchive /\ k \in DOMAIN orbiterPerRound
           /\ \A k \in DOMAIN orbiterPerRound' : orbiterPerRound'[k] = orbiterPerRound[k]
           /\ Until(round + 1) = Until(round) \ {round}
           /\ round + 1 \in Until(round + 1)
           /\ \A s \in Until(round + 1) : \A c :
                <<s, c>> \in DOMAIN orbiterPerRound' <=> <<s, c>> \in DOMAIN orbiterPerRound
<1> DEFINE r == round + 1
           gone == {s \in DOMAIN orbiterPerRound : s[1] = r - MaxRoundArchive}
<1>1. round \in Nat /\ round' = r /\ r \in Nat
  BY RecentTyped DEF StorageInv
<1>2. /\ pools' = pools /\ override' = override
      /\ orbiterPerRound' = Without(orbiterPerRound, gone)
  BY <1>1 DEF NewRound, OnNewRound, Storage, Archived
<1>3. \A k : k \in gone <=> k \in DOMAIN orbiterPerRound /\ k[1] = r - MaxRoundArchive
  OBVIOUS
<1> HIDE DEF gone
<1>4. /\ \A k : k \in DOMAIN orbiterPerRound' <=>
            k[1] # r - MaxRoundArchive /\ k \in DOMAIN orbiterPerRound
      /\ \A k \in DOMAIN orbiterPerRound' : orbiterPerRound'[k] = orbiterPerRound[k]
  <2> HIDE DEF r
  <2> QED BY <1>2, <1>3 DEF Without
<1>5. Until(r) = Until(round) \ {round} /\ r \in Until(r)
  <2>1. Until(r) = Until(round) \ {round}
    BY <1>1, UntilNext
  <2> HIDE DEF r
  <2> QED BY <1>1, <2>1, UntilNext
<1>6. \A s \in Until(r) : s # r - MaxRoundArchive
  <2>1. \A s \in Until(r) : s \in Nat /\ s >= r
    BY DEF Until
  <2> QED BY <1>1, <2>1, PeriodsAssumption
<1>7. \A s \in Until(r) : \A c :
           <<s, c>> \in DOMAIN orbiterPerRound' <=> <<s, c>> \in DOMAIN orbiterPerRound
  BY <1>4, <1>6
<1> QED BY <1>2, <1>4, <1>5, <1>7

LEMMA QuietStep ==
    ASSUME StorageInv, NewRound, ~IsRotation(round + 1)
    PROVE  StorageInv'
<1> DEFINE r == round + 1
<1>1. /\ round \in Nat /\ round' = r /\ round' \in 1 .. MaxRound
      /\ registered' = registered /\ DOMAIN payee' = {}
      /\ authored' \in [Shifts -> SUBSET Accounts] /\ r \in Nat
  BY RecentTyped DEF StorageInv
<1>2. /\ pools' = pools /\ override' = override
      /\ \A k \in DOMAIN orbiterPerRound' :
            k \in DOMAIN orbiterPerRound /\ orbiterPerRound'[k] = orbiterPerRound[k]
      /\ Until(r) = Until(round) \ {round} /\ r \in Until(r)
      /\ \A s \in Until(r) : \A c :
            <<s, c>> \in DOMAIN orbiterPerRound' <=> <<s, c>> \in DOMAIN orbiterPerRound
  BY QuietRoundDoes
<1>3. TypeOK'
  BY <1>1, <1>2 DEF StorageInv, TypeOK
<1>4. Backed'
  BY <1>1, <1>2 DEF StorageInv, Backed
<1>5. \A s \in Until(r) : \A c \in Collators :
          /\ <<s, c>> \in DOMAIN orbiterPerRound' <=> <<round, c>> \in DOMAIN orbiterPerRound
          /\ <<round, c>> \in DOMAIN orbiterPerRound =>
                orbiterPerRound'[<<s, c>>] = orbiterPerRound[<<round, c>>]
  BY <1>2 DEF StorageInv, RowsKept
<1>6. RowsKept'
  <2>1. ASSUME NEW k \in DOMAIN orbiterPerRound'  PROVE k[1] <= r \/ k[1] \in Until(r)
    <3>1. k \in DOMAIN orbiterPerRound /\ k \in Nat \X Collators
      BY <1>2 DEF StorageInv, TypeOK
    <3>2. k[1] <= round \/ k[1] \in Until(round)
      BY <3>1 DEF StorageInv, RowsKept
    <3>3. k[1] <= round => k[1] <= r
      BY <1>1, <3>1
    <3> QED BY <1>1, <1>2, <3>2, <3>3
  <2> HIDE DEF r
  <2> QED BY <1>1, <1>2, <1>5, <2>1 DEF RowsKept
<1> HIDE DEF r
<1>7. Serves'
  BY <1>1, <1>2, <1>5 DEF StorageInv, Serves, Permanent
<1>8. Locked'
  BY <1>1, <1>2, <1>5 DEF StorageInv, Locked
<1>9. LookupsOK(override')
  BY <1>2 DEF StorageInv
<1> QED BY <1>3, <1>4, <1>6, <1>7, <1>8, <1>9, Zenon DEF StorageInv

LEMMA StorageInit ==
    Init => StorageInv
<1> SUFFICES ASSUME Init  PROVE StorageInv
  OBVIOUS
<1>1. DOMAIN pools = {} /\ DOMAIN override = {} /\ DOMAIN orbiterPerRound = {} /\ DOMAIN payee = {}
  BY DEF Init
<1>2. TypeOK
  BY <1>1, PeriodsAssumption DEF Init, TypeOK
<1> QED BY <1>1, <1>2 DEF StorageInv, LookupsOK, Backed, RowsKept, Serves, Locked

LEMMA StorageStep ==
    StorageInv /\ [Next]_vars => StorageInv'
<1> SUFFICES ASSUME StorageInv, [Next]_vars  PROVE StorageInv'
  OBVIOUS
<1>1. CASE NewRound
  BY <1>1, RotatingStep, QuietStep
<1>2. CASE \E o \in Orbiters : OrbiterRegister(o) \/ OrbiterUnregister(o)
  BY <1>2, RegistrationStep
<1>3. CASE \E c \in Collators : AddCollator(c)
  BY <1>3, AddCollatorStep
<1>4. CASE \E c \in Collators : RemoveCollator(c)
  BY <1>4, RemoveCollatorStep
<1>5. CASE \E c \in Collators : PayCollator(c)
  BY <1>5, PayCollatorStep
<1>6. CASE \E c \in Collators, a \in Accounts : Author(a, c)
  BY <1>6, AuthorStep
<1>7. CASE \E c \in Collators, o \in Orbiters : CollatorAddOrbiter(c, o)
  BY <1>7, CollatorAddOrbiterStep
<1>8. CASE \E c \in Collators, o \in Orbiters : RemoveOrbiterFromPool(c, o)
  BY <1>8, RemoveOrbiterFromPoolStep
<1>9. CASE UNCHANGED vars
  BY <1>9 DEF vars, StorageInv, TypeOK, LookupsOK, Backed, RowsKept, Serves, Locked
<1> QED BY <1>1, <1>2, <1>3, <1>4, <1>5, <1>6, <1>7, <1>8, <1>9 DEF Next

\* The storage items of the pallet stay consistent with each other through every call,
\* rotation, block and payment (lib.rs).
THEOREM StorageInvariant == Spec => []StorageInv
BY StorageInit, StorageStep, PTL DEF Spec

\* Storage is well formed and backed by deposits: no orbiter of a pool, listed or in the
\* collator's place, can take its deposit back (orbiter_unregister).
THEOREM StorageIsSound == Spec => []StorageSound
<1>1. StorageInv => StorageSound
  BY DEF StorageInv, StorageSound, DepositHeld, Backed, Serves
<1> QED BY <1>1, StorageInvariant, PTL

\* on_rotate and remove_collator never leave a collator unable to author with nobody
\* paid in its place.
THEOREM LockedOutIsStoodIn == Spec => []LockedOutHasStandIn
<1>1. StorageInv => LockedOutHasStandIn
  BY DEF StorageInv, LockedOutHasStandIn, Locked
<1> QED BY <1>1, StorageInvariant, PTL

\* Whoever authors for a collator that stays is the orbiter recorded for this round,
\* whatever pools share orbiters and in whatever order on_rotate visits them.
THEOREM WhoAuthorsIsPaid == Spec => []AuthorIsPaid
<1>1. StorageInv => AuthorIsPaid
  BY DEF StorageInv, AuthorIsPaid, Serves
<1> QED BY <1>1, StorageInvariant, PTL

-----------------------------------------------------------------------------
(* Reward and work                                                         *)

\* a new round: the rows that are still to be paid stay as they are
LEMMA WorkNewRound ==
    ASSUME Apart, StorageInv, WorkInv, NewRound
    PROVE  WorkInv'
<1> DEFINE r == round + 1
<1>1. /\ round \in Nat /\ round' = r /\ r \in Nat /\ DOMAIN payee' = {}
      /\ \A k \in Shifts : authored'[k] =
            IF k[1] < r - RewardPaymentDelay THEN {} ELSE authored[k]
  BY RecentTyped DEF StorageInv
<1>2. Replaced'
  <2>1. CASE IsRotation(round + 1)
    <3>1. /\ \A c \in Appointing : c \in DOMAIN override' /\ override'[c] = {}
          /\ \A c : <<r, c>> \in DOMAIN orbiterPerRound' <=> c \in Appointing
      BY <2>1, RotationStep, RotationRows
    <3> HIDE DEF r
    <3> QED BY <1>1, <3>1 DEF Replaced
  <2>2. CASE ~IsRotation(round + 1)
    <3>1. /\ override' = override /\ r \in Until(round)
          /\ \A c : <<r, c>> \in DOMAIN orbiterPerRound' <=> <<r, c>> \in DOMAIN orbiterPerRound
      BY <2>2, QuietRoundDoes
    <3> HIDE DEF r
    <3> QED BY <1>1, <3>1 DEF Replaced, WorkInv, StorageInv, RowsKept, Permanent
  <2> QED BY <2>1, <2>2
<1>3. ASSUME NEW k \in Shifts, k[1] >= r - RewardPaymentDelay, k[1] <= round
      PROVE  /\ k \in DOMAIN orbiterPerRound' <=> k \in DOMAIN orbiterPerRound
             /\ k \in DOMAIN orbiterPerRound' => orbiterPerRound'[k] = orbiterPerRound[k]
  <2>1. k[1] \in Nat /\ k[1] # r - MaxRoundArchive
    BY <1>1, <1>3, PeriodsAssumption DEF Shifts
  <2>2. k \notin NewRows
    BY <1>1, <1>3, <2>1, PeriodsAssumption DEF NewRows, Period
  <2>3. CASE IsRotation(round + 1)
    BY <2>1, <2>2, <2>3, RotationStep
  <2>4. CASE ~IsRotation(round + 1)
    BY <2>1, <2>4, QuietRoundDoes
  <2> QED BY <2>3, <2>4
<1>4. Credited'
  <2>1. ASSUME NEW k \in Shifts, k[1] > r  PROVE authored'[k] = {}
    BY <1>1, <2>1 DEF WorkInv, Credited, Shifts
  <2>2. ASSUME NEW k \in Shifts, k[1] >= r - RewardPaymentDelay
        PROVE  /\ k \in DOMAIN orbiterPerRound' => authored'[k] \subseteq {orbiterPerRound'[k]}
               /\ k \notin DOMAIN orbiterPerRound' => authored'[k] \subseteq {k[2]}
    <3>0. k[1] \in Nat /\ RewardPaymentDelay \in Nat
      BY PeriodsAssumption DEF Shifts
    <3>1. authored'[k] = authored[k]
      BY <1>1, <2>2, <3>0
    <3>2. CASE k[1] > round
      BY <3>1, <3>2 DEF WorkInv, Credited
    <3>3. CASE k[1] <= round
      <4>1. k[1] >= PaidFor /\ k[1] # PaidFor
        BY <1>1, <2>2, <3>0 DEF PaidFor
      <4>2. k \notin DOMAIN payee
        BY <4>1 DEF WorkInv, Credited
      <4> QED BY <1>3, <2>2, <3>1, <3>3, <4>1, <4>2 DEF WorkInv, Credited
    <3> QED BY <1>1, <3>0, <3>2, <3>3
  <2> HIDE DEF r
  <2> QED BY <1>1, <2>1, <2>2 DEF Credited, PaidFor
<1>5. PaidForOwnBlocks'
  BY <1>1 DEF PaidForOwnBlocks
<1> QED BY <1>2, <1>4, <1>5 DEF WorkInv

\* a block: its author is the one the row of this round names
LEMMA WorkAuthor ==
    ASSUME Apart, StorageInv, WorkInv, NEW c \in Collators, NEW a \in Accounts, Author(a, c)
    PROVE  WorkInv'
<1> DEFINE s == <<round, c>>
<1>1. UNCHANGED <<round, registered, pools, override, orbiterPerRound, payee>>
  BY DEF Author
<1>2. \A k \in Shifts : authored'[k] = IF k = s THEN authored[k] \cup {a} ELSE authored[k]
  BY DEF Author
<1>3. round \in 1 .. MaxRound /\ MaxRound \in Nat /\ PaidFor \in Int /\ PaidFor < round
  BY PeriodsAssumption DEF StorageInv, TypeOK, PaidFor
<1>4. ASSUME s \in Shifts
      PROVE  /\ s \in DOMAIN orbiterPerRound => a = orbiterPerRound[s]
             /\ s \notin DOMAIN orbiterPerRound => a = c
  <2>1. c \in Permanent
    BY <1>4 DEF Shifts
  <2>2. CASE a \in DOMAIN override
    <3>1. c \in override[a]
      BY <2>2 DEF Author, LookupAccount
    <3>2. a \in Orbiters
      BY <2>2, <3>1 DEF StorageInv, LookupsOK
    <3>3. s \in DOMAIN orbiterPerRound /\ orbiterPerRound[s] = a
      BY <2>1, <2>2, <3>1, <3>2 DEF StorageInv, Serves
    <3> QED BY <3>3
  <2>3. CASE a \notin DOMAIN override
    <3>1. a = c
      BY <2>3 DEF Author, LookupAccount
    <3>2. s \notin DOMAIN orbiterPerRound
      BY <2>1, <2>3, <3>1 DEF WorkInv, Replaced
    <3> QED BY <3>1, <3>2
  <2> QED BY <2>2, <2>3
<1>5. \A k \in DOMAIN payee : k \in Shifts /\ k # s
  BY <1>3 DEF WorkInv, Credited, StorageInv, TypeOK
<1>6. s[1] = round /\ s[2] = c /\ ~(round > round)
  BY <1>3
<1> HIDE DEF s
<1>7. Replaced'
  BY <1>1 DEF WorkInv, Replaced
<1>8. Credited'
  <2>1. ASSUME NEW k \in Shifts, k[1] > round  PROVE authored'[k] = {}
    BY <1>2, <1>6, <2>1 DEF WorkInv, Credited
  <2>2. ASSUME NEW k \in Shifts, k[1] >= PaidFor
        PROVE  /\ k \in DOMAIN orbiterPerRound => authored'[k] \subseteq {orbiterPerRound[k]}
               /\ k \notin DOMAIN orbiterPerRound /\ k \notin DOMAIN payee =>
                    authored'[k] \subseteq {k[2]}
    <3>1. /\ k \in DOMAIN orbiterPerRound => authored[k] \subseteq {orbiterPerRound[k]}
          /\ k \notin DOMAIN orbiterPerRound /\ k \notin DOMAIN payee =>
               authored[k] \subseteq {k[2]}
      BY <2>2 DEF WorkInv, Credited
    <3> QED BY <1>2, <1>4, <1>6, <3>1
  <2> QED BY <1>1, <2>1, <2>2 DEF WorkInv, Credited, PaidFor
<1>9. PaidForOwnBlocks'
  BY <1>1, <1>2, <1>5 DEF WorkInv, PaidForOwnBlocks
<1> QED BY <1>7, <1>8, <1>9 DEF WorkInv

\* a payment goes to whom the row names, or to the collator without one
LEMMA WorkPay ==
    ASSUME Apart, StorageInv, WorkInv, NEW c \in Collators, PayCollator(c)
    PROVE  WorkInv'
<1> DEFINE s == <<PaidFor, c>>
<1>1. /\ UNCHANGED <<round, registered, pools, override, authored>>
      /\ s \in Shifts /\ authored[s] # {} /\ s \notin DOMAIN payee
  BY DEF PayCollator
<1>2. /\ DOMAIN payee' = {s} \cup DOMAIN payee
      /\ payee'[s] = IF s \in DOMAIN orbiterPerRound THEN orbiterPerRound[s] ELSE c
      /\ \A k \in DOMAIN payee : k # s => payee'[k] = payee[k]
      /\ DOMAIN orbiterPerRound' = DOMAIN orbiterPerRound \ {s}
      /\ \A k \in DOMAIN orbiterPerRound' : orbiterPerRound'[k] = orbiterPerRound[k]
  BY DEF PayCollator, Over, Without
<1>3. round \in Nat /\ PaidFor \in Int /\ PaidFor < round
  BY PeriodsAssumption DEF StorageInv, TypeOK, PaidFor
<1>4. s[1] = PaidFor /\ s[2] = c /\ PaidFor' = PaidFor
  BY <1>1 DEF PaidFor
<1>5. authored[s] \subseteq {payee'[s]}
  BY <1>1, <1>2, <1>3, <1>4 DEF WorkInv, Credited
<1>6. \A d : <<round, d>> # s
  BY <1>3
<1> HIDE DEF s
<1>7. Replaced'
  BY <1>1, <1>2 DEF WorkInv, Replaced
<1>8. Credited'
  BY <1>1, <1>2, <1>4 DEF WorkInv, Credited
<1>9. PaidForOwnBlocks'
  BY <1>1, <1>2, <1>5 DEF WorkInv, PaidForOwnBlocks
<1> QED BY <1>7, <1>8, <1>9 DEF WorkInv

\* remove_collator does not touch the overrides of the other pools
LEMMA WorkRemoveCollator ==
    ASSUME Apart, StorageInv, WorkInv, NEW c \in Collators, RemoveCollator(c)
    PROVE  WorkInv'
<1>1. UNCHANGED <<round, registered, orbiterPerRound, authored, payee>> /\ c \notin Permanent
  BY DEF RemoveCollator, Permanent
<1>2. Replaced'
  <2> SUFFICES ASSUME NEW d \in Permanent, d \in DOMAIN override, override[d] = {}
               PROVE  d \in DOMAIN override' /\ override'[d] = {}
    BY <1>1 DEF Replaced, WorkInv
  <2>1. ToSet(pools[c].orbiters) \subseteq Orbiters /\ d \in Collators
    BY DEF RemoveCollator, StorageInv, Backed, TypeOK, Permanent
  <2>2. d \notin LookupsOfPool(c)
    BY <1>1, <2>1 DEF Apart, LookupsOfPool
  <2> QED BY <2>2 DEF RemoveCollator, Without
<1> QED BY <1>1, <1>2 DEF WorkInv, Credited, PaidFor, PaidForOwnBlocks

LEMMA WorkStep ==
    Apart /\ StorageInv /\ WorkInv /\ [Next]_vars => WorkInv'
<1> SUFFICES ASSUME Apart, StorageInv, WorkInv, [Next]_vars  PROVE WorkInv'
  OBVIOUS
<1>1. CASE NewRound
  BY <1>1, WorkNewRound
<1>2. CASE \E c \in Collators, a \in Accounts : Author(a, c)
  BY <1>2, WorkAuthor
<1>3. CASE \E c \in Collators : PayCollator(c)
  BY <1>3, WorkPay
<1>4. CASE \E c \in Collators : RemoveCollator(c)
  BY <1>4, WorkRemoveCollator
<1>5. ASSUME UNCHANGED <<round, override, orbiterPerRound, authored, payee>>  PROVE WorkInv'
  BY <1>5 DEF WorkInv, Replaced, Credited, PaidFor, PaidForOwnBlocks
<1>6. CASE \E o \in Orbiters : OrbiterRegister(o) \/ OrbiterUnregister(o)
  BY <1>5, <1>6 DEF OrbiterRegister, OrbiterUnregister
<1>7. CASE \E c \in Collators : AddCollator(c)
  BY <1>5, <1>7 DEF AddCollator
<1>8. CASE \E c \in Collators, o \in Orbiters : CollatorAddOrbiter(c, o) \/ RemoveOrbiterFromPool(c, o)
  BY <1>5, <1>8 DEF CollatorAddOrbiter, RemoveOrbiterFromPool
<1>9. CASE UNCHANGED vars
  BY <1>5, <1>9 DEF vars
<1> QED BY <1>1, <1>2, <1>3, <1>4, <1>6, <1>7, <1>8, <1>9 DEF Next

LEMMA WorkInit ==
    Init => WorkInv
BY DEF Init, WorkInv, Replaced, Credited, PaidForOwnBlocks, Shifts, PaidFor

\* Reward and work stay together: PayoutCollatorOrOrbiterReward pays the one account
\* that authored the blocks.  It needs that no account is collator and orbiter at once.
THEOREM WorkIsRewarded ==
    ASSUME Apart
    PROVE  Spec => []RewardFollowsWork
<1>1. StorageInv /\ WorkInv => RewardFollowsWork
  BY DEF StorageInv, WorkInv, RewardFollowsWork, AuthorIsPaid, Serves
<1>2. StorageInv /\ WorkInv /\ [Next]_vars => WorkInv'
  BY WorkStep
<1> QED BY <1>1, <1>2, StorageInvariant, WorkInit, PTL DEF Spec

\* An orbiter that one pool knows takes over from the collator that appoints it, in
\* whatever order on_rotate visits the pools.
THEOREM SoleOrbiterIsAppointed ==
    ASSUME Apart
    PROVE  Spec => SoleOrbiterTakesOver
<1> DEFINE Step == round' # round => \A c \in Collators, o \in Orbiters :
                       Appoints(c, o) /\ FoundBy(o) = {c} => TakesOver(o, c)
<1>1. StorageInv /\ [Next]_vars => [Step]_vars
  <2> SUFFICES ASSUME StorageInv, Next, round' # round,
                      NEW c \in Collators, NEW o \in Orbiters, Appoints(c, o), FoundBy(o) = {c}
               PROVE  TakesOver(o, c)
    BY DEF vars
  <2>1. NewRound
    BY DEF Next, OrbiterRegister, OrbiterUnregister, AddCollator, RemoveCollator, PayCollator,
           Author, CollatorAddOrbiter, RemoveOrbiterFromPool
  <2>2. IsRotation(round + 1) /\ c \in DOMAIN pools /\ pools[c].orbiters # <<>>
        /\ pools'[c].current = {[account |-> o, removed |-> FALSE]}
    BY <2>1 DEF Appoints, NewRound
  <2>3. pools'[c].current = {[account |-> NextOrbiter(pools[c]), removed |-> FALSE]}
    <3>1. pools'[c] = RotateOrbiter(pools[c])
      BY <2>1, <2>2, RotationStep
    <3>2. PoolOK(pools[c])
      BY <2>2 DEF StorageInv, TypeOK
    <3> QED BY <2>2, <3>1, <3>2, RotateOrbiterOK
  <2>4. NextOrbiter(pools[c]) = o /\ c \in Appointing
    <3>1. [account |-> o, removed |-> FALSE] = [account |-> NextOrbiter(pools[c]), removed |-> FALSE]
      BY <2>2, <2>3
    <3> QED BY <2>2, <3>1 DEF Appointing
  <2>5. /\ c \in DOMAIN override' /\ override'[c] = {}
        /\ o \in DOMAIN override' /\ override'[o] = {c}
    BY <2>1, <2>2, <2>4, RotationStep
  <2> QED BY <2>5 DEF TakesOver
<1> QED BY <1>1, StorageInvariant, PTL DEF Spec, SoleOrbiterTakesOver

-----------------------------------------------------------------------------
(* The order of turns                                                      *)

\* q is the list s, of L members, from its place n + 1 on and round to its place n
Rolled(q, s, L, n) ==
    /\ L \in Nat /\ n \in 0 .. L /\ (L # 0 => n < L) /\ (L = 0 => n = 0)
    /\ s \in Seq(Orbiters) /\ Len(s) = L
    /\ q \in Seq(Orbiters) /\ Len(q) = L
    /\ \A j \in 1 .. L : q[j] = IF j <= L - n THEN s[n + j] ELSE s[j - (L - n)]

\* the turn order is the list rolled by its next index
LEMMA TurnOrderIs ==
    ASSUME NEW pool, PoolOK(pool)
    PROVE  Rolled(TurnOrder(pool), pool.orbiters, Len(pool.orbiters), NextIndex(pool))
<1> DEFINE n == NextIndex(pool)
           L == Len(pool.orbiters)
<1>0. L \in Nat
  BY DEF PoolOK
<1> DEFINE s == pool.orbiters
           a == SubSeq(s, n + 1, L)
           b == SubSeq(s, 1, n)
<1>1. s \in Seq(Orbiters) /\ pool.next \in Nat
  BY PeriodsAssumption DEF PoolOK
<1>2. n \in 0 .. L /\ (L # 0 => n < L) /\ (L = 0 => n = 0)
  BY <1>0, <1>1 DEF NextIndex
<1> HIDE DEF n, L
<1>a. L = Len(s) /\ L \in Nat
  BY <1>0 DEF L
<1>3. TurnOrder(pool) = a \o b
  BY DEF TurnOrder, n, L
<1>4. a \in Seq(Orbiters) /\ Len(a) = L - n /\ \A j \in 1 .. L - n : a[j] = s[n + j]
  <2> DEFINE m == n + 1
  <2>2. m \in 1 .. Len(s) + 1 /\ L \in m - 1 .. Len(s)
    BY <1>2, <1>a
  <2>a. m = n + 1 /\ a = SubSeq(s, m, L)
    OBVIOUS
  <2> HIDE DEF s, m, a
  <2>3. /\ SubSeq(s, m, L) \in Seq(Orbiters) /\ Len(SubSeq(s, m, L)) = L - m + 1
        /\ \A j \in 1 .. L - m + 1 : SubSeq(s, m, L)[j] = s[m + j - 1]
    BY <1>1, <2>2, Part
  <2>b. n \in Nat /\ m = n + 1
    BY <1>2, <1>a, <2>a
  <2>4. L - m + 1 = L - n /\ \A j \in 1 .. L - n : m + j - 1 = n + j
    <3>1. L - m + 1 = L - n
      BY <1>a, <2>b
    <3>2. \A j \in 1 .. L - n : m + j - 1 = n + j
      BY <1>a, <2>b
    <3> QED BY <3>1, <3>2
  <2>5. a \in Seq(Orbiters) /\ Len(a) = L - n
    BY <2>a, <2>3, <2>4
  <2>6. ASSUME NEW j \in 1 .. L - n  PROVE a[j] = s[n + j]
    <3>1. j \in 1 .. L - m + 1
      BY <2>4
    <3>2. a[j] = s[m + j - 1]
      BY <2>a, <2>3, <3>1
    <3> QED BY <2>4, <3>2
  <2> QED BY <2>5, <2>6
<1>5. b \in Seq(Orbiters) /\ Len(b) = n /\ \A j \in 1 .. n : b[j] = s[j]
  <2>1. 1 \in 1 .. Len(s) + 1 /\ n \in 1 - 1 .. Len(s)
    BY <1>2, <1>a
  <2> HIDE DEF s
  <2>2. /\ SubSeq(s, 1, n) \in Seq(Orbiters) /\ Len(SubSeq(s, 1, n)) = n - 1 + 1
        /\ \A j \in 1 .. n - 1 + 1 : SubSeq(s, 1, n)[j] = s[1 + j - 1]
    BY <1>1, <2>1, Part
  <2> QED BY <1>2, <2>2
<1> HIDE DEF a, b
<1>6. /\ a \o b \in Seq(Orbiters) /\ Len(a \o b) = (L - n) + n
      /\ \A j \in 1 .. (L - n) + n :
            (a \o b)[j] = IF j <= L - n THEN a[j] ELSE b[j - (L - n)]
  <2>1. a \in Seq(Orbiters) /\ b \in Seq(Orbiters)
    BY <1>4, <1>5
  <2>2. /\ a \o b \in Seq(Orbiters) /\ Len(a \o b) = Len(a) + Len(b)
        /\ \A j \in 1 .. Len(a) + Len(b) :
              (a \o b)[j] = IF j <= Len(a) THEN a[j] ELSE b[j - Len(a)]
    BY <2>1, Joined
  <2>3. Len(a) = L - n /\ Len(b) = n
    BY <1>4, <1>5
  <2> DEFINE t == a \o b
  <2> HIDE DEF t
  <2> QED BY <2>2, <2>3 DEF t
<1>7. ASSUME NEW j \in 1 .. L
      PROVE  (a \o b)[j] = IF j <= L - n THEN s[n + j] ELSE s[j - (L - n)]
  <2> HIDE DEF s
  <2>1. CASE j <= L - n
    <3>1. j \in 1 .. L - n /\ j \in 1 .. (L - n) + n
      BY <1>2, <1>a, <2>1
    <3> QED BY <1>4, <1>6, <2>1, <3>1
  <2>2. CASE ~(j <= L - n)
    <3>1. j - (L - n) \in 1 .. n /\ j \in 1 .. (L - n) + n
      BY <1>2, <1>a, <2>2
    <3> QED BY <1>5, <1>6, <2>2, <3>1
  <2> QED BY <2>1, <2>2
<1>8. (L - n) + n = L
  BY <1>2, <1>a
<1> QED BY <1>1, <1>2, <1>3, <1>6, <1>7, <1>8, <1>a DEF Rolled, L, n

\* the first of a queue sent to its end
LEMMA Ended ==
    ASSUME NEW S, NEW q \in Seq(S), NEW L \in Nat \ {0}, L = Len(q)
    PROVE  /\ Turns!ToEnd(q) \in Seq(S) /\ Len(Turns!ToEnd(q)) = L
           /\ \A j \in 1 .. L : Turns!ToEnd(q)[j] = IF j < L THEN q[j + 1] ELSE q[1]
<1>1. q # <<>>
  OBVIOUS
<1>2. Turns!ToEnd(q) = Append(Tail(q), Head(q))
  BY <1>1 DEF Turns!ToEnd
<1>3. /\ Tail(q) \in Seq(S) /\ Len(Tail(q)) = L - 1 /\ Head(q) \in S /\ Head(q) = q[1]
      /\ \A j \in 1 .. L - 1 : Tail(q)[j] = q[j + 1]
  BY <1>1, HeadTailProperties
<1> QED BY <1>2, <1>3

\* rotate_orbiter sends the first in turn to the end
LEMMA TurnsRotate ==
    ASSUME NEW pool, PoolOK(pool)
    PROVE  /\ TurnOrder(RotateOrbiter(pool)) = Turns!ToEnd(TurnOrder(pool))
           /\ pool.orbiters = <<>> <=> TurnOrder(pool) = <<>>
           /\ pool.orbiters # <<>> => Head(TurnOrder(pool)) = NextOrbiter(pool)
<1> DEFINE s == pool.orbiters
           new == RotateOrbiter(pool)
           n == NextIndex(pool)
           m == NextIndex(new)
           q == TurnOrder(pool)
           p == TurnOrder(new)
<1>1. PoolOK(new) /\ new.orbiters = s
  BY RotateOrbiterOK
<1>2. s \in Seq(Orbiters) /\ Len(s) \in Nat /\ pool.next \in Nat /\ (s = <<>> <=> Len(s) = 0)
  BY PeriodsAssumption, EmptySeq DEF PoolOK
<1>3. PICK L \in Nat : L = Len(s)
  BY <1>2
<1>4. Rolled(q, s, L, n)
  BY <1>3, TurnOrderIs
<1>5. Rolled(p, s, L, m)
  <2>1. Rolled(p, new.orbiters, Len(new.orbiters), m)
    <3> HIDE DEF new
    <3> QED BY <1>1, TurnOrderIs
  <2> QED BY <1>1, <1>3, <2>1
<1>6. s # <<>> => new.next = n + 1 /\ NextOrbiter(pool) = s[n + 1]
  <2>1. s # <<>> => new = [pool EXCEPT !.current = {[account |-> NextOrbiter(pool), removed |-> FALSE]},
                                        !.next = n + 1]
    BY DEF RotateOrbiter
  <2>2. s # <<>> => new.next = n + 1
    <3> HIDE DEF new, n
    <3> QED BY <2>1 DEF PoolOK
  <2> QED BY <2>2 DEF NextOrbiter
<1>7. s # <<>> => m = IF n + 1 >= L THEN 0 ELSE n + 1
  <2> HIDE DEF new, n
  <2> QED BY <1>1, <1>3, <1>6 DEF NextIndex
<1> USE DEF Rolled
<1> HIDE DEF s, new, n, m, q, p
<1>8. q = <<>> <=> L = 0
  BY <1>4, EmptySeq
<1>9. p = <<>> <=> L = 0
  BY <1>5, EmptySeq
<1>10. CASE L = 0
  <2>1. q = <<>> /\ p = <<>> /\ s = <<>>
    BY <1>2, <1>3, <1>8, <1>9, <1>10
  <2> QED BY <2>1 DEF Turns!ToEnd, q, p, s, new
<1>11. CASE L # 0
  <2>1. s # <<>> /\ q # <<>>
    BY <1>2, <1>3, <1>8, <1>11
  <2>2. Head(q) = q[1] /\ q[1] = s[n + 1]
    BY <1>4, <1>11, <2>1
  <2> DEFINE e == Turns!ToEnd(q)
  <2>3. /\ e \in Seq(Orbiters) /\ Len(e) = L
        /\ \A j \in 1 .. L : e[j] = IF j < L THEN q[j + 1] ELSE q[1]
    BY <1>4, <1>11, Ended
  <2> HIDE DEF e
  <2>4. ASSUME NEW j \in 1 .. L  PROVE p[j] = e[j]
    <3>1. e[j] = IF j < L - n THEN s[n + j + 1] ELSE s[j - (L - n) + 1]
      <4>1. CASE j < L
        <5>1. j + 1 \in 1 .. L /\ e[j] = q[j + 1]
          BY <2>3, <4>1
        <5> QED BY <1>4, <4>1, <5>1
      <4>2. CASE j = L
        BY <1>4, <2>2, <2>3, <4>2
      <4> QED BY <4>1, <4>2
    <3>2. CASE n + 1 >= L
      <4>1. m = 0 /\ n = L - 1
        BY <1>4, <1>7, <1>11, <2>1, <3>2
      <4> QED BY <1>5, <3>1, <4>1
    <3>3. CASE n + 1 < L
      <4>1. m = n + 1
        BY <1>4, <1>7, <2>1, <3>3
      <4>2. p[j] = IF j <= L - m THEN s[m + j] ELSE s[j - (L - m)]
        BY <1>5
      <4>3. m + j = n + j + 1 /\ j - (L - m) = j - (L - n) + 1 /\ (j <= L - m <=> j < L - n)
        BY <1>4, <4>1
      <4> QED BY <3>1, <4>2, <4>3
    <3> QED BY <1>4, <3>2, <3>3
  <2>5. p = e
    BY <1>5, <2>3, <2>4, SeqEqual
  <2> QED BY <1>6, <2>1, <2>2, <2>5 DEF q, p, e, s, new
<1> QED BY <1>10, <1>11

\* add_orbiter puts the newcomer last in turn
LEMMA TurnsJoin ==
    ASSUME NEW pool, PoolOK(pool), NEW o \in Orbiters,
           ~Lists(pool, o), Len(pool.orbiters) < MaxPoolSize
    PROVE  TurnOrder(AddOrbiter(pool, o)) = Append(TurnOrder(pool), o)
<1> DEFINE s == pool.orbiters
           at == IF pool.next > Len(s) THEN 0 ELSE pool.next
           t == InsertAt(s, at + 1, o)
           new == AddOrbiter(pool, o)
           n == NextIndex(pool)
           m == NextIndex(new)
           q == TurnOrder(pool)
           p == TurnOrder(new)
           e == Append(q, o)
<1>1. /\ s \in Seq(Orbiters) /\ pool.next \in Nat
      /\ pool \in [orbiters : Seq(Orbiters), next : 0..MaxPoolSize,
                   current : SUBSET [account : Orbiters, removed : BOOLEAN]]
  BY PeriodsAssumption DEF PoolOK
<1>2. PICK L \in Nat : L = Len(s)
  BY <1>1
<1>3. at \in 0 .. L /\ at + 1 \in 1 .. Len(s) + 1
  BY <1>1, <1>2
<1>4. /\ t \in Seq(Orbiters) /\ Len(t) = L + 1
      /\ \A j \in 1 .. L + 1 :
            t[j] = IF j < at + 1 THEN s[j] ELSE IF j = at + 1 THEN o ELSE s[j - 1]
  <2> DEFINE i == at + 1
  <2>1. i \in 1 .. Len(s) + 1
    BY <1>3
  <2> HIDE DEF i, s
  <2>2. /\ InsertAt(s, i, o) \in Seq(Orbiters) /\ Len(InsertAt(s, i, o)) = Len(s) + 1
        /\ \A j \in 1 .. Len(s) + 1 : InsertAt(s, i, o)[j] =
             IF j < i THEN s[j] ELSE IF j = i THEN o ELSE s[j - 1]
    BY <1>1, <2>1, Inserted
  <2> QED BY <1>2, <2>2 DEF i
<1>5. new.orbiters = t /\ new.next = at + 1
  <2>1. new = [pool EXCEPT !.orbiters = t, !.next = at + 1]
    BY DEF AddOrbiter
  <2> HIDE DEF new, t, at
  <2> QED BY <1>1, <2>1
<1>6. PoolOK(new)
  BY AddOrbiterOK
<1>7. n = (IF pool.next >= L THEN 0 ELSE pool.next) /\ m = (IF at + 1 >= L + 1 THEN 0 ELSE at + 1)
  <2>1. n = IF pool.next >= L THEN 0 ELSE pool.next
    BY <1>2 DEF NextIndex
  <2>2. m = IF at + 1 >= L + 1 THEN 0 ELSE at + 1
    <3> HIDE DEF new, t, at
    <3> QED BY <1>4, <1>5 DEF NextIndex
  <2> QED BY <2>1, <2>2
<1>8. Rolled(q, s, L, n)
  BY <1>2, TurnOrderIs
<1>9. Rolled(p, t, L + 1, m)
  <2>1. Rolled(p, new.orbiters, Len(new.orbiters), m)
    <3> HIDE DEF new
    <3> QED BY <1>6, TurnOrderIs
  <2> HIDE DEF new, t, p, m
  <2> QED BY <1>4, <1>5, <2>1
<1>10. at = IF pool.next > L THEN 0 ELSE pool.next
  BY <1>2
<1> HIDE DEF s, at, t, new, n, m, q, p
<1>a. n \in 0 .. L /\ (L # 0 => n < L) /\ (L = 0 => n = 0)
  BY <1>8 DEF Rolled
<1>b. q \in Seq(Orbiters) /\ Len(q) = L
  BY <1>8 DEF Rolled
<1> USE DEF Rolled
<1>11. e \in Seq(Orbiters) /\ Len(e) = L + 1 /\ \A j \in 1 .. L + 1 : e[j] = IF j <= L THEN q[j] ELSE o
  BY <1>b, AppendProperties
<1> HIDE DEF e
<1>12. ASSUME NEW j \in 1 .. L + 1  PROVE p[j] = e[j]
  <2>0. p[j] = IF j <= (L + 1) - m THEN t[m + j] ELSE t[j - ((L + 1) - m)]
    BY <1>9
  <2>1. CASE pool.next < L
    <3>1. n = pool.next /\ at = n /\ m = n + 1 /\ (L + 1) - m = L - n
      BY <1>1, <1>3, <1>7, <1>10, <2>1
    <3>2. CASE j <= L - n
      <4>1. m + j \in 1 .. L + 1 /\ m + j > at + 1 /\ (m + j) - 1 = n + j /\ j \in 1 .. L
        <5>1. n \in Nat /\ at = n /\ m = n + 1 /\ j \in Nat /\ j >= 1
          BY <1>a, <3>1
        <5>2. m + j \in 1 .. L + 1 /\ j \in 1 .. L
          BY <1>a, <3>2, <5>1
        <5>3. m + j > at + 1 /\ (m + j) - 1 = n + j
          BY <5>1
        <5> QED BY <5>2, <5>3
      <4>2. t[m + j] = s[n + j]
        <5> DEFINE k == m + j
        <5>1. k \in 1 .. L + 1 /\ k > at + 1 /\ k - 1 = n + j /\ at \in Nat
          BY <1>3, <4>1
        <5> HIDE DEF k
        <5>2. t[k] = s[k - 1]
          BY <1>4, <5>1
        <5> QED BY <5>1, <5>2 DEF k
      <4> QED BY <1>8, <1>11, <2>0, <3>1, <3>2, <4>1, <4>2
    <3>3. CASE ~(j <= L - n)
      <4> DEFINE k == j - (L - n)
      <4>1. k \in 1 .. n + 1 /\ k \in 1 .. L + 1 /\ (k = n + 1 <=> j = L + 1) /\ (k < at + 1 <=> j <= L)
        <5>1. n \in Nat /\ at = n /\ j \in Nat /\ j >= 1 /\ j <= L + 1 /\ j > L - n /\ n <= L
          BY <1>a, <3>1, <3>3
        <5> QED BY <5>1
      <4>2. p[j] = t[k]
        BY <2>0, <3>1, <3>3
      <4> HIDE DEF k
      <4>3. p[j] = IF j <= L THEN s[k] ELSE o
        BY <1>4, <3>1, <4>1, <4>2
      <4> QED BY <1>8, <1>11, <3>3, <4>3 DEF k
    <3> QED BY <3>2, <3>3
  <2>2. CASE pool.next = L
    <3>1. n = 0 /\ at = L /\ m = 0
      BY <1>1, <1>3, <1>7, <1>10, <2>2
    <3> QED BY <1>4, <1>8, <1>11, <2>0, <3>1
  <2>3. CASE pool.next > L
    <3>1. n = 0 /\ at = 0 /\ m = (IF L = 0 THEN 0 ELSE 1)
      BY <1>1, <1>3, <1>7, <1>10, <2>3
    <3>2. CASE L = 0
      BY <1>4, <1>8, <1>11, <2>0, <3>1, <3>2
    <3>3. CASE L # 0
      BY <1>4, <1>8, <1>11, <2>0, <3>1, <3>3
    <3> QED BY <3>2, <3>3
  <2> QED BY <1>1, <2>1, <2>2, <2>3
<1>13. p = e
  BY <1>9, <1>11, <1>12, SeqEqual
<1> QED BY <1>13 DEF p, e, q, new

\* remove_orbiter takes o out, and the first of the others may lose its turn
LEMMA TurnsLeave ==
    ASSUME NEW pool, PoolOK(pool), NEW o \in Orbiters, Lists(pool, o)
    PROVE  \E i \in DOMAIN TurnOrder(pool) :
               /\ TurnOrder(pool)[i] = o
               /\ TurnOrder(RemoveOrbiter(pool, o)) \in
                      {RemoveAt(TurnOrder(pool), i), Turns!ToEnd(RemoveAt(TurnOrder(pool), i))}
<1> DEFINE s == pool.orbiters
           x == Place(pool, o)
           t == RemoveAt(s, x)
           new == RemoveOrbiter(pool, o)
           n == NextIndex(pool)
           m == NextIndex(new)
           q == TurnOrder(pool)
           p == TurnOrder(new)
           now == {[cur EXCEPT !.removed = @ \/ cur.account = o] : cur \in pool.current}
<1>1. /\ s \in Seq(Orbiters) /\ pool.next \in Nat
      /\ pool \in [orbiters : Seq(Orbiters), next : 0..MaxPoolSize,
                   current : SUBSET [account : Orbiters, removed : BOOLEAN]]
  BY PeriodsAssumption DEF PoolOK
<1>2. PICK L \in Nat : L = Len(s)
  BY <1>1
<1>3. x \in 1 .. L /\ s[x] = o
  <2>1. \E j \in DOMAIN s : s[j] = o
    BY DEF Lists, ToSet
  <2> QED BY <1>1, <1>2, <2>1 DEF Place
<1>4. /\ t \in Seq(Orbiters) /\ Len(t) = L - 1
      /\ \A j \in 1 .. L - 1 : t[j] = IF j < x THEN s[j] ELSE s[j + 1]
  <2>1. x \in 1 .. Len(s)
    BY <1>2, <1>3
  <2> HIDE DEF x, s
  <2>2. /\ RemoveAt(s, x) \in Seq(Orbiters) /\ Len(RemoveAt(s, x)) = Len(s) - 1
        /\ \A j \in 1 .. Len(s) - 1 : RemoveAt(s, x)[j] = IF j < x THEN s[j] ELSE s[j + 1]
    BY <1>1, <2>1, Removed
  <2> QED BY <1>2, <2>2
<1>5. new.orbiters = t /\ new.next = pool.next
  <2>1. new = [pool EXCEPT !.orbiters = t, !.current = now]
    BY DEF RemoveOrbiter
  <2> HIDE DEF new, t, now
  <2> QED BY <1>1, <2>1
<1>6. PoolOK(new)
  BY RemoveOrbiterOK
<1>7. n = (IF pool.next >= L THEN 0 ELSE pool.next) /\ m = (IF pool.next >= L - 1 THEN 0 ELSE pool.next)
  <2>1. n = IF pool.next >= L THEN 0 ELSE pool.next
    BY <1>2 DEF NextIndex
  <2>2. m = IF pool.next >= L - 1 THEN 0 ELSE pool.next
    <3> HIDE DEF new, t
    <3> QED BY <1>4, <1>5 DEF NextIndex
  <2> QED BY <2>1, <2>2
<1>8. Rolled(q, s, L, n)
  BY <1>2, TurnOrderIs
<1>9. Rolled(p, t, L - 1, m)
  <2>1. Rolled(p, new.orbiters, Len(new.orbiters), m)
    <3> HIDE DEF new
    <3> QED BY <1>6, TurnOrderIs
  <2> HIDE DEF new, t, p, m
  <2> QED BY <1>4, <1>5, <2>1
<1> DEFINE i == IF x > n THEN x - n ELSE x + (L - n)
           e == RemoveAt(q, i)
<1> HIDE DEF s, x, t, new, n, m, q, p, now
<1>a. n \in 0 .. L /\ (L # 0 => n < L) /\ (L = 0 => n = 0)
  BY <1>8 DEF Rolled
<1>b. q \in Seq(Orbiters) /\ Len(q) = L
  BY <1>8 DEF Rolled
<1> USE DEF Rolled
<1>10. i \in 1 .. L /\ i \in DOMAIN q /\ q[i] = o
  <2>1. i \in 1 .. L
    BY <1>3, <1>8
  <2>2. i \in DOMAIN q
    BY <1>8, <2>1, LenProperties
  <2>3. q[i] = o
    BY <1>3, <1>8, <2>1
  <2> QED BY <2>1, <2>2, <2>3
<1>11. /\ e \in Seq(Orbiters) /\ Len(e) = L - 1
       /\ \A j \in 1 .. L - 1 : e[j] = IF j < i THEN q[j] ELSE q[j + 1]
  <2> HIDE DEF i
  <2>1. /\ RemoveAt(q, i) \in Seq(Orbiters) /\ Len(RemoveAt(q, i)) = Len(q) - 1
        /\ \A j \in 1 .. Len(q) - 1 : RemoveAt(q, i)[j] = IF j < i THEN q[j] ELSE q[j + 1]
    <3>1. i \in 1 .. Len(q)
      BY <1>b, <1>10
    <3> QED BY <1>b, <3>1, Removed
  <2> QED BY <1>8, <2>1
<1> HIDE DEF e, i
<1>12. (m = n) \/ (m = 0 /\ n = L - 1)
  BY <1>1, <1>3, <1>7
<1>13. CASE x > n
  <2>1. i = x - n
    BY <1>13 DEF i
  <2>2. ASSUME NEW j \in 1 .. L - 1  PROVE p[j] = e[j]
    <3>1. p[j] = IF j <= (L - 1) - m THEN t[m + j] ELSE t[j - ((L - 1) - m)]
      BY <1>9
    <3>2. CASE m = n
      <4>1. CASE j <= (L - 1) - n
        <5>1. n + j \in 1 .. L - 1 /\ j \in 1 .. L /\ j + 1 \in 1 .. L /\ j + 1 <= L - n
          BY <1>8, <4>1
        <5>2. p[j] = IF n + j < x THEN s[n + j] ELSE s[n + j + 1]
          BY <1>4, <3>1, <3>2, <4>1, <5>1
        <5>3. q[j] = s[n + j] /\ q[j + 1] = s[n + (j + 1)]
          BY <1>8, <4>1, <5>1
        <5>4. n \in Nat /\ x \in Nat /\ L \in Nat
          BY <1>3, <1>a
        <5>5. (n + j < x <=> j < i) /\ n + j + 1 = n + (j + 1)
          BY <2>1, <5>4
        <5>6. e[j] = IF j < i THEN q[j] ELSE q[j + 1]
          BY <1>11
        <5> QED BY <5>2, <5>3, <5>5, <5>6
      <4>2. CASE ~(j <= (L - 1) - n)
        <5> DEFINE k == j - ((L - 1) - n)
        <5>1. k \in 1 .. n /\ k \in 1 .. L - 1 /\ k < x /\ j + 1 \in 1 .. L /\ ~(j < i)
              /\ ~(j + 1 <= L - n) /\ (j + 1) - (L - n) = k
          BY <1>3, <1>8, <1>13, <2>1, <4>2
        <5>2. p[j] = t[k]
          BY <3>1, <3>2, <4>2
        <5> HIDE DEF k
        <5>3. p[j] = s[k]
          BY <1>4, <5>1, <5>2
        <5>4. e[j] = q[j + 1] /\ q[j + 1] = s[k]
          BY <1>8, <1>11, <5>1
        <5> QED BY <5>3, <5>4
      <4> QED BY <4>1, <4>2
    <3>3. CASE m = 0 /\ n = L - 1
      <4>1. x = L /\ i = 1 /\ L - n = 1
        BY <1>3, <1>13, <2>1, <3>3
      <4>2. p[j] = t[j] /\ t[j] = s[j]
        BY <1>3, <1>4, <3>1, <3>3, <4>1
      <4>3. e[j] = q[j + 1] /\ q[j + 1] = s[j]
        <5>1. j + 1 \in 1 .. L /\ ~(j < 1) /\ ~(j + 1 <= 1) /\ (j + 1) - 1 = j
          OBVIOUS
        <5> QED BY <1>8, <1>11, <4>1, <5>1
      <4> QED BY <4>2, <4>3
    <3> QED BY <1>12, <3>2, <3>3
  <2>3. p = e
    BY <1>9, <1>11, <2>2, SeqEqual
  <2> QED BY <1>10, <2>3 DEF p, e, q, new
<1>14. CASE ~(x > n)
  <2>1. i = x + (L - n) /\ L - 1 \in Nat \ {0} /\ n < L
    BY <1>3, <1>8, <1>14 DEF i
  <2> DEFINE f == Turns!ToEnd(e)
             M == L - 1
  <2>2. /\ f \in Seq(Orbiters) /\ Len(f) = M
        /\ \A j \in 1 .. M : f[j] = IF j < M THEN e[j + 1] ELSE e[1]
    <3>1. M \in Nat \ {0} /\ M = Len(e) /\ e \in Seq(Orbiters)
      BY <1>11, <2>1
    <3> HIDE DEF M
    <3> QED BY <3>1, Ended
  <2> HIDE DEF f
  <2>3. ASSUME NEW j \in 1 .. L - 1  PROVE p[j] = f[j]
    <3>1. p[j] = IF j <= (L - 1) - m THEN t[m + j] ELSE t[j - ((L - 1) - m)]
      BY <1>9
    <3>2. j < L - 1 => j + 1 \in 1 .. L - 1 /\ f[j] = e[j + 1]
      BY <2>2
    <3>3. f[L - 1] = e[1] /\ e[1] = q[1] /\ q[1] = s[n + 1]
      <4>1. 1 \in 1 .. L - 1 /\ L - 1 \in 1 .. L - 1 /\ 1 < i /\ 1 \in 1 .. L /\ 1 <= L - n
        BY <1>3, <1>8, <2>1
      <4> QED BY <1>8, <1>11, <2>2, <4>1
    <3>4. CASE m = n
      <4>1. CASE j <= (L - 1) - n
        <5>1. n + j \in 1 .. L - 1 /\ ~(n + j < x) /\ j < L - 1 /\ j + 1 <= L - n /\ j + 1 < i
              /\ j + 1 \in 1 .. L
          BY <1>3, <1>8, <1>14, <2>1, <4>1
        <5>2. p[j] = s[n + j + 1]
          BY <1>4, <3>1, <3>4, <4>1, <5>1
        <5>3. f[j] = q[j + 1] /\ q[j + 1] = s[n + (j + 1)]
          BY <1>8, <1>11, <3>2, <5>1
        <5>4. n + j + 1 = n + (j + 1)
          BY <1>8
        <5> QED BY <5>2, <5>3, <5>4
      <4>2. CASE ~(j <= (L - 1) - n)
        <5> DEFINE k == j - ((L - 1) - n)
        <5>1. k \in 1 .. n /\ k \in 1 .. L - 1 /\ (j = L - 1 <=> k = n) /\ k \in Nat
          BY <1>8, <2>1, <4>2
        <5>2. p[j] = t[k]
          BY <3>1, <3>4, <4>2
        <5>3. j + 1 < i <=> k < x
          BY <1>3, <1>8, <2>1
        <5>4. ~(j + 1 <= L - n) /\ (j + 1) - (L - n) = k /\ (j + 2) - (L - n) = k + 1
              /\ ~(j + 2 <= L - n)
          BY <1>8, <4>2
        <5> HIDE DEF k
        <5>5. p[j] = IF k < x THEN s[k] ELSE s[k + 1]
          BY <1>4, <5>1, <5>2
        <5>6. CASE j < L - 1
          <6>1. j + 1 \in 1 .. L /\ j + 2 \in 1 .. L /\ (j + 1) + 1 = j + 2
            BY <5>6
          <6>2. q[j + 1] = s[k] /\ q[j + 2] = s[k + 1]
            BY <1>8, <5>4, <6>1
          <6>3. f[j] = IF j + 1 < i THEN q[j + 1] ELSE q[j + 2]
            BY <1>11, <3>2, <5>6, <6>1
          <6> QED BY <5>3, <5>5, <6>2, <6>3
        <5>7. CASE j = L - 1
          BY <1>3, <1>8, <1>14, <3>3, <5>1, <5>5, <5>7
        <5> QED BY <5>6, <5>7
      <4> QED BY <4>1, <4>2
    <3>5. CASE m = 0 /\ n = L - 1
      <4>1. i = x + 1 /\ L - n = 1 /\ x <= L - 1
        BY <1>3, <1>14, <2>1, <3>5
      <4>2. p[j] = t[j] /\ t[j] = IF j < x THEN s[j] ELSE s[j + 1]
        BY <1>4, <3>1, <3>5
      <4>3. CASE j < L - 1
        <5>1. j + 1 \in 1 .. L /\ j + 2 \in 1 .. L /\ (j + 1) + 1 = j + 2 /\ (j + 1) - 1 = j
              /\ (j + 2) - 1 = j + 1 /\ ~(j + 1 <= 1) /\ ~(j + 2 <= 1)
          BY <4>3
        <5>2. q[j + 1] = s[j] /\ q[j + 2] = s[j + 1]
          BY <1>8, <4>1, <5>1
        <5>3. f[j] = IF j + 1 < i THEN q[j + 1] ELSE q[j + 2]
          BY <1>11, <3>2, <4>3, <5>1
        <5>4. j + 1 < i <=> j < x
          BY <1>3, <4>1
        <5> QED BY <4>2, <5>2, <5>3, <5>4
      <4>4. CASE j = L - 1
        <5>1. ~(j < x) /\ j + 1 = n + 1
          BY <1>3, <3>5, <4>1, <4>4
        <5> QED BY <3>3, <4>2, <4>4, <5>1
      <4> QED BY <4>3, <4>4
    <3> QED BY <1>12, <3>4, <3>5
  <2>4. p = f
    BY <1>9, <2>2, <2>3, SeqEqual
  <2> QED BY <1>10, <2>4 DEF p, e, f, q, new
<1> QED BY <1>13, <1>14

-----------------------------------------------------------------------------
(* Refinement                                                              *)

LEMMA TurnsInitial ==
    Init => Turns!TurnsInit
<1> SUFFICES ASSUME Init  PROVE Turns!TurnsInit
  OBVIOUS
<1>1. pools = <<>> /\ orbiterPerRound = <<>>
  BY DEF Init
<1>2. DOMAIN <<>> = {}
  OBVIOUS
<1>3. TurnQueues = <<>>
  BY <1>1, <1>2 DEF TurnQueues
<1>4. Serving = [c \in Collators |-> {}]
  BY <1>1, <1>2 DEF Serving
<1> QED BY <1>3, <1>4 DEF Turns!TurnsInit

\* a call that concerns one pool
LEMMA TurnsOfPool ==
    ASSUME NEW c \in DOMAIN pools, NEW pool, pools' = [pools EXCEPT ![c] = pool],
           UNCHANGED <<round, orbiterPerRound>>
    PROVE  /\ TurnQueues' = [TurnQueues EXCEPT ![c] = TurnOrder(pool)]
           /\ Serving' = Serving
<1>1. /\ DOMAIN pools' = DOMAIN pools
      /\ \A d \in DOMAIN pools : pools'[d] = IF d = c THEN pool ELSE pools[d]
  OBVIOUS
<1>2. Serving' = Serving
  BY DEF Serving
<1>3. TurnQueues' = [d \in DOMAIN pools |-> IF d = c THEN TurnOrder(pool) ELSE TurnOrder(pools[d])]
  <2>1. TurnQueues' = [d \in DOMAIN pools |-> TurnOrder(pools'[d])]
    BY <1>1 DEF TurnQueues
  <2>2. \A d \in DOMAIN pools :
            TurnOrder(pools'[d]) = IF d = c THEN TurnOrder(pool) ELSE TurnOrder(pools[d])
    BY <1>1
  <2> QED BY <2>1, <2>2
<1>4. [TurnQueues EXCEPT ![c] = TurnOrder(pool)] =
          [d \in DOMAIN pools |-> IF d = c THEN TurnOrder(pool) ELSE TurnOrder(pools[d])]
  BY DEF TurnQueues
<1> QED BY <1>2, <1>3, <1>4

\* a rotation of all the pools is a rotation of all the queues
LEMMA TurnsOfRound ==
    ASSUME StorageInv, NewRound
    PROVE  Turns!Rotate \/ UNCHANGED <<TurnQueues, Serving>>
<1>1. round' = round + 1
  BY DEF NewRound
<1>2. CASE IsRotation(round + 1)
  <2>1. DOMAIN pools' = DOMAIN pools /\ \A c \in DOMAIN pools : pools'[c] = RotateOrbiter(pools[c])
    BY <1>2, RotationStep
  <2>2. /\ \A c : <<round + 1, c>> \in DOMAIN orbiterPerRound' <=> c \in Appointing
        /\ \A c \in Appointing : orbiterPerRound'[<<round + 1, c>>] = NextOrbiter(pools[c])
    BY <1>2, RotationRows
  <2>3. \A c \in DOMAIN pools :
            /\ TurnOrder(RotateOrbiter(pools[c])) = Turns!ToEnd(TurnOrder(pools[c]))
            /\ c \in Appointing <=> TurnOrder(pools[c]) # <<>>
            /\ c \in Appointing => Head(TurnOrder(pools[c])) = NextOrbiter(pools[c])
    BY TurnsRotate DEF StorageInv, TypeOK, Appointing
  <2>4. TurnQueues' = [c \in DOMAIN TurnQueues |-> Turns!ToEnd(TurnQueues[c])]
    <3>1. TurnQueues' = [c \in DOMAIN pools |-> TurnOrder(pools'[c])]
      BY <2>1 DEF TurnQueues
    <3>2. \A c \in DOMAIN pools : TurnOrder(pools'[c]) = Turns!ToEnd(TurnOrder(pools[c]))
      BY <2>1, <2>3
    <3>3. TurnQueues' = [c \in DOMAIN pools |-> Turns!ToEnd(TurnOrder(pools[c]))]
      BY <3>1, <3>2
    <3> QED BY <3>3 DEF TurnQueues
  <2>5. Serving' = [c \in Collators |->
                       IF c \in DOMAIN TurnQueues /\ TurnQueues[c] # <<>>
                       THEN {Head(TurnQueues[c])} ELSE {}]
    <3>1. Serving' = [c \in Collators |-> IF <<round + 1, c>> \in DOMAIN orbiterPerRound'
                                          THEN {orbiterPerRound'[<<round + 1, c>>]} ELSE {}]
      BY <1>1 DEF Serving
    <3>2. Serving' = [c \in Collators |-> IF c \in Appointing THEN {NextOrbiter(pools[c])} ELSE {}]
      BY <2>2, <3>1
    <3>3. \A c \in Collators :
              /\ c \in Appointing <=> c \in DOMAIN TurnQueues /\ TurnQueues[c] # <<>>
              /\ c \in Appointing => Head(TurnQueues[c]) = NextOrbiter(pools[c])
      BY <2>3 DEF TurnQueues, Appointing
    <3> QED BY <3>2, <3>3
  <2> QED BY <2>4, <2>5 DEF Turns!Rotate
<1>3. CASE ~IsRotation(round + 1)
  <2>1. /\ pools' = pools /\ round + 1 \in Until(round)
        /\ \A c : <<round + 1, c>> \in DOMAIN orbiterPerRound' <=>
                    <<round + 1, c>> \in DOMAIN orbiterPerRound
        /\ \A k \in DOMAIN orbiterPerRound' : orbiterPerRound'[k] = orbiterPerRound[k]
    BY <1>3, QuietRoundDoes
  <2>2. \A c \in Collators :
            /\ <<round + 1, c>> \in DOMAIN orbiterPerRound' <=> <<round, c>> \in DOMAIN orbiterPerRound
            /\ <<round, c>> \in DOMAIN orbiterPerRound =>
                 orbiterPerRound'[<<round + 1, c>>] = orbiterPerRound[<<round, c>>]
    BY <2>1 DEF StorageInv, RowsKept
  <2>3. Serving' = Serving
    <3>1. Serving' = [c \in Collators |-> IF <<round + 1, c>> \in DOMAIN orbiterPerRound'
                                          THEN {orbiterPerRound'[<<round + 1, c>>]} ELSE {}]
      BY <1>1 DEF Serving
    <3> QED BY <2>2, <3>1 DEF Serving
  <2> QED BY <2>1, <2>3 DEF TurnQueues
<1> QED BY <1>2, <1>3

\* the queue of a pool has the members of its list
LEMMA SameMembers ==
    ASSUME NEW pool, PoolOK(pool)
    PROVE  ToSet(TurnOrder(pool)) = ToSet(pool.orbiters)
<1> DEFINE s == pool.orbiters
           n == NextIndex(pool)
           q == TurnOrder(pool)
           L == Len(s)
<1>1. Rolled(q, s, L, n)
  BY TurnOrderIs
<1> HIDE DEF s, n, q, L
<1>2. n \in 0 .. L /\ L \in Nat /\ DOMAIN q = 1 .. L /\ DOMAIN s = 1 .. L
  BY <1>1, LenProperties DEF Rolled
<1>3. \A j \in 1 .. L : q[j] = IF j <= L - n THEN s[n + j] ELSE s[j - (L - n)]
  BY <1>1 DEF Rolled
<1>4. ASSUME NEW j \in 1 .. L  PROVE q[j] \in ToSet(s)
  <2> DEFINE k == IF j <= L - n THEN n + j ELSE j - (L - n)
  <2>1. k \in 1 .. L
    BY <1>2
  <2>2. q[j] = s[k]
    BY <1>3
  <2> QED BY <1>2, <2>1, <2>2 DEF ToSet
<1>5. ASSUME NEW k \in 1 .. L  PROVE s[k] \in ToSet(q)
  <2> DEFINE j == IF k > n THEN k - n ELSE k + (L - n)
  <2>1. j \in 1 .. L /\ k = IF j <= L - n THEN n + j ELSE j - (L - n)
    BY <1>2
  <2>2. s[k] = q[j]
    BY <1>3, <2>1
  <2> QED BY <1>2, <2>1, <2>2 DEF ToSet
<1>6. ToSet(q) = ToSet(s)
  BY <1>2, <1>4, <1>5 DEF ToSet
<1> QED BY <1>6 DEF q, s

\* every step of the pallet is a step of the queues or none
LEMMA TurnsOfStep ==
    ASSUME StorageInv, [Next]_vars
    PROVE  Turns!TurnsNext \/ UNCHANGED <<TurnQueues, Serving>>
<1>1. CASE NewRound
  BY <1>1, TurnsOfRound DEF Turns!TurnsNext
<1>2. ASSUME UNCHANGED <<round, pools, orbiterPerRound>>
      PROVE  UNCHANGED <<TurnQueues, Serving>>
  <2>1. TurnQueues' = TurnQueues
    BY <1>2 DEF TurnQueues
  <2>2. Serving' = Serving
    BY <1>2 DEF Serving
  <2> QED BY <2>1, <2>2
<1>3. CASE \E o \in Orbiters : OrbiterRegister(o) \/ OrbiterUnregister(o)
  BY <1>2, <1>3 DEF OrbiterRegister, OrbiterUnregister
<1>4. CASE \E c \in Collators, a \in Accounts : Author(a, c)
  BY <1>2, <1>4 DEF Author
<1>5. ASSUME NEW c \in Collators, PayCollator(c)  PROVE UNCHANGED <<TurnQueues, Serving>>
  <2>1. /\ UNCHANGED <<round, pools>>
        /\ DOMAIN orbiterPerRound' = DOMAIN orbiterPerRound \ {<<PaidFor, c>>}
        /\ \A k \in DOMAIN orbiterPerRound' : orbiterPerRound'[k] = orbiterPerRound[k]
    BY <1>5 DEF PayCollator, Without
  <2>2. \A d : <<round, d>> # <<PaidFor, c>>
    BY PeriodsAssumption DEF StorageInv, TypeOK, PaidFor
  <2>3. Serving' = Serving
    BY <2>1, <2>2 DEF Serving
  <2> QED BY <2>1, <2>3 DEF TurnQueues
<1>6. ASSUME NEW c \in Collators, AddCollator(c)  PROVE Turns!Open(c)
  <2>1. /\ UNCHANGED <<round, orbiterPerRound>> /\ c \notin DOMAIN pools
        /\ DOMAIN pools' = DOMAIN pools \cup {c} /\ pools'[c] = EmptyPool
        /\ \A d \in DOMAIN pools : d # c /\ pools'[d] = pools[d]
    BY <1>6 DEF AddCollator, Over
  <2>2. TurnOrder(EmptyPool) = <<>>
    BY EmptyPoolOK, TurnsRotate DEF EmptyPool
  <2>3. TurnQueues' = [d \in DOMAIN TurnQueues \cup {c} |-> IF d = c THEN <<>> ELSE TurnQueues[d]]
    <3>1. TurnQueues' = [d \in DOMAIN pools \cup {c} |-> TurnOrder(pools'[d])]
      BY <2>1 DEF TurnQueues
    <3>2. \A d \in DOMAIN pools \cup {c} :
              TurnOrder(pools'[d]) = IF d = c THEN <<>> ELSE TurnOrder(pools[d])
      BY <2>1, <2>2
    <3> QED BY <3>1, <3>2 DEF TurnQueues
  <2>4. Serving' = Serving
    BY <2>1 DEF Serving
  <2>5. c \notin DOMAIN TurnQueues
    BY <2>1 DEF TurnQueues
  <2> QED BY <2>3, <2>4, <2>5 DEF Turns!Open
<1>7. ASSUME NEW c \in Collators, RemoveCollator(c)  PROVE Turns!Close(c)
  <2>1. /\ UNCHANGED <<round, orbiterPerRound>> /\ c \in DOMAIN pools
        /\ DOMAIN pools' = DOMAIN pools \ {c}
        /\ \A d \in DOMAIN pools \ {c} : pools'[d] = pools[d]
    BY <1>7 DEF RemoveCollator, Without
  <2>2. TurnQueues' = [d \in DOMAIN TurnQueues \ {c} |-> TurnQueues[d]]
    <3>1. TurnQueues' = [d \in DOMAIN pools \ {c} |-> TurnOrder(pools'[d])]
      BY <2>1 DEF TurnQueues
    <3> QED BY <2>1, <3>1 DEF TurnQueues
  <2>3. Serving' = Serving /\ c \in DOMAIN TurnQueues
    BY <2>1 DEF Serving, TurnQueues
  <2> QED BY <2>2, <2>3 DEF Turns!Close
<1>8. ASSUME NEW c \in Collators, NEW o \in Orbiters, CollatorAddOrbiter(c, o)
      PROVE  Turns!Join(c, o)
  <2> DEFINE pool == AddOrbiter(pools[c], o)
  <2>1. /\ c \in DOMAIN pools /\ PoolOK(pools[c]) /\ ~Lists(pools[c], o)
        /\ Len(pools[c].orbiters) < MaxPoolSize
        /\ pools' = [pools EXCEPT ![c] = pool] /\ UNCHANGED <<round, orbiterPerRound>>
    BY <1>8 DEF CollatorAddOrbiter, JoinsPool, StorageInv, TypeOK
  <2>2. TurnOrder(pool) = Append(TurnOrder(pools[c]), o)
    BY <2>1, TurnsJoin
  <2>3. TurnQueues' = [TurnQueues EXCEPT ![c] = TurnOrder(pool)] /\ Serving' = Serving
    <3> HIDE DEF pool
    <3> QED BY <2>1, TurnsOfPool
  <2>4. c \in DOMAIN TurnQueues /\ TurnQueues[c] = TurnOrder(pools[c])
    BY <2>1 DEF TurnQueues
  <2>5. o \notin Turns!ToSet(TurnQueues[c])
    <3>1. o \notin ToSet(TurnQueues[c])
      BY <2>1, <2>4, SameMembers DEF Lists
    <3> QED BY <3>1 DEF ToSet, Turns!ToSet
  <2>6. TurnQueues' = [TurnQueues EXCEPT ![c] = Append(@, o)]
    <3> HIDE DEF pool
    <3> QED BY <2>2, <2>3, <2>4
  <2> QED BY <2>3, <2>4, <2>5, <2>6 DEF Turns!Join
<1>9. ASSUME NEW c \in Collators, NEW o \in Orbiters, RemoveOrbiterFromPool(c, o)
      PROVE  Turns!Leave(c, o)
  <2> DEFINE pool == RemoveOrbiter(pools[c], o)
             q == TurnOrder(pools[c])
  <2>1. /\ c \in DOMAIN pools /\ PoolOK(pools[c]) /\ Lists(pools[c], o)
        /\ pools' = [pools EXCEPT ![c] = pool] /\ UNCHANGED <<round, orbiterPerRound>>
    BY <1>9 DEF RemoveOrbiterFromPool, StorageInv, TypeOK
  <2>2. PICK i \in DOMAIN q : /\ q[i] = o
                              /\ TurnOrder(pool) \in {RemoveAt(q, i), Turns!ToEnd(RemoveAt(q, i))}
    BY <2>1, TurnsLeave
  <2>3. TurnQueues' = [TurnQueues EXCEPT ![c] = TurnOrder(pool)] /\ Serving' = Serving
    <3> HIDE DEF pool
    <3> QED BY <2>1, TurnsOfPool
  <2>4. c \in DOMAIN TurnQueues /\ TurnQueues[c] = q
    BY <2>1 DEF TurnQueues
  <2> HIDE DEF pool, q
  <2>5. RemoveAt(q, i) = Turns!RemoveAt(q, i)
    BY DEF RemoveAt, Turns!RemoveAt
  <2> QED BY <2>2, <2>3, <2>4, <2>5 DEF Turns!Leave
<1>10. CASE UNCHANGED vars
  BY <1>2, <1>10 DEF vars
<1> QED BY <1>1, <1>3, <1>4, <1>5, <1>6, <1>7, <1>8, <1>9, <1>10 DEF Next, Turns!TurnsNext

\* The pools with their index of the next orbiter implement the queues of OrbiterTurns.
THEOREM PoolsKeepTurns == Spec => TurnsKept
<1>1. StorageInv /\ [Next]_vars => [Turns!TurnsNext]_(Turns!turnVars)
  BY TurnsOfStep DEF Turns!turnVars
<1> QED BY <1>1, TurnsInitial, StorageInvariant, PTL DEF Spec, TurnsKept, Turns!TurnsSpec
=============================================================================
