----------------------- MODULE ParachainStaking_proofs -----------------------
(***************************************************************************)
(* What every sequence of calls does to candidates, delegations, requests, *)
(* locks and the total, for any accounts, amounts, delays and list sizes.  *)
(*                                                                         *)
(* First what the operators of RewardSplit and DelegationBook return, for  *)
(* every amount, snapshot, list and book: the share of a reward, lists of  *)
(* delegations, what each operation does to a book whose lists are         *)
(* described by the sets of delegations in them (BookIs), and the shares   *)
(* of a reward together.                                                   *)
(*                                                                         *)
(* Then the candidates' own side (IInv).  No operation on a book touches   *)
(* the self bond in it.  A request to bond less was checked against the    *)
(* bond of its day: it is that the bond only grows while a request waits,  *)
(* and that there is one request at a time, that keep the minimum when it  *)
(* is executed (BondLessFits).                                             *)
(*                                                                         *)
(* Then both sides together (Staked): the delegations to a candidate by    *)
(* the delegators' records (HeldBy) are those of its book's two lists.     *)
(* Each call is taken apart into what it does to one book and what it      *)
(* does to each delegator, who is Untouched, has Lost a delegation or has  *)
(* one changed (Holding); and the sum of the locks follows.                *)
(***************************************************************************)
EXTENDS ParachainStaking, Sums_proofs, SequenceTheorems

-----------------------------------------------------------------------------
(* Products and divisions                                                  *)

LEMMA ProductNat == ASSUME NEW a \in Nat, NEW b \in Nat PROVE a * b \in Nat
OBVIOUS

LEMMA ProductMonotone ==
    ASSUME NEW a \in Int, NEW b \in Int, NEW k \in Nat, a <= b
    PROVE  a * k <= b * k
<1>1. (b - a) * k \in Nat
  <2>1. b - a \in Nat
    OBVIOUS
  <2> QED BY <2>1, ProductNat
<1>2. (b - a) * k = b * k - a * k
  OBVIOUS
<1> QED BY <1>1, <1>2

LEMMA ProductCancel ==
    ASSUME NEW a \in Int, NEW b \in Int, NEW k \in Nat \ {0}, a * k <= b * k
    PROVE  a <= b
<1> SUFFICES ASSUME b + 1 <= a PROVE FALSE
  OBVIOUS
<1>1. (b + 1) * k <= a * k
  BY ProductMonotone
<1>2. (b + 1) * k = b * k + k
  OBVIOUS
<1> QED BY <1>1, <1>2

\* Euclid's division.
LEMMA Division ==
    ASSUME NEW n \in Nat, NEW q \in Nat \ {0}
    PROVE  /\ n \div q \in Nat /\ n % q \in Nat /\ n % q < q
           /\ n = q * (n \div q) + (n % q)
<1>1. n % q = n - q * (n \div q)
  BY Z3
<1>2. n \div q \in Nat /\ n % q \in Nat /\ n % q < q
  OBVIOUS
<1> DEFINE w == q * (n \div q)
<1>3. w \in Nat /\ n % q = n - w
  BY <1>1, <1>2, ProductNat
<1>4. n = w + (n % q)
  <2> HIDE DEF w
  <2> QED BY <1>2, <1>3
<1> QED BY <1>2, <1>4

LEMMA DivisionMonotone ==
    ASSUME NEW m \in Nat, NEW n \in Nat, NEW q \in Nat \ {0}, m <= n
    PROVE  m \div q <= n \div q
<1>1. /\ m \div q \in Nat /\ n \div q \in Nat
      /\ m = q * (m \div q) + (m % q) /\ m % q \in Nat
      /\ n = q * (n \div q) + (n % q) /\ n % q \in Nat /\ n % q < q
  BY Division
<1> SUFFICES ASSUME (n \div q) + 1 <= m \div q PROVE FALSE
  BY <1>1
<1> DEFINE x == n \div q
           y == m \div q
<1>2. (x + 1) * q <= y * q
  BY <1>1, ProductMonotone
<1>3. (x + 1) * q = q * x + q /\ y * q = q * y
  BY <1>1
<1> QED BY <1>1, <1>2, <1>3

-----------------------------------------------------------------------------
(* Taking parts of an amount                                               *)

\* t is the whole number nearest to m / A, the smaller one of two.
Nearest(t, m) == 2 * (Accuracy * t) < 2 * m + Accuracy /\ 2 * m <= 2 * (Accuracy * t) + Accuracy

LEMMA TimesNearest ==
    ASSUME NEW parts \in Nat, NEW x \in Nat
    PROVE  Times(parts, x) \in Nat /\ Nearest(Times(parts, x), parts * x)
<1> DEFINE m == parts * x
           whole == m \div Accuracy
           rest  == m % Accuracy
           t == IF 2 * rest > Accuracy THEN whole + 1 ELSE whole
<1>1. m \in Nat /\ Accuracy \in Nat \ {0}
  BY ProductNat, AccuracyAssumption
<1>2. Times(parts, x) = t
  BY DEF Times, TimesOf
<1>3. /\ whole \in Nat /\ rest \in Nat /\ rest < Accuracy
      /\ m = Accuracy * whole + rest
  <2> HIDE DEF m
  <2> QED BY <1>1, Division
<1>4. Accuracy * (whole + 1) = Accuracy * whole + Accuracy
  <2> HIDE DEF m, whole
  <2> QED BY <1>1, <1>3
<1> DEFINE w == Accuracy * whole
<1>5. w \in Nat
  <2> HIDE DEF m, whole
  <2> QED BY <1>1, <1>3, ProductNat
<1>6. t \in Nat /\ Nearest(t, m)
  <2> HIDE DEF m, whole, rest
  <2>1. CASE 2 * rest > Accuracy
    <3>1. t = whole + 1 /\ Accuracy * t = w + Accuracy /\ m = w + rest
      BY <1>3, <1>4, <2>1
    <3> HIDE DEF w, t
    <3> QED BY <1>1, <1>3, <1>5, <2>1, <3>1 DEF Nearest
  <2>2. CASE ~ (2 * rest > Accuracy)
    <3>1. t = whole /\ Accuracy * t = w /\ m = w + rest
      BY <1>3, <2>2
    <3> HIDE DEF w, t
    <3> QED BY <1>1, <1>3, <1>5, <2>2, <3>1 DEF Nearest
  <2> QED BY <2>1, <2>2
<1> QED BY <1>2, <1>6

\* What is nearest to more is not less.
LEMMA NearestMonotone ==
    ASSUME NEW t \in Nat, NEW u \in Nat, NEW m \in Nat, NEW n \in Nat,
           Nearest(t, m), Nearest(u, n), m <= n
    PROVE  t <= u
<1>1. Accuracy \in Nat \ {0}
  BY AccuracyAssumption
<1> SUFFICES ASSUME u + 1 <= t PROVE FALSE
  OBVIOUS
<1>2. (u + 1) * Accuracy <= t * Accuracy
  BY <1>1, ProductMonotone
<1> DEFINE a == Accuracy * t
           b == Accuracy * u
<1>3. a \in Nat /\ b \in Nat /\ t * Accuracy = a /\ (u + 1) * Accuracy = b + Accuracy
  BY <1>1, ProductNat
<1>4. 2 * a < 2 * m + Accuracy /\ 2 * n <= 2 * b + Accuracy
  BY DEF Nearest
<1> HIDE DEF a, b
<1> QED BY <1>1, <1>2, <1>3, <1>4

LEMMA TimesWithin ==
    ASSUME NEW parts \in 0 .. Accuracy, NEW x \in Nat
    PROVE  Times(parts, x) <= x
<1>1. Accuracy \in Nat \ {0} /\ parts \in Nat
  BY AccuracyAssumption
<1>2. Times(parts, x) \in Nat /\ Nearest(Times(parts, x), parts * x)
  BY <1>1, TimesNearest
<1>3. parts * x <= Accuracy * x /\ parts * x \in Nat /\ Accuracy * x \in Nat
  BY <1>1, ProductMonotone, ProductNat
<1>4. Nearest(x, Accuracy * x)
  <2> DEFINE a == Accuracy * x
  <2>1. a \in Nat
    BY <1>3
  <2>2. 2 * a < 2 * a + Accuracy /\ 2 * a <= 2 * a + Accuracy
    <3> HIDE DEF a
    <3> QED BY <1>1, <2>1
  <2> QED BY <2>2 DEF Nearest
<1> QED BY <1>2, <1>3, <1>4, NearestMonotone

LEMMA TimesMonotone ==
    ASSUME NEW p \in Nat, NEW q \in Nat, p <= q, NEW x \in Nat
    PROVE  Times(p, x) <= Times(q, x)
<1>1. p * x <= q * x /\ p * x \in Nat /\ q * x \in Nat
  BY ProductMonotone, ProductNat
<1> QED BY <1>1, TimesNearest, NearestMonotone

\* No parts of an amount are nothing.
LEMMA NoParts == ASSUME NEW x \in Nat PROVE Times(0, x) = 0
<1> DEFINE none == 0
<1>1. none \in Nat /\ none * x = 0 /\ none = 0
  OBVIOUS
<1> HIDE DEF none
<1>2. Times(none, x) \in Nat /\ Nearest(Times(none, x), none * x)
  BY <1>1, TimesNearest
<1>3. Nearest(Times(none, x), none) /\ Nearest(none, none)
  BY <1>1, <1>2, AccuracyAssumption DEF Nearest
<1>4. Times(none, x) <= none
  BY <1>1, <1>2, <1>3, NearestMonotone
<1> QED BY <1>1, <1>2, <1>4

-----------------------------------------------------------------------------
(* Making parts of a ratio                                                 *)

LEMMA PartsOfRatio ==
    ASSUME NEW p \in Nat, NEW q \in Nat \ {0}, p <= q
    PROVE  /\ FromRational(p, q) \in 0 .. Accuracy
           /\ q * FromRational(p, q) <= p * Accuracy
           /\ p * Accuracy < q * FromRational(p, q) + q
<1> DEFINE m == p * Accuracy
<1>1. m \in Nat /\ Accuracy \in Nat \ {0}
  BY ProductNat, AccuracyAssumption
<1>2. FromRational(p, q) = m \div q
  BY DEF FromRational, MinOfTwo, MaxOfTwo
<1> DEFINE k == m \div q
<1>3. k \in Nat /\ q * k <= m /\ m < q * k + q
  <2> HIDE DEF m
  <2>1. k \in Nat /\ m % q \in Nat /\ m % q < q /\ m = q * k + (m % q)
    BY <1>1, Division
  <2> DEFINE w == q * k
  <2>2. w \in Nat /\ m = w + (m % q)
    BY <2>1, ProductNat
  <2>3. w <= m /\ m < w + q
    <3> HIDE DEF w, k
    <3> QED BY <1>1, <2>1, <2>2
  <2> QED BY <2>1, <2>3
<1>4. k <= Accuracy
  <2>1. p * Accuracy <= q * Accuracy
    BY <1>1, ProductMonotone
  <2>2. k * q <= Accuracy * q
    <3> HIDE DEF k
    <3>1. k * q = q * k /\ Accuracy * q = q * Accuracy
      BY <1>1, <1>3
    <3> QED BY <1>1, <1>3, <2>1, <3>1
  <2> HIDE DEF k
  <2> QED BY <1>1, <1>3, <2>2, ProductCancel
<1> HIDE DEF k
<1> QED BY <1>1, <1>2, <1>3, <1>4

LEMMA RatioMonotone ==
    ASSUME NEW p \in Nat, NEW r \in Nat, NEW q \in Nat \ {0}, p <= r, r <= q
    PROVE  FromRational(p, q) <= FromRational(r, q)
<1>1. p * Accuracy <= r * Accuracy /\ p * Accuracy \in Nat /\ r * Accuracy \in Nat
  BY AccuracyAssumption, ProductMonotone, ProductNat
<1>2. FromRational(p, q) = (p * Accuracy) \div q /\ FromRational(r, q) = (r * Accuracy) \div q
  BY DEF FromRational, MinOfTwo, MaxOfTwo
<1> QED BY <1>1, <1>2, DivisionMonotone

-----------------------------------------------------------------------------
(* Shares of what is due                                                   *)

\* A share is the exact one up to half a unit, and short of it by no more than that
\* and a part in Accuracy of what is due: the terms RewardsShared allows for each of
\* those who are paid (Perbill::from_rational(..) * amount_due in
\* pay_one_collator_reward).
THEOREM ShareNearExact ==
    ASSUME NEW snapshot, snapshot.total \in Nat \ {0},
           NEW amount \in 0 .. snapshot.total, NEW due \in Nat
    PROVE  /\ 2 * (snapshot.total * ShareOf(amount, due, snapshot))
                  <= 2 * (amount * due) + snapshot.total
           /\ 2 * (Accuracy * (amount * due))
                  <= 2 * (Accuracy * (snapshot.total * ShareOf(amount, due, snapshot)))
                         + snapshot.total * (2 * due + Accuracy)
<1> DEFINE T == snapshot.total
           A == Accuracy
           p == FromRational(amount, T)
           s == ShareOf(amount, due, snapshot)
<1>1. T \in Nat \ {0} /\ A \in Nat \ {0} /\ amount \in Nat /\ amount <= T
  BY AccuracyAssumption
<1>2. p \in Nat /\ p <= A /\ T * p <= amount * A /\ amount * A < T * p + T
  <2> HIDE DEF T
  <2> QED BY <1>1, PartsOfRatio
<1>3. s \in Nat /\ 2 * (A * s) < 2 * (p * due) + A /\ 2 * (p * due) <= 2 * (A * s) + A
  <2>1. s = Times(p, due)
    BY DEF ShareOf
  <2> HIDE DEF p, s
  <2> QED BY <1>2, <2>1, TimesNearest DEF Nearest
<1> HIDE DEF T, A, p, s
\* Both bounds multiplied by T, and those of p by what is due.
<1> DEFINE X == amount * due
           Ts == T * s
           pd == p * due
<1>4. X \in Nat /\ Ts \in Nat /\ pd \in Nat
  BY <1>1, <1>2, <1>3, ProductNat
<1>5. T * pd <= A * X /\ A * X <= T * pd + T * due
  <2>1. (T * p) * due <= (amount * A) * due
    BY <1>1, <1>2, ProductMonotone, ProductNat
  <2>2. (amount * A) * due <= (T * p + T) * due
    <3>1. amount * A \in Nat /\ T * p \in Nat
      BY <1>1, <1>2, ProductNat
    <3>2. T * p + T \in Nat /\ amount * A <= T * p + T
      BY <1>1, <1>2, <3>1
    <3> QED BY <3>1, <3>2, ProductMonotone
  <2>3. (T * p) * due = T * pd /\ (amount * A) * due = A * X
        /\ (T * p + T) * due = T * pd + T * due
    BY <1>1, <1>2
  <2> QED BY <2>1, <2>2, <2>3
<1>6. 2 * (A * Ts) <= 2 * (T * pd) + T * A /\ 2 * (T * pd) <= 2 * (A * Ts) + T * A
  <2>1. A * s \in Nat
    BY <1>1, <1>3, ProductNat
  <2>2. (2 * (A * s)) * T <= (2 * pd + A) * T /\ (2 * pd) * T <= (2 * (A * s) + A) * T
    <3> DEFINE y == A * s
    <3>1. y \in Nat /\ 2 * y <= 2 * pd + A /\ 2 * pd <= 2 * y + A
      BY <1>1, <1>3, <1>4, <2>1
    <3> HIDE DEF y, pd
    <3>2. 2 * y \in Int /\ 2 * pd + A \in Int /\ 2 * pd \in Int /\ 2 * y + A \in Int
      BY <1>1, <1>4, <3>1
    <3>3. (2 * y) * T <= (2 * pd + A) * T /\ (2 * pd) * T <= (2 * y + A) * T
      BY <1>1, <3>1, <3>2, ProductMonotone
    <3> QED BY <3>3 DEF y
  <2>3. /\ (2 * (A * s)) * T = 2 * (A * Ts) /\ (2 * pd + A) * T = 2 * (T * pd) + T * A
        /\ (2 * pd) * T = 2 * (T * pd) /\ (2 * (A * s) + A) * T = 2 * (A * Ts) + T * A
    <3> HIDE DEF pd
    <3> QED BY <1>1, <1>3, <1>4
  <2> QED BY <2>2, <2>3
<1>7. A * Ts \in Nat /\ T * pd \in Nat /\ A * X \in Nat /\ T * A \in Nat /\ T * due \in Nat
  <2> HIDE DEF X, Ts, pd
  <2> QED BY <1>1, <1>4, ProductNat
<1>8. 2 * Ts <= 2 * X + T
  <2>1. (2 * Ts) * A <= (2 * X + T) * A
    <3>1. (2 * Ts) * A = 2 * (A * Ts) /\ (2 * X + T) * A = 2 * (A * X) + T * A
      <4> HIDE DEF X, Ts
      <4> QED BY <1>1, <1>4
    <3> HIDE DEF X, Ts, pd
    <3> QED BY <1>5, <1>6, <1>7, <3>1
  <2> HIDE DEF X, Ts
  <2> QED BY <1>1, <1>4, <2>1, ProductCancel
<1>9. 2 * (A * X) <= 2 * (A * Ts) + T * (2 * due + A)
  <2>1. T * (2 * due + A) = 2 * (T * due) + T * A
    BY <1>1
  <2> HIDE DEF X, Ts, pd
  <2> QED BY <1>5, <1>6, <1>7, <2>1
<1> QED BY <1>8, <1>9 DEF T, A, s

\* No share is more than what is due, and whoever earns on nothing, because its
\* delegation is being revoked, gets nothing.
THEOREM ShareWithinDue ==
    ASSUME NEW snapshot, snapshot.total \in Nat \ {0},
           NEW amount \in 0 .. snapshot.total, NEW due \in Nat
    PROVE  /\ ShareOf(amount, due, snapshot) \in 0 .. due
           /\ amount = 0 => ShareOf(amount, due, snapshot) = 0
<1> DEFINE p == FromRational(amount, snapshot.total)
<1>1. p \in 0 .. Accuracy /\ snapshot.total * p <= amount * Accuracy
  BY PartsOfRatio
<1>2. Times(p, due) \in Nat /\ Times(p, due) <= due
  <2> HIDE DEF p
  <2>1. p \in Nat
    BY <1>1, AccuracyAssumption
  <2>2. Times(p, due) \in Nat
    BY <2>1, TimesNearest
  <2>3. Times(p, due) <= due
    BY <1>1, TimesWithin
  <2> QED BY <2>2, <2>3
<1>3. ASSUME amount = 0 PROVE Times(p, due) = 0
  <2>1. p = 0
    <3>1. snapshot.total * p <= 0
      BY <1>1, <1>3, AccuracyAssumption
    <3> HIDE DEF p
    <3>2. p * snapshot.total <= 0 * snapshot.total
      BY <1>1, <3>1, AccuracyAssumption
    <3> QED BY <1>1, <3>2, ProductCancel, AccuracyAssumption
  <2> QED BY <2>1, NoParts
<1> QED BY <1>2, <1>3 DEF ShareOf

\* The parts of what is due, and the commission.
LEMMA Rewarded ==
    ASSUME NEW payout \in [issuance : Nat, reward : Nat, commission : Nat], NEW pct \in Nat,
           NEW snapshot
    PROVE  LET due == AmountDue(payout, pct, snapshot)
               commission == CommissionOf(payout, pct, snapshot)
           IN  /\ due \in Nat /\ commission \in Nat
               /\ due + commission = MaxOfTwo(Times(pct, payout.reward), commission)
               /\ Alone(snapshot) => commission = 0
<1> DEFINE R == Times(pct, payout.reward)
           C == CommissionOf(payout, pct, snapshot)
<1>1. R \in Nat
  BY TimesNearest
<1>2. C \in Nat
  <2>1. Times(payout.commission, payout.issuance) \in Nat
    BY TimesNearest
  <2>2. Times(pct, Times(payout.commission, payout.issuance)) \in Nat
    BY <2>1, TimesNearest
  <2> QED BY <2>2 DEF CommissionOf
<1>3. AmountDue(payout, pct, snapshot) = LessOrZero(R, C)
  BY DEF AmountDue
<1>4. Alone(snapshot) => C = 0
  BY DEF CommissionOf
<1> HIDE DEF R, C
<1>5. LessOrZero(R, C) \in Nat /\ LessOrZero(R, C) + C = MaxOfTwo(R, C)
  BY <1>1, <1>2 DEF LessOrZero, MaxOfTwo
<1> QED BY <1>2, <1>3, <1>4, <1>5 DEF R, C

\* Among those who share one reward, who has more in the snapshot is not paid less.
THEOREM MoreStakeNotLess ==
    ASSUME NEW payout \in [issuance : Nat, reward : Nat, commission : Nat], NEW pct \in Nat,
           NEW snapshot, snapshot.total \in Nat \ {0},
           NEW d \in DOMAIN snapshot.delegations, NEW e \in DOMAIN snapshot.delegations,
           snapshot.delegations[d] \in 0 .. snapshot.total,
           snapshot.delegations[e] \in 0 .. snapshot.total,
           snapshot.delegations[d] <= snapshot.delegations[e]
    PROVE  DelegatorReward(payout, pct, snapshot, d) <= DelegatorReward(payout, pct, snapshot, e)
<1> DEFINE T == snapshot.total
           a == snapshot.delegations[d]
           b == snapshot.delegations[e]
<1>1. FromRational(a, T) \in Nat /\ FromRational(b, T) \in Nat
      /\ FromRational(a, T) <= FromRational(b, T)
  BY PartsOfRatio, RatioMonotone, AccuracyAssumption
<1>2. AmountDue(payout, pct, snapshot) \in Nat
  BY Rewarded
<1> QED BY <1>1, <1>2, TimesMonotone DEF DelegatorReward, ShareOf

-----------------------------------------------------------------------------
(* Lists of delegations                                                    *)

Entries(A) == [owner : A, amount : Nat]
OneEach(s) == \A i, j \in DOMAIN s : s[i].owner = s[j].owner => i = j
Descending(s) == \A i, j \in DOMAIN s : i < j => s[i].amount >= s[j].amount

\* A list as it should be: sorted, of one delegation for each owner.
Orderly(s, A) == s \in Seq(Entries(A)) /\ OneEach(s) /\ Descending(s)

LEMMA Interval ==
    ASSUME NEW n \in Nat, NEW D \in SUBSET (1 .. n),
           \A i \in D, j \in 1 .. n : j <= i => j \in D
    PROVE  \E m \in 0 .. n : D = 1 .. m /\ Cardinality(D) = m
<1> DEFINE T == {i \in 1 .. n + 1 : i \notin D}
<1>1. n + 1 \in T /\ T \in SUBSET Nat
  OBVIOUS
<1>2. PICK k \in T : \A i \in T : k <= i
  BY <1>1, LeastOf
<1>3. PICK m \in 0 .. n : m = k - 1
  BY <1>2
<1>4. D = 1 .. m
  <2>1. ASSUME NEW i \in D PROVE i \in 1 .. m
    <3>1. CASE i >= k
      BY <1>2, <1>3, <3>1
    <3>2. CASE i < k
      BY <1>2, <1>3, <3>2
    <3> QED BY <1>2, <1>3, <3>1, <3>2
  <2>2. ASSUME NEW i \in 1 .. m PROVE i \in D
    BY <1>2, <1>3
  <2> QED BY <2>1, <2>2
<1>5. Cardinality(1 .. m) = m
  BY FS_Interval
<1> QED BY <1>4, <1>5

LEMMA Part ==
    ASSUME NEW R, NEW s \in Seq(R), NEW a \in Nat \ {0}, NEW b \in Nat, a <= b + 1, b <= Len(s)
    PROVE  /\ SubSeq(s, a, b) \in Seq(R) /\ Len(SubSeq(s, a, b)) = (b + 1) - a
           /\ \A i \in 1 .. (b + 1) - a : SubSeq(s, a, b)[i] = s[(a + i) - 1]
<1>1. Len(s) \in Nat
  OBVIOUS
<1>2. \A i \in a .. b : s[i] \in R
  BY <1>1
<1>3. /\ SubSeq(s, a, b) \in Seq(R)
      /\ Len(SubSeq(s, a, b)) = IF a <= b THEN b - a + 1 ELSE 0
      /\ \A i \in 1 .. b - a + 1 : SubSeq(s, a, b)[i] = s[a + i - 1]
  BY <1>1, <1>2, SubSeqProperties
<1>4. b - a + 1 = (b + 1) - a /\ (a <= b \/ (b + 1) - a = 0)
  OBVIOUS
<1> QED BY <1>3, <1>4

\* u is s and then t.
IsJoin(u, s, t) ==
    /\ Len(u) = Len(s) + Len(t)
    /\ \A i \in 1 .. Len(s) : u[i] = s[i]
    /\ \A i \in 1 .. Len(t) : u[Len(s) + i] = t[i]

\* u is s with e at p.
IsInsertion(u, s, p, e) ==
    /\ Len(u) = Len(s) + 1
    /\ \A i \in 1 .. p - 1 : u[i] = s[i]
    /\ u[p] = e
    /\ \A i \in p .. Len(s) : u[i + 1] = s[i]

\* u is s without what it has at p.
IsRemoval(u, s, p) ==
    /\ Len(u) = Len(s) - 1
    /\ \A i \in 1 .. p - 1 : u[i] = s[i]
    /\ \A i \in p .. Len(s) - 1 : u[i] = s[i + 1]

LEMMA Joined ==
    ASSUME NEW R, NEW s \in Seq(R), NEW t \in Seq(R)
    PROVE  s \o t \in Seq(R) /\ IsJoin(s \o t, s, t)
<1>1. /\ s \o t \in Seq(R) /\ Len(s \o t) = Len(s) + Len(t)
      /\ \A i \in 1 .. Len(s) + Len(t) : (s \o t)[i] = IF i <= Len(s) THEN s[i] ELSE t[i - Len(s)]
  BY ConcatProperties
<1>2. PICK k \in Nat, l \in Nat : k = Len(s) /\ l = Len(t)
  OBVIOUS
<1>3. \A i \in 1 .. l : k + i \in 1 .. k + l /\ ~(k + i <= k) /\ (k + i) - k = i
  OBVIOUS
<1>4. \A i \in 1 .. k : i \in 1 .. k + l /\ i <= k
  OBVIOUS
<1> QED BY <1>1, <1>2, <1>3, <1>4 DEF IsJoin

LEMMA InsertedAt ==
    ASSUME NEW R, NEW s \in Seq(R), NEW e \in R, NEW p \in 1 .. Len(s) + 1
    PROVE  InsertAt(s, p, e) \in Seq(R) /\ IsInsertion(InsertAt(s, p, e), s, p, e)
<1> DEFINE a == SubSeq(s, 1, p - 1)
           b == SubSeq(s, p, Len(s))
           c == a \o <<e>>
           t == c \o b
<1>0. PICK n \in Nat, m \in Nat : n = Len(s) /\ m = p - 1 /\ p = m + 1 /\ m <= n
  OBVIOUS
<1>1. a \in Seq(R) /\ Len(a) = m /\ \A i \in 1 .. m : a[i] = s[i]
  <2>1. /\ SubSeq(s, 1, m) \in Seq(R) /\ Len(SubSeq(s, 1, m)) = (m + 1) - 1
        /\ \A i \in 1 .. (m + 1) - 1 : SubSeq(s, 1, m)[i] = s[(1 + i) - 1]
    BY <1>0, Part
  <2> QED BY <1>0, <2>1
<1>2. b \in Seq(R) /\ Len(b) = n - m /\ \A i \in 1 .. n - m : b[i] = s[m + i]
  <2>1. /\ b \in Seq(R) /\ Len(b) = (n + 1) - p
        /\ \A i \in 1 .. (n + 1) - p : b[i] = s[(p + i) - 1]
    BY <1>0, Part
  <2>2. (n + 1) - p = n - m /\ \A i \in 1 .. n - m : (p + i) - 1 = m + i
    BY <1>0
  <2> HIDE DEF b
  <2> QED BY <2>1, <2>2
<1>3. InsertAt(s, p, e) = t
  BY DEF InsertAt
<1> HIDE DEF a, b
<1>4. /\ c \in Seq(R) /\ Len(c) = p
      /\ \A i \in 1 .. m : c[i] = a[i]
      /\ c[p] = e
  <2>1. <<e>> \in Seq(R) /\ Len(<<e>>) = 1 /\ <<e>>[1] = e
    OBVIOUS
  <2>2. PICK u \in Seq(R) : u = <<e>> /\ Len(u) = 1 /\ u[1] = e
    BY <2>1
  <2>3. c \in Seq(R) /\ IsJoin(c, a, u)
    BY <1>1, <2>2, Joined
  <2> HIDE DEF c
  <2> QED BY <1>0, <1>1, <2>2, <2>3 DEF IsJoin
<1> HIDE DEF c
<1>5. /\ t \in Seq(R) /\ Len(t) = p + (n - m)
      /\ \A i \in 1 .. p : t[i] = c[i]
      /\ \A i \in 1 .. n - m : t[p + i] = b[i]
  <2>1. t \in Seq(R) /\ IsJoin(t, c, b)
    BY <1>2, <1>4, Joined
  <2> HIDE DEF t
  <2> QED BY <1>2, <1>4, <2>1 DEF IsJoin
<1> HIDE DEF t
<1>6. \A i \in 1 .. p - 1 : t[i] = s[i]
  <2> TAKE i \in 1 .. p - 1
  <2>1. i \in 1 .. m /\ i \in 1 .. p
    BY <1>0
  <2>2. t[i] = c[i] /\ c[i] = a[i] /\ a[i] = s[i]
    BY ONLY <2>1, <1>1, <1>4, <1>5
  <2> QED BY <2>2
<1>7. t[p] = e
  BY <1>4, <1>5
<1>8. \A i \in p .. n : t[i + 1] = s[i]
  <2> TAKE i \in p .. n
  <2>1. PICK k \in 1 .. n - m : i = m + k
    BY <1>0
  <2>2. t[p + k] = b[k] /\ b[k] = s[m + k]
    BY <1>2, <1>5
  <2>3. p + k = i + 1
    BY <1>0, <2>1
  <2> QED BY <2>1, <2>2, <2>3
<1>9. p + (n - m) = n + 1
  BY <1>0
<1> QED BY <1>0, <1>3, <1>5, <1>6, <1>7, <1>8, <1>9 DEF IsInsertion

LEMMA RemovedAt ==
    ASSUME NEW R, NEW s \in Seq(R), NEW k \in 1 .. Len(s)
    PROVE  RemoveAt(s, k) \in Seq(R) /\ IsRemoval(RemoveAt(s, k), s, k)
<1> DEFINE a == SubSeq(s, 1, k - 1)
           b == SubSeq(s, k + 1, Len(s))
           t == a \o b
<1>0. PICK n \in Nat, h \in Nat, l \in Nat : n = Len(s) /\ h = k - 1 /\ l = n - k /\ k = h + 1 /\ n = k + l
  OBVIOUS
<1>1. a \in Seq(R) /\ Len(a) = h /\ \A i \in 1 .. h : a[i] = s[i]
  <2>1. /\ SubSeq(s, 1, h) \in Seq(R) /\ Len(SubSeq(s, 1, h)) = (h + 1) - 1
        /\ \A i \in 1 .. (h + 1) - 1 : SubSeq(s, 1, h)[i] = s[(1 + i) - 1]
    BY <1>0, Part
  <2> QED BY <1>0, <2>1
<1>2. b \in Seq(R) /\ Len(b) = l /\ \A i \in 1 .. l : b[i] = s[k + i]
  <2>1. PICK q \in Nat \ {0} : q = k + 1 /\ q <= n + 1
    BY <1>0
  <2>2. /\ SubSeq(s, q, n) \in Seq(R) /\ Len(SubSeq(s, q, n)) = (n + 1) - q
        /\ \A i \in 1 .. (n + 1) - q : SubSeq(s, q, n)[i] = s[(q + i) - 1]
    BY <1>0, <2>1, Part
  <2>3. (n + 1) - q = l /\ \A i \in 1 .. l : (q + i) - 1 = k + i
    BY <1>0, <2>1
  <2>4. b = SubSeq(s, q, n)
    BY <1>0, <2>1
  <2> HIDE DEF b
  <2> QED BY <2>2, <2>3, <2>4
<1>3. RemoveAt(s, k) = t
  BY DEF RemoveAt
<1> HIDE DEF a, b
<1>4. /\ t \in Seq(R) /\ Len(t) = h + l
      /\ \A i \in 1 .. h : t[i] = a[i]
      /\ \A i \in 1 .. l : t[h + i] = b[i]
  <2>1. t \in Seq(R) /\ IsJoin(t, a, b)
    BY <1>1, <1>2, Joined
  <2> HIDE DEF t
  <2> QED BY <1>1, <1>2, <2>1 DEF IsJoin
<1> HIDE DEF t
<1>5. \A i \in 1 .. k - 1 : t[i] = s[i]
  BY <1>0, <1>1, <1>4
<1>6. \A i \in k .. n - 1 : t[i] = s[i + 1]
  <2> TAKE i \in k .. n - 1
  <2>1. PICK j \in 1 .. l : i = h + j
    BY <1>0
  <2>2. t[h + j] = b[j] /\ b[j] = s[k + j]
    BY <1>2, <1>4
  <2>3. k + j = i + 1
    BY <1>0, <2>1
  <2> QED BY <2>1, <2>2, <2>3
<1>7. h + l = n - 1
  BY <1>0
<1> QED BY <1>0, <1>3, <1>4, <1>5, <1>6, <1>7 DEF IsRemoval

LEMMA InsertOrderly ==
    ASSUME NEW A, NEW s, Orderly(s, A), NEW e \in Entries(A),
           \A x \in ToSet(s) : x.owner # e.owner
    PROVE  Orderly(InsertSorted(s, e), A) /\ ToSet(InsertSorted(s, e)) = ToSet(s) \cup {e}
<1> DEFINE n == Len(s)
           D == {i \in DOMAIN s : s[i].amount >= e.amount}
<1>1. s \in Seq(Entries(A)) /\ n \in Nat /\ DOMAIN s = 1 .. n
  BY DEF Orderly
<1>2. \A i \in 1 .. n : s[i] \in Entries(A) /\ s[i].amount \in Nat /\ s[i] \in ToSet(s)
  <2>1. \A i \in 1 .. n : s[i] \in Entries(A)
    BY <1>1
  <2> HIDE DEF n
  <2> QED BY <1>1, <2>1 DEF Entries, ToSet
<1>3. PICK m \in 0 .. n : D = 1 .. m /\ Cardinality(D) = m
  <2>1. D \in SUBSET (1 .. n)
    BY <1>1
  <2>2. ASSUME NEW i \in D, NEW j \in 1 .. n, j <= i PROVE j \in D
    <3>1. s[j].amount >= s[i].amount
      BY <1>1, <1>2, <2>2 DEF Orderly, Descending
    <3> QED BY <1>1, <1>2, <3>1 DEF Entries
  <2> HIDE DEF D
  <2> QED BY <1>1, <2>1, <2>2, Interval
<1>4. \A i \in 1 .. n : i <= m <=> s[i].amount >= e.amount
  BY <1>1, <1>3
<1> DEFINE t == InsertAt(s, m + 1, e)
<1>5. InsertSorted(s, e) = t
  BY <1>3 DEF InsertSorted
<1>6. /\ t \in Seq(Entries(A)) /\ Len(t) = n + 1
      /\ \A i \in 1 .. m : t[i] = s[i]
      /\ t[m + 1] = e
      /\ \A i \in m + 1 .. n : t[i + 1] = s[i]
  <2>1. PICK p \in 1 .. n + 1 : p = m + 1
    BY <1>1
  <2>2. t \in Seq(Entries(A)) /\ IsInsertion(t, s, p, e)
    BY <1>1, <2>1, InsertedAt
  <2>3. p - 1 = m
    BY <2>1
  <2> HIDE DEF t
  <2> QED BY <1>1, <2>1, <2>2, <2>3 DEF IsInsertion
<1> HIDE DEF t, D
<1>7. \A i \in 1 .. n + 1 : \/ i \in 1 .. m /\ t[i] = s[i]
                            \/ i = m + 1 /\ t[i] = e
                            \/ i - 1 \in m + 1 .. n /\ t[i] = s[i - 1]
  <2> TAKE i \in 1 .. n + 1
  <2>1. i \in 1 .. m \/ i = m + 1 \/ (i - 1 \in m + 1 .. n /\ (i - 1) + 1 = i)
    BY <1>1, <1>3
  <2>2. CASE i - 1 \in m + 1 .. n /\ (i - 1) + 1 = i
    <3>1. t[(i - 1) + 1] = s[i - 1]
      BY <1>6, <2>2
    <3> QED BY <2>2, <3>1
  <2> QED BY <1>6, <2>1, <2>2
<1>8. DOMAIN t = 1 .. n + 1
  BY <1>1, <1>6
<1>9. ToSet(t) = ToSet(s) \cup {e}
  <2>1. ASSUME NEW x \in ToSet(t) PROVE x \in ToSet(s) \cup {e}
    <3>1. PICK i \in 1 .. n + 1 : x = t[i]
      BY <1>8 DEF ToSet
    <3> QED BY <1>1, <1>2, <1>7, <3>1
  <2>2. ASSUME NEW i \in 1 .. n PROVE s[i] \in ToSet(t)
    <3>1. CASE i <= m
      BY <1>1, <1>3, <1>6, <1>8, <3>1 DEF ToSet
    <3>2. CASE i > m
      <4>1. t[i + 1] = s[i] /\ i + 1 \in 1 .. n + 1
        BY <1>1, <1>3, <1>6, <3>2
      <4> QED BY <1>8, <4>1 DEF ToSet
    <3> QED BY <1>1, <1>3, <3>1, <3>2
  <2>3. e \in ToSet(t)
    BY <1>1, <1>3, <1>6, <1>8 DEF ToSet
  <2>4. ToSet(s) = {s[i] : i \in 1 .. n}
    BY <1>1 DEF ToSet
  <2> QED BY <2>1, <2>2, <2>3, <2>4
<1>10. OneEach(t)
  <2> SUFFICES ASSUME NEW i \in 1 .. n + 1, NEW j \in 1 .. n + 1, t[i].owner = t[j].owner
               PROVE  i = j
    BY <1>8 DEF OneEach
  <2>1. \A k, l \in 1 .. n : s[k].owner = s[l].owner => k = l
    BY <1>1 DEF Orderly, OneEach
  <2>2. \A k \in 1 .. n : s[k].owner # e.owner
    BY <1>2
  <2>3. CASE i = m + 1
    <3>0. ASSUME NEW k \in 1 .. n, t[j] = s[k] PROVE FALSE
      BY <1>6, <2>2, <2>3, <3>0
    <3>1. j = m + 1
      BY <1>1, <1>3, <1>7, <3>0
    <3> QED BY <2>3, <3>1
  <2>4. CASE j = m + 1
    <3>0. ASSUME NEW k \in 1 .. n, t[i] = s[k] PROVE FALSE
      BY <1>6, <2>2, <2>4, <3>0
    <3>1. i = m + 1
      BY <1>1, <1>3, <1>7, <3>0
    <3> QED BY <2>4, <3>1
  <2>5. CASE i # m + 1 /\ j # m + 1
    <3>1. PICK k \in 1 .. n : t[i] = s[k] /\ k = IF i <= m THEN i ELSE i - 1
      BY <1>1, <1>3, <1>7, <2>5
    <3>2. PICK l \in 1 .. n : t[j] = s[l] /\ l = IF j <= m THEN j ELSE j - 1
      BY <1>1, <1>3, <1>7, <2>5
    <3>3. k = l
      BY <2>1, <3>1, <3>2
    <3> QED BY <1>1, <1>3, <2>5, <3>1, <3>2, <3>3
  <2> QED BY <2>3, <2>4, <2>5
<1>11. Descending(t)
  <2> SUFFICES ASSUME NEW i \in 1 .. n + 1, NEW j \in 1 .. n + 1, i < j
               PROVE  t[i].amount >= t[j].amount
    BY <1>8 DEF Descending
  <2>1. \A k, l \in 1 .. n : k < l => s[k].amount >= s[l].amount
    BY <1>1 DEF Orderly, Descending
  <2>2. e.amount \in Nat
    BY DEF Entries
  <2>3. CASE i \in 1 .. m /\ t[i] = s[i]
    <3>1. s[i].amount \in Nat /\ s[i].amount >= e.amount
      BY <1>1, <1>2, <1>3, <1>4, <2>3
    <3>2. CASE j \in 1 .. m /\ t[j] = s[j]
      BY <1>1, <1>3, <2>1, <2>3, <3>2
    <3>3. CASE j = m + 1 /\ t[j] = e
      BY <2>3, <3>1, <3>3
    <3>4. CASE j - 1 \in m + 1 .. n /\ t[j] = s[j - 1]
      <4>1. i < j - 1 /\ i \in 1 .. n /\ j - 1 \in 1 .. n
        BY <1>1, <1>3, <2>3, <3>4
      <4> QED BY <2>1, <2>3, <3>4, <4>1
    <3> QED BY <1>7, <3>2, <3>3, <3>4
  <2>4. CASE i = m + 1 /\ t[i] = e
    <3>1. j - 1 \in m + 1 .. n /\ t[j] = s[j - 1]
      BY <1>1, <1>3, <1>7, <2>4
    <3>2. s[j - 1].amount \in Nat /\ ~(s[j - 1].amount >= e.amount)
      BY <1>1, <1>2, <1>3, <1>4, <3>1
    <3> QED BY <2>2, <2>4, <3>1, <3>2
  <2>5. CASE i - 1 \in m + 1 .. n /\ t[i] = s[i - 1]
    <3>1. j - 1 \in m + 1 .. n /\ t[j] = s[j - 1]
      BY <1>1, <1>3, <1>7, <2>5
    <3>2. i - 1 < j - 1 /\ i - 1 \in 1 .. n /\ j - 1 \in 1 .. n
      BY <1>1, <1>3, <2>5, <3>1
    <3> QED BY <2>1, <2>5, <3>1, <3>2
  <2> QED BY <1>7, <2>3, <2>4, <2>5
<1> QED BY <1>5, <1>6, <1>9, <1>10, <1>11 DEF Orderly

\* What is used of a list in order.
LEMMA ListFacts ==
    ASSUME NEW A, NEW s, Orderly(s, A)
    PROVE  /\ s \in Seq(Entries(A)) /\ Len(s) \in Nat /\ DOMAIN s = 1 .. Len(s)
           /\ \A i \in 1 .. Len(s) : s[i] \in Entries(A) /\ s[i] \in ToSet(s)
           /\ \A x \in ToSet(s) : \E i \in 1 .. Len(s) : x = s[i]
<1>1. s \in Seq(Entries(A)) /\ Len(s) \in Nat /\ DOMAIN s = 1 .. Len(s)
  BY DEF Orderly
<1>2. \A i \in 1 .. Len(s) : s[i] \in Entries(A)
  BY <1>1
<1>3. ToSet(s) = {s[i] : i \in 1 .. Len(s)}
  BY <1>1 DEF ToSet
<1> QED BY <1>1, <1>2, <1>3

LEMMA ItemsDiffer ==
    ASSUME NEW A, NEW s, Orderly(s, A)
    PROVE  /\ ToSet(s) \subseteq Entries(A)
           /\ \A x, y \in ToSet(s) : x.owner = y.owner => x = y
           /\ \A x \in ToSet(s) : x.owner \in A /\ x.amount \in Nat
<1>1. \A i, j \in 1 .. Len(s) : s[i].owner = s[j].owner => i = j
  BY ListFacts DEF Orderly, OneEach
<1>2. \A x \in ToSet(s) : \E i \in 1 .. Len(s) : x = s[i] /\ s[i] \in Entries(A)
  BY ListFacts
<1>3. \A x \in ToSet(s) : x \in Entries(A)
  BY <1>2
<1>4. \A x, y \in ToSet(s) : x.owner = y.owner => x = y
  BY <1>1, <1>2
<1> QED BY <1>3, <1>4 DEF Entries

\* The list that has lost what was at k.
LEMMA RemovalOrderly ==
    ASSUME NEW A, NEW s, Orderly(s, A), NEW k \in 1 .. Len(s),
           NEW t \in Seq(Entries(A)), IsRemoval(t, s, k)
    PROVE  Orderly(t, A) /\ ToSet(t) = ToSet(s) \ {s[k]}
<1>1. PICK n \in Nat : n = Len(s) /\ DOMAIN s = 1 .. n
  BY ListFacts
<1>2. /\ Len(t) = n - 1 /\ DOMAIN t = 1 .. n - 1
      /\ \A i \in 1 .. k - 1 : t[i] = s[i]
      /\ \A i \in k .. n - 1 : t[i] = s[i + 1]
  BY <1>1 DEF IsRemoval
<1> DEFINE Old(i) == IF i < k THEN i ELSE i + 1
<1>3. \A i \in 1 .. n - 1 : Old(i) \in 1 .. n /\ Old(i) # k /\ t[i] = s[Old(i)]
  BY <1>1, <1>2
<1>4. \A i, j \in 1 .. n - 1 : /\ i < j => Old(i) < Old(j)
                               /\ Old(i) = Old(j) => i = j
  OBVIOUS
<1>5. \A j \in 1 .. n \ {k} : \E i \in 1 .. n - 1 : j = Old(i)
  <2> TAKE j \in 1 .. n \ {k}
  <2>1. CASE j < k
    <3>1. j \in 1 .. n - 1 /\ j = Old(j)
      BY <1>1, <2>1
    <3> QED BY <3>1
  <2>2. CASE j > k
    <3>1. j - 1 \in 1 .. n - 1 /\ j = Old(j - 1)
      BY <1>1, <2>2
    <3> QED BY <3>1
  <2> QED BY <1>1, <2>1, <2>2
<1>6. \A i, j \in 1 .. n : /\ s[i].owner = s[j].owner => i = j
                           /\ i < j => s[i].amount >= s[j].amount
  BY <1>1 DEF Orderly, OneEach, Descending
<1> HIDE DEF Old
<1>7. OneEach(t)
  <2> SUFFICES ASSUME NEW i \in 1 .. n - 1, NEW j \in 1 .. n - 1, t[i].owner = t[j].owner
               PROVE  i = j
    BY <1>2 DEF OneEach
  <2>1. PICK k1 \in 1 .. n : k1 = Old(i) /\ t[i] = s[k1]
    BY <1>3
  <2>2. PICK k2 \in 1 .. n : k2 = Old(j) /\ t[j] = s[k2]
    BY <1>3
  <2>3. k1 = k2
    BY <1>6, <2>1, <2>2
  <2> QED BY <1>4, <2>1, <2>2, <2>3
<1>8. Descending(t)
  <2> SUFFICES ASSUME NEW i \in 1 .. n - 1, NEW j \in 1 .. n - 1, i < j
               PROVE  t[i].amount >= t[j].amount
    BY <1>2 DEF Descending
  <2>1. PICK k1 \in 1 .. n : k1 = Old(i) /\ t[i] = s[k1]
    BY <1>3
  <2>2. PICK k2 \in 1 .. n : k2 = Old(j) /\ t[j] = s[k2]
    BY <1>3
  <2>3. k1 < k2
    BY <1>4, <2>1, <2>2
  <2> QED BY <1>6, <2>1, <2>2, <2>3
<1>9. ToSet(t) = ToSet(s) \ {s[k]}
  <2>1. ToSet(t) = {t[i] : i \in 1 .. n - 1} /\ ToSet(s) = {s[i] : i \in 1 .. n}
    BY <1>1, <1>2 DEF ToSet
  <2>2. \A i \in 1 .. n : s[i] = s[k] => i = k
    BY <1>1, <1>6
  <2>3. ASSUME NEW x \in ToSet(t) PROVE x \in ToSet(s) \ {s[k]}
    <3>1. PICK i \in 1 .. n - 1 : x = t[i]
      BY <2>1
    <3>2. PICK j \in 1 .. n : j = Old(i) /\ j # k /\ x = s[j]
      BY <1>3, <3>1
    <3> QED BY <2>1, <2>2, <3>2
  <2>4. ASSUME NEW x \in ToSet(s) \ {s[k]} PROVE x \in ToSet(t)
    <3>1. PICK j \in 1 .. n : x = s[j] /\ j # k
      BY <2>1
    <3>2. PICK i \in 1 .. n - 1 : j = Old(i)
      BY <1>5, <3>1
    <3> QED BY <1>3, <2>1, <3>1, <3>2
  <2> QED BY <2>3, <2>4
<1> QED BY <1>7, <1>8, <1>9 DEF Orderly

LEMMA WithoutOrderly ==
    ASSUME NEW A, NEW list, Orderly(list.delegations, A),
           NEW e \in ToSet(list.delegations)
    PROVE  /\ Orderly(Without(list, e.owner).delegations, A)
           /\ ToSet(Without(list, e.owner).delegations) = ToSet(list.delegations) \ {e}
           /\ Without(list, e.owner).total = list.total - e.amount
<1> DEFINE s == list.delegations
           k == CHOOSE i \in DOMAIN s : s[i].owner = e.owner
<1>1. PICK i \in 1 .. Len(s) : e = s[i]
  BY ListFacts
<1>2. k \in 1 .. Len(s) /\ s[k].owner = e.owner
  BY <1>1, ListFacts
<1>3. s[k] = e
  BY <1>1, <1>2, ListFacts, ItemsDiffer
<1>4. /\ Without(list, e.owner).delegations = RemoveAt(s, k)
      /\ Without(list, e.owner).total = list.total - s[k].amount
  BY DEF Without
<1> HIDE DEF k, s
<1>5. RemoveAt(s, k) \in Seq(Entries(A)) /\ IsRemoval(RemoveAt(s, k), s, k)
  <2>1. s \in Seq(Entries(A))
    BY ListFacts DEF s
  <2> QED BY <1>2, <2>1, RemovedAt
<1>6. Orderly(RemoveAt(s, k), A) /\ ToSet(RemoveAt(s, k)) = ToSet(s) \ {s[k]}
  BY <1>2, <1>5, RemovalOrderly DEF s
<1> QED BY <1>3, <1>4, <1>6 DEF s

LEMMA EndsOrderly ==
    ASSUME NEW A, NEW s, Orderly(s, A), s # <<>>
    PROVE  /\ Orderly(Front(s), A) /\ ToSet(Front(s)) = ToSet(s) \ {Last(s)}
           /\ Orderly(Tail(s), A) /\ ToSet(Tail(s)) = ToSet(s) \ {Head(s)}
<1>1. PICK n \in Nat \ {0} : n = Len(s) /\ s \in Seq(Entries(A))
  BY ListFacts
<1>2. Front(s) \in Seq(Entries(A)) /\ IsRemoval(Front(s), s, n)
  <2>1. PICK m \in Nat : m = n - 1 /\ n = m + 1
    BY <1>1
  <2>2. Front(s) = SubSeq(s, 1, m)
    BY <1>1, <2>1 DEF Front
  <2>3. /\ SubSeq(s, 1, m) \in Seq(Entries(A)) /\ Len(SubSeq(s, 1, m)) = (m + 1) - 1
        /\ \A i \in 1 .. (m + 1) - 1 : SubSeq(s, 1, m)[i] = s[(1 + i) - 1]
    BY <1>1, <2>1, Part
  <2>4. \A i \in 1 .. n - 1 : (1 + i) - 1 = i /\ i \in 1 .. (m + 1) - 1
    BY <2>1
  <2>5. Len(SubSeq(s, 1, m)) = n - 1 /\ n .. n - 1 = {}
    BY <2>1, <2>3
  <2> QED BY <1>1, <2>2, <2>3, <2>4, <2>5 DEF IsRemoval
<1>3. Tail(s) \in Seq(Entries(A)) /\ IsRemoval(Tail(s), s, 1)
  <2>1. Tail(s) \in Seq(Entries(A)) /\ Len(Tail(s)) = n - 1 /\ \A i \in 1 .. n - 1 : Tail(s)[i] = s[i + 1]
    BY <1>1
  <2>2. 1 .. 1 - 1 = {}
    OBVIOUS
  <2> QED BY <1>1, <2>1, <2>2 DEF IsRemoval
<1>4. Last(s) = s[n] /\ Head(s) = s[1] /\ 1 \in 1 .. Len(s) /\ n \in 1 .. Len(s)
  BY <1>1 DEF Last
<1>5. Orderly(Front(s), A) /\ ToSet(Front(s)) = ToSet(s) \ {s[n]}
  BY <1>2, <1>4, RemovalOrderly
<1>6. Orderly(Tail(s), A) /\ ToSet(Tail(s)) = ToSet(s) \ {s[1]}
  <2>1. PICK one \in 1 .. Len(s) : one = 1
    BY <1>4
  <2>2. PICK t \in Seq(Entries(A)) : t = Tail(s) /\ IsRemoval(t, s, one)
    BY <1>3, <2>1
  <2>3. Orderly(t, A) /\ ToSet(t) = ToSet(s) \ {s[one]}
    BY <2>2, ZenonT(30), RemovalOrderly
  <2> QED BY <2>1, <2>2, <2>3
<1> QED BY <1>4, <1>5, <1>6

LEMMA EndsExtreme ==
    ASSUME NEW A, NEW s, Orderly(s, A), s # <<>>
    PROVE  /\ Last(s) \in ToSet(s) /\ \A x \in ToSet(s) : x.amount >= Last(s).amount
           /\ Head(s) \in ToSet(s) /\ \A x \in ToSet(s) : x.amount <= Head(s).amount
<1>1. PICK n \in Nat \ {0} : n = Len(s) /\ s \in Seq(Entries(A))
  BY ListFacts
<1>2. Last(s) = s[n] /\ Head(s) = s[1] /\ 1 \in 1 .. Len(s) /\ n \in 1 .. Len(s)
  BY <1>1 DEF Last
<1>3. \A i, j \in 1 .. n : i < j => s[i].amount >= s[j].amount
  BY <1>1 DEF Orderly, Descending
<1>4. \A i \in 1 .. n : s[i].amount \in Nat
  BY <1>1, ListFacts DEF Entries
<1>5. \A i \in 1 .. n : s[i].amount >= s[n].amount /\ s[i].amount <= s[1].amount
  <2> TAKE i \in 1 .. n
  <2>1. i = 1 \/ 1 < i
    OBVIOUS
  <2>2. i = n \/ i < n
    OBVIOUS
  <2> QED BY <1>1, <1>3, <1>4, <2>1, <2>2
<1> QED BY <1>1, <1>2, <1>5, ListFacts

LEMMA EmptyItems ==
    ASSUME NEW A, NEW s, Orderly(s, A)
    PROVE  /\ IsFiniteSet(ToSet(s)) /\ Cardinality(ToSet(s)) = Len(s)
           /\ s = <<>> <=> ToSet(s) = {}
           /\ s = <<>> <=> Len(s) = 0
<1>1. PICK n \in Nat : n = Len(s) /\ s \in Seq(Entries(A)) /\ ToSet(s) = {s[i] : i \in 1 .. n}
  <2>1. ToSet(s) = {s[i] : i \in 1 .. Len(s)}
    BY ListFacts
  <2> QED BY <2>1, ListFacts
<1>2. s = <<>> <=> n = 0
  BY <1>1
<1>3. \A i, j \in 1 .. n : s[i] = s[j] => i = j
  BY <1>1 DEF Orderly, OneEach
<1> DEFINE f == [i \in 1 .. n |-> s[i]]
           T == ToSet(s)
<1>4. f \in Bijection(1 .. n, T)
  <2>1. f \in [1 .. n -> T] /\ \A x \in T : \E i \in 1 .. n : f[i] = x
    BY <1>1
  <2>2. \A i, j \in DOMAIN f : f[i] = f[j] => i = j
    BY <1>3
  <2> HIDE DEF f, T
  <2> QED BY <2>1, <2>2 DEF Bijection, Injection, Surjection, IsInjective
<1>5. IsFiniteSet(1 .. n) /\ Cardinality(1 .. n) = n
  BY FS_Interval
<1>6. IsFiniteSet(T) /\ Cardinality(T) = n
  <2> HIDE DEF f, T
  <2>1. ExistsBijection(1 .. n, T)
    BY <1>4 DEF ExistsBijection
  <2> QED BY <1>5, <2>1, FS_Bijection
<1>7. T = {} <=> n = 0
  <2>1. n # 0 => 1 \in 1 .. n
    OBVIOUS
  <2>2. n = 0 => 1 .. n = {}
    OBVIOUS
  <2> QED BY <1>1, <2>1, <2>2
<1> QED BY <1>1, <1>2, <1>6, <1>7

\* Sorting keeps the delegations, and puts them in order.
LEMMA SortOrderly ==
    ASSUME NEW A, NEW s \in Seq(Entries(A)), OneEach(s)
    PROVE  /\ Orderly(SortGreatestToLeast(s), A)
           /\ ToSet(SortGreatestToLeast(s)) = ToSet(s)
<1>1. PICK n \in Nat : n = Len(s) /\ DOMAIN s = 1 .. n
  OBVIOUS
<1>2. \A i \in 1 .. n : s[i] \in Entries(A) /\ s[i].amount \in Nat
  <2>1. \A i \in 1 .. n : s[i] \in Entries(A)
    BY <1>1
  <2> QED BY <2>1 DEF Entries
<1> DEFINE Ahead(i) == {j \in DOMAIN s : \/ s[j].amount > s[i].amount
                                         \/ s[j].amount = s[i].amount /\ j <= i}
           Place(i) == Cardinality(Ahead(i))
           t == [k \in DOMAIN s |-> s[CHOOSE i \in DOMAIN s : Place(i) = k]]
<1>3. SortGreatestToLeast(s) = t
  BY DEF SortGreatestToLeast
<1>4. \A i \in 1 .. n : Ahead(i) \in SUBSET (1 .. n) /\ i \in Ahead(i)
  BY <1>1, <1>2
<1>5. \A i, j \in 1 .. n : \/ Ahead(i) \subseteq Ahead(j) /\ j \notin Ahead(i) /\ s[i].amount >= s[j].amount
                           \/ Ahead(j) \subseteq Ahead(i) /\ i \notin Ahead(j) /\ s[j].amount >= s[i].amount
                           \/ i = j
  BY <1>1, <1>2
<1>6. IsFiniteSet(1 .. n) /\ Cardinality(1 .. n) = n
  BY FS_Interval
<1> HIDE DEF Ahead
<1>7. \A i \in 1 .. n : IsFiniteSet(Ahead(i)) /\ Place(i) \in 1 .. n
  <2> TAKE i \in 1 .. n
  <2>1. IsFiniteSet(Ahead(i)) /\ Place(i) <= n
    BY <1>4, <1>6, FS_Subset
  <2>2. Place(i) \in Nat /\ Place(i) # 0
    BY <1>4, <2>1, FS_CardinalityType, FS_EmptySet
  <2> QED BY <2>1, <2>2
<1>8. \A i, j \in 1 .. n : Ahead(i) \subseteq Ahead(j) /\ j \notin Ahead(i) => Place(i) < Place(j)
  <2> TAKE i, j \in 1 .. n
  <2> HAVE Ahead(i) \subseteq Ahead(j) /\ j \notin Ahead(i)
  <2>1. Place(i) <= Place(j) /\ (Place(j) = Place(i) => Ahead(j) = Ahead(i))
    BY <1>7, FS_Subset
  <2>2. Ahead(j) # Ahead(i)
    BY <1>4
  <2> HIDE DEF Place
  <2> QED BY <1>7, <2>1, <2>2
<1>9. \A i, j \in 1 .. n : /\ Place(i) = Place(j) => i = j
                           /\ Place(i) < Place(j) => s[i].amount >= s[j].amount
  <2> TAKE i, j \in 1 .. n
  <2>1. CASE Ahead(i) \subseteq Ahead(j) /\ j \notin Ahead(i) /\ s[i].amount >= s[j].amount
    <3>1. Place(i) < Place(j)
      BY <1>8, <2>1
    <3> HIDE DEF Place
    <3> QED BY <1>7, <2>1, <3>1
  <2>2. CASE Ahead(j) \subseteq Ahead(i) /\ i \notin Ahead(j) /\ s[j].amount >= s[i].amount
    <3>1. Place(j) < Place(i)
      BY <1>8, <2>2
    <3> HIDE DEF Place
    <3> QED BY <1>7, <2>2, <3>1
  <2>3. CASE i = j
    <3> HIDE DEF Place
    <3> QED BY <1>2, <1>7, <2>3
  <2> QED BY <1>5, <2>1, <2>2, <2>3
<1> HIDE DEF Place
<1>10. \A k \in 1 .. n : \E i \in 1 .. n : Place(i) = k
  <2> DEFINE f == [i \in 1 .. n |-> Place(i)]
  <2>1. f \in Injection(1 .. n, 1 .. n)
    <3>1. f \in [1 .. n -> 1 .. n] /\ \A i, j \in DOMAIN f : f[i] = f[j] => i = j
      BY <1>7, <1>9
    <3> HIDE DEF f
    <3> QED BY <3>1 DEF Injection, IsInjective
  <2>2. f \in Surjection(1 .. n, 1 .. n)
    BY <1>6, <2>1, FS_Injection
  <2> QED BY <2>2 DEF Surjection
<1>11. t \in Seq(Entries(A)) /\ Len(t) = n /\ DOMAIN t = 1 .. n
       /\ \A k \in 1 .. n : \E i \in 1 .. n : Place(i) = k /\ t[k] = s[i]
  <2>1. \A k \in 1 .. n : \E i \in 1 .. n : Place(i) = k /\ t[k] = s[i]
    BY <1>1, <1>10
  <2>2. t \in [1 .. n -> Entries(A)]
    BY <1>1, <1>2, <1>10
  <2> HIDE DEF t
  <2>3. t \in Seq(Entries(A))
    BY <2>2
  <2> QED BY <2>1, <2>2, <2>3
<1> HIDE DEF t
<1>12. OneEach(t)
  <2> SUFFICES ASSUME NEW k \in 1 .. n, NEW l \in 1 .. n, t[k].owner = t[l].owner PROVE k = l
    BY <1>11 DEF OneEach
  <2>1. PICK i \in 1 .. n : Place(i) = k /\ t[k] = s[i]
    BY <1>11
  <2>2. PICK j \in 1 .. n : Place(j) = l /\ t[l] = s[j]
    BY <1>11
  <2> QED BY <1>1, <2>1, <2>2 DEF OneEach
<1>13. Descending(t)
  <2> SUFFICES ASSUME NEW k \in 1 .. n, NEW l \in 1 .. n, k < l PROVE t[k].amount >= t[l].amount
    BY <1>11 DEF Descending
  <2>1. PICK i \in 1 .. n : Place(i) = k /\ t[k] = s[i]
    BY <1>11
  <2>2. PICK j \in 1 .. n : Place(j) = l /\ t[l] = s[j]
    BY <1>11
  <2> QED BY <1>9, <2>1, <2>2
<1>14. ToSet(t) = ToSet(s)
  <2>1. ToSet(t) = {t[k] : k \in 1 .. n} /\ ToSet(s) = {s[i] : i \in 1 .. n}
    BY <1>1, <1>11 DEF ToSet
  <2>2. ASSUME NEW i \in 1 .. n PROVE \E k \in 1 .. n : t[k] = s[i]
    <3>1. PICK k \in 1 .. n : Place(i) = k
      BY <1>7
    <3>2. PICK j \in 1 .. n : Place(j) = k /\ t[k] = s[j]
      BY <1>11
    <3> QED BY <1>9, <3>1, <3>2
  <2>3. ASSUME NEW k \in 1 .. n PROVE \E i \in 1 .. n : t[k] = s[i]
    BY <1>11
  <2> QED BY <2>1, <2>2, <2>3
<1> QED BY <1>3, <1>11, <1>12, <1>13, <1>14 DEF Orderly

Changed(e, amount) == [owner |-> e.owner, amount |-> amount]

LEMMA AdjustedOrderly ==
    ASSUME NEW A, NEW list, Orderly(list.delegations, A),
           NEW e \in ToSet(list.delegations), NEW delta \in Int, e.amount + delta \in Nat
    PROVE  /\ Orderly(Adjusted(list, e.owner, delta).delegations, A)
           /\ ToSet(Adjusted(list, e.owner, delta).delegations)
                = (ToSet(list.delegations) \ {e}) \cup {Changed(e, e.amount + delta)}
           /\ Adjusted(list, e.owner, delta).total = list.total + delta
<1> DEFINE s == list.delegations
           u == [i \in DOMAIN s |-> IF s[i].owner = e.owner
                                    THEN [s[i] EXCEPT !.amount = @ + delta] ELSE s[i]]
           z == Changed(e, e.amount + delta)
<1>1. PICK n \in Nat : n = Len(s) /\ DOMAIN s = 1 .. n
  BY ListFacts
<1>2. /\ Adjusted(list, e.owner, delta).delegations = SortGreatestToLeast(u)
      /\ Adjusted(list, e.owner, delta).total = list.total + delta
  BY DEF Adjusted
<1>3. PICK k \in 1 .. n : e = s[k]
  BY <1>1, ListFacts
<1>4. \A i \in 1 .. n : s[i].owner = e.owner => i = k
  BY <1>1, <1>3 DEF Orderly, OneEach
<1>5. \A i \in 1 .. n : s[i] \in Entries(A) /\ s[i] \in ToSet(s)
  BY <1>1, ListFacts
<1>6. [s[k] EXCEPT !.amount = @ + delta] = z /\ z \in Entries(A) /\ z.owner = e.owner
  BY <1>3, <1>5 DEF Entries, Changed
<1>7. \A i \in 1 .. n : u[i] = IF i = k THEN z ELSE s[i]
  BY <1>1, <1>3, <1>4, <1>6
<1>8. DOMAIN u = 1 .. n
  BY <1>1
<1> HIDE DEF u, z
<1>9. u \in Seq(Entries(A))
  <2>1. u \in [1 .. n -> Entries(A)]
    <3>1. u = [i \in 1 .. n |-> u[i]]
      BY <1>1 DEF u
    <3> QED BY <1>5, <1>6, <1>7, <3>1
  <2> QED BY <2>1
<1>10. OneEach(u)
  <2>1. \A i \in 1 .. n : u[i].owner = s[i].owner
    BY <1>3, <1>6, <1>7
  <2> QED BY <1>1, <1>8, <2>1 DEF Orderly, OneEach
<1>11. ToSet(u) = (ToSet(s) \ {e}) \cup {z}
  <2>1. ToSet(u) = {u[i] : i \in 1 .. n} /\ ToSet(s) = {s[i] : i \in 1 .. n}
    BY <1>1, <1>8 DEF ToSet
  <2>2. \A i \in 1 .. n : s[i] = e <=> i = k
    BY <1>3, <1>4
  <2> HIDE DEF s
  <2> QED BY <1>7, <2>1, <2>2
<1> QED BY <1>2, <1>9, <1>10, <1>11, SortOrderly DEF z, s

LEMMA AmountFound ==
    ASSUME NEW A, NEW list, Orderly(list.delegations, A), NEW e \in ToSet(list.delegations)
    PROVE  AmountOf(list, e.owner) = e.amount
<1> DEFINE x == CHOOSE d \in ToSet(list.delegations) : d.owner = e.owner
<1>1. x \in ToSet(list.delegations) /\ x.owner = e.owner
  OBVIOUS
<1>2. x = e
  BY <1>1, ItemsDiffer
<1> QED BY <1>2 DEF AmountOf

-----------------------------------------------------------------------------
(* What a set of delegations is worth                                      *)

Weight(S) == SumFunctionOnSet([e \in S |-> e.amount], S)

LEMMA WeightNat ==
    ASSUME NEW A, NEW S \in SUBSET Entries(A), IsFiniteSet(S)
    PROVE  Weight(S) \in Nat /\ \A e \in S : e.amount <= Weight(S)
<1> DEFINE f == [e \in S |-> e.amount]
<1>1. \A e \in S : f[e] = e.amount /\ f[e] \in Nat
  BY DEF Entries
<1> HIDE DEF f
<1>2. SumFunctionOnSet(f, S) \in Nat /\ \A e \in S : f[e] <= SumFunctionOnSet(f, S)
  BY <1>1, SumNat, SumCovers
<1> QED BY <1>1, <1>2 DEF Weight, f

LEMMA WeightTakes ==
    ASSUME NEW A, NEW S \in SUBSET Entries(A), IsFiniteSet(S), NEW e \in S
    PROVE  Weight(S) = e.amount + Weight(S \ {e})
<1> DEFINE f == [x \in S |-> x.amount]
           g == [x \in S \ {e} |-> x.amount]
<1>1. /\ \A x \in S : f[x] \in Int
      /\ \A x \in S \ {e} : f[x] \in Int /\ f[x] = g[x]
      /\ f[e] = e.amount
  BY DEF Entries
<1>2. IsFiniteSet(S \ {e})
  BY FS_RemoveElement
<1> HIDE DEF f, g
<1>3. SumFunctionOnSet(f, S) = f[e] + SumFunctionOnSet(f, S \ {e})
  BY <1>1, SumTakes
<1>4. SumFunctionOnSet(f, S \ {e}) = SumFunctionOnSet(g, S \ {e})
  BY <1>1, <1>2, SumAgrees
<1> QED BY <1>1, <1>3, <1>4 DEF Weight, f, g

LEMMA WeightAdds ==
    ASSUME NEW A, NEW S \in SUBSET Entries(A), IsFiniteSet(S), NEW e \in Entries(A), e \notin S
    PROVE  Weight(S \cup {e}) = e.amount + Weight(S)
<1> DEFINE T == S \cup {e}
<1>1. T \in SUBSET Entries(A) /\ IsFiniteSet(T) /\ e \in T /\ T \ {e} = S
  BY FS_AddElement
<1> HIDE DEF T
<1>2. Weight(T) = e.amount + Weight(T \ {e})
  BY <1>1, WeightTakes
<1> QED BY <1>1, <1>2 DEF T

LEMMA WeightEmpty == Weight({}) = 0
BY SumEmpty DEF Weight

\* The sum along a list is what its delegations are worth.
LEMMA SumIsWeight ==
    ASSUME NEW A, NEW list, Orderly(list.delegations, A)
    PROVE  SumOf(list) = Weight(ToSet(list.delegations))
<1> DEFINE s == list.delegations
           T == ToSet(s)
           f == [i \in DOMAIN s |-> s[i].amount]
           g == [e \in T |-> e.amount]
<1>1. PICK D : D = 1 .. Len(s) /\ DOMAIN s = D /\ IsFiniteSet(D)
  <2>1. Len(s) \in Int
    BY ListFacts
  <2> QED BY <2>1, ListFacts, FS_Interval
<1>2. \A i \in D : s[i] \in T /\ f[i] = g[s[i]]
  BY <1>1, ListFacts
<1>3. \A e \in T : g[e] \in Int /\ \E i \in D : e = s[i]
  BY <1>1, ListFacts, ItemsDiffer
<1>4. \A i, j \in D : s[i] = s[j] => i = j
  BY <1>1 DEF Orderly, OneEach
<1>5. DOMAIN f = D
  BY <1>1
<1> HIDE DEF f, g, T, s
<1>6. SumFunctionOnSet(f, D) = SumFunctionOnSet(g, T)
  <2>1. /\ \A x \in D : s[x] \in T /\ f[x] = g[s[x]]
        /\ \A y \in T : g[y] \in Int /\ \E x \in D : y = s[x]
        /\ \A x, y \in D : s[x] = s[y] => x = y
    BY <1>2, <1>3, <1>4
  <2>2. IsFiniteSet(D)
    BY <1>1
  <2>3. IsFiniteSet(T) /\ SumFunctionOnSet(f, D) = SumFunctionOnSet(g, T)
    BY <2>1, <2>2, SumRenamed
  <2> QED BY <2>3
<1> QED BY <1>5, <1>6 DEF SumOf, SumFunction, Weight, f, g, T, s

\* A list in order that holds the delegations S; its stored total is more by extra.
Holds(list, A, S, extra) ==
    /\ Orderly(list.delegations, A)
    /\ ToSet(list.delegations) = S
    /\ list.total = Weight(S) + extra

\* What is used of such a list.
LEMMA HoldsFacts ==
    ASSUME NEW A, NEW list, NEW S, NEW x \in Int, Holds(list, A, S, x)
    PROVE  /\ S \in SUBSET Entries(A) /\ IsFiniteSet(S) /\ Cardinality(S) \in Nat
           /\ Len(list.delegations) = Cardinality(S) /\ Weight(S) \in Nat
           /\ \A e \in S : e.amount \in Nat /\ e.owner \in A
           /\ \A e, f \in S : e.owner = f.owner => e = f
           /\ list.delegations = <<>> <=> S = {}
           /\ Cardinality(S) = 0 <=> S = {}
<1> DEFINE s == list.delegations
<1>1. Orderly(s, A) /\ ToSet(s) = S
  BY DEF Holds
<1> HIDE DEF s
<1>2. /\ S \in SUBSET Entries(A)
      /\ \A e, f \in S : e.owner = f.owner => e = f
      /\ \A e \in S : e.amount \in Nat /\ e.owner \in A
  BY <1>1, ItemsDiffer
<1>3. /\ IsFiniteSet(S) /\ Cardinality(S) = Len(s)
      /\ s = <<>> <=> S = {}
      /\ s = <<>> <=> Len(s) = 0
  BY <1>1, EmptyItems
<1>4. Cardinality(S) \in Nat
  BY <1>3, FS_CardinalityType
<1>5. Weight(S) \in Nat
  BY <1>2, <1>3, WeightNat
<1> QED BY <1>2, <1>3, <1>4, <1>5 DEF s

LEMMA InsertHolds ==
    ASSUME NEW A, NEW list, NEW S, NEW x \in Int, Holds(list, A, S, x),
           NEW e \in Entries(A), \A y \in S : y.owner # e.owner
    PROVE  Holds(Insert(list, e), A, S \cup {e}, x)
<1>1. /\ Orderly(InsertSorted(list.delegations, e), A)
      /\ ToSet(InsertSorted(list.delegations, e)) = S \cup {e}
  BY InsertOrderly DEF Holds
<1>2. Weight(S \cup {e}) = e.amount + Weight(S)
  <2>1. e \notin S /\ S \in SUBSET Entries(A) /\ IsFiniteSet(S)
    BY HoldsFacts
  <2> QED BY <2>1, WeightAdds
<1>3. e.amount \in Nat /\ Weight(S) \in Nat /\ list.total = Weight(S) + x
  <2>1. e.amount \in Nat
    BY DEF Entries
  <2>2. Weight(S) \in Nat
    BY HoldsFacts
  <2>3. list.total = Weight(S) + x
    BY DEF Holds
  <2> QED BY <2>1, <2>2, <2>3
<1>4. /\ Insert(list, e).delegations = InsertSorted(list.delegations, e)
      /\ Insert(list, e).total = list.total + e.amount
  BY DEF Insert
<1>5. Insert(list, e).total = Weight(S \cup {e}) + x
  BY <1>2, <1>3, <1>4
<1> QED BY <1>1, <1>4, <1>5 DEF Holds

\* The worth of what is left.
LEMMA HoldsLess ==
    ASSUME NEW A, NEW list, NEW S, NEW x \in Int, Holds(list, A, S, x), NEW e \in S
    PROVE  list.total - e.amount = Weight(S \ {e}) + x
<1>1. S \in SUBSET Entries(A) /\ IsFiniteSet(S) /\ e.amount \in Nat
  BY HoldsFacts
<1>2. Weight(S) = e.amount + Weight(S \ {e})
  BY <1>1, WeightTakes
<1>3. IsFiniteSet(S \ {e}) /\ S \ {e} \in SUBSET Entries(A)
  BY <1>1, FS_RemoveElement
<1>4. Weight(S \ {e}) \in Nat
  BY <1>3, WeightNat
<1>5. list.total = Weight(S) + x
  BY DEF Holds
<1> QED BY <1>1, <1>2, <1>4, <1>5

LEMMA WithoutHolds ==
    ASSUME NEW A, NEW list, NEW S, NEW x \in Int, Holds(list, A, S, x), NEW e \in S
    PROVE  Holds(Without(list, e.owner), A, S \ {e}, x)
<1>1. Orderly(list.delegations, A) /\ ToSet(list.delegations) = S
  BY DEF Holds
<1>2. /\ Orderly(Without(list, e.owner).delegations, A)
      /\ ToSet(Without(list, e.owner).delegations) = S \ {e}
      /\ Without(list, e.owner).total = list.total - e.amount
  BY <1>1, WithoutOrderly
<1>3. list.total - e.amount = Weight(S \ {e}) + x
  BY HoldsLess
<1> QED BY <1>2, <1>3 DEF Holds

LEMMA LastHolds ==
    ASSUME NEW A, NEW list, NEW S, NEW x \in Int, Holds(list, A, S, x), S # {}
    PROVE  \E e \in S : /\ e = Last(list.delegations) /\ Lowest(list) = e.amount
                        /\ \A y \in S : y.amount >= e.amount
                        /\ Holds(WithoutLast(list), A, S \ {e}, x)
<1> DEFINE s == list.delegations
           e == Last(s)
<1>1. Orderly(s, A) /\ ToSet(s) = S /\ s # <<>>
  BY HoldsFacts DEF Holds
<1>2. e \in S /\ \A y \in S : y.amount >= e.amount
  BY <1>1, EndsExtreme
<1>3. Orderly(Front(s), A) /\ ToSet(Front(s)) = S \ {e}
  BY <1>1, EndsOrderly
<1>4. Lowest(list) = e.amount
  BY <1>1 DEF Lowest
<1>5. /\ WithoutLast(list).delegations = Front(s)
      /\ WithoutLast(list).total = list.total - e.amount
  BY DEF WithoutLast
<1>6. list.total - e.amount = Weight(S \ {e}) + x
  BY <1>2, HoldsLess
<1>7. Holds(WithoutLast(list), A, S \ {e}, x)
  BY <1>3, <1>5, <1>6 DEF Holds
<1> QED BY <1>2, <1>4, <1>7

LEMMA FirstHolds ==
    ASSUME NEW A, NEW list, NEW S, NEW x \in Int, Holds(list, A, S, x), S # {}
    PROVE  \E e \in S : /\ e = Head(list.delegations) /\ Highest(list) = e.amount
                        /\ \A y \in S : y.amount <= e.amount
                        /\ Holds(WithoutFirst(list), A, S \ {e}, x)
<1> DEFINE s == list.delegations
<1>1. Orderly(s, A) /\ ToSet(s) = S /\ s # <<>>
  BY HoldsFacts DEF Holds
<1>2. PICK e \in S : e = Head(s) /\ \A y \in S : y.amount <= e.amount
  BY <1>1, EndsExtreme
<1>3. Orderly(Tail(s), A) /\ ToSet(Tail(s)) = S \ {e}
  BY <1>1, <1>2, EndsOrderly
<1>4. Highest(list) = e.amount
  BY <1>1, <1>2 DEF Highest
<1>5. /\ WithoutFirst(list).delegations = Tail(s)
      /\ WithoutFirst(list).total = list.total - e.amount
  BY <1>2 DEF WithoutFirst
<1>6. list.total - e.amount = Weight(S \ {e}) + x
  BY <1>2, HoldsLess
<1>7. Holds(WithoutFirst(list), A, S \ {e}, x)
  BY <1>3, <1>5, <1>6 DEF Holds
<1> QED BY <1>2, <1>4, <1>7

LEMMA AdjustedHolds ==
    ASSUME NEW A, NEW list, NEW S, NEW x \in Int, Holds(list, A, S, x),
           NEW e \in S, NEW delta \in Int, e.amount + delta \in Nat
    PROVE  Holds(Adjusted(list, e.owner, delta), A,
                 (S \ {e}) \cup {Changed(e, e.amount + delta)}, x)
<1> DEFINE z == Changed(e, e.amount + delta)
           R == S \ {e}
<1>1. Orderly(list.delegations, A) /\ ToSet(list.delegations) = S
  BY DEF Holds
<1>2. /\ Orderly(Adjusted(list, e.owner, delta).delegations, A)
      /\ ToSet(Adjusted(list, e.owner, delta).delegations) = R \cup {z}
      /\ Adjusted(list, e.owner, delta).total = list.total + delta
  BY <1>1, AdjustedOrderly
<1>3. /\ e.amount \in Nat /\ e.owner \in A /\ S \in SUBSET Entries(A) /\ IsFiniteSet(S)
      /\ \A y \in S : y.owner = e.owner => y = e
  BY HoldsFacts
<1>4. z \in Entries(A) /\ z.amount = e.amount + delta /\ z.owner = e.owner
  BY <1>3 DEF Entries, Changed
<1> HIDE DEF z
<1>5. z \notin R /\ R \in SUBSET Entries(A) /\ IsFiniteSet(R)
  BY <1>3, <1>4, FS_RemoveElement
<1> HIDE DEF R
<1>6. Weight(R \cup {z}) = z.amount + Weight(R) /\ Weight(R) \in Nat
  BY <1>4, <1>5, WeightAdds, WeightNat
<1>7. list.total - e.amount = Weight(R) + x
  BY HoldsLess DEF R
<1>8. list.total \in Int
  <2>1. list.total = Weight(S) + x
    BY DEF Holds
  <2>2. Weight(S) \in Nat
    BY HoldsFacts
  <2> QED BY <2>1, <2>2
<1>9. list.total + delta = Weight(R \cup {z}) + x
  BY <1>3, <1>4, <1>6, <1>7, <1>8
<1> QED BY <1>2, <1>9 DEF Holds, z, R

-----------------------------------------------------------------------------
(* Books                                                                   *)

BookFields == {"bond", "count", "counted", "lowestTop", "highestBottom", "lowestBottom",
               "topCapacity", "bottomCapacity", "top", "bottom"}

\* The top list holds T, and the metadata about it is exact.
TopIs(b, A, T) ==
    /\ Holds(b.top, A, T, 0)
    /\ b.lowestTop = Lowest(b.top)
    /\ b.topCapacity = Capacity(b.top, MaxTop)
    /\ b.counted = b.bond + Weight(T)

BottomIs(b, A, B, extra) ==
    /\ Holds(b.bottom, A, B, extra)
    /\ b.lowestBottom = Lowest(b.bottom) /\ b.highestBottom = Highest(b.bottom)
    /\ b.bottomCapacity = Capacity(b.bottom, MaxBottom)

\* Nobody is in both, nobody waits while the top has room or a smaller delegation.
Divided(T, B) ==
    /\ Cardinality(T) <= MaxTop /\ Cardinality(B) <= MaxBottom
    /\ B # {} => Cardinality(T) = MaxTop
    /\ \A t \in T, y \in B : t.owner # y.owner /\ t.amount >= y.amount

BookIs(b, A, T, B, extra) ==
    /\ DOMAIN b = BookFields /\ b.bond \in Nat
    /\ TopIs(b, A, T) /\ BottomIs(b, A, B, extra) /\ extra \in Nat
    /\ Divided(T, B)
    /\ b.count = Cardinality(T) + Cardinality(B)

SameTop(r, b) ==
    /\ r.bond = b.bond /\ r.top = b.top /\ r.lowestTop = b.lowestTop
    /\ r.topCapacity = b.topCapacity /\ r.counted = b.counted

SameBottom(r, b) ==
    /\ r.bottom = b.bottom /\ r.lowestBottom = b.lowestBottom
    /\ r.highestBottom = b.highestBottom /\ r.bottomCapacity = b.bottomCapacity

LEMMA ResetTop ==
    ASSUME NEW b, DOMAIN b = BookFields, NEW A, NEW list, NEW T, Holds(list, A, T, 0)
    PROVE  LET r == ResetTopData(b, list)
           IN  /\ DOMAIN r = BookFields /\ r.bond = b.bond /\ r.count = b.count
               /\ TopIs(r, A, T) /\ SameBottom(r, b)
<1> DEFINE r == ResetTopData(b, list)
<1>1. /\ DOMAIN r = BookFields /\ r.bond = b.bond /\ r.count = b.count
      /\ r.top = list /\ r.lowestTop = Lowest(list) /\ r.topCapacity = Capacity(list, MaxTop)
      /\ r.counted = b.bond + list.total
      /\ SameBottom(r, b)
  BY DEF ResetTopData, BookFields, SameBottom
<1>2. list.total = Weight(T)
  <2>1. PICK z \in Int : z = 0
    OBVIOUS
  <2>2. Weight(T) \in Nat
    BY <2>1, HoldsFacts
  <2>3. list.total = Weight(T) + 0
    BY DEF Holds
  <2> QED BY <2>2, <2>3
<1> HIDE DEF r
<1>3. TopIs(r, A, T)
  BY <1>1, <1>2 DEF TopIs
<1> QED BY <1>1, <1>3 DEF r

LEMMA ResetBottom ==
    ASSUME NEW b, DOMAIN b = BookFields, NEW A, NEW list, NEW B, NEW x, Holds(list, A, B, x)
    PROVE  LET r == ResetBottomData(b, list)
           IN  /\ DOMAIN r = BookFields /\ r.bond = b.bond /\ r.count = b.count
               /\ BottomIs(r, A, B, x) /\ SameTop(r, b)
<1> DEFINE r == ResetBottomData(b, list)
<1>1. /\ DOMAIN r = BookFields /\ r.bond = b.bond /\ r.count = b.count
      /\ r.bottom = list /\ r.lowestBottom = Lowest(list) /\ r.highestBottom = Highest(list)
      /\ r.bottomCapacity = Capacity(list, MaxBottom)
      /\ SameTop(r, b)
  BY DEF ResetBottomData, BookFields, SameTop
<1> HIDE DEF r
<1>2. BottomIs(r, A, B, x)
  BY <1>1 DEF BottomIs
<1> QED BY <1>1, <1>2 DEF r

LEMMA Same ==
    ASSUME NEW r, NEW b, NEW A
    PROVE  /\ SameTop(r, b) => \A T : TopIs(b, A, T) => TopIs(r, A, T)
           /\ SameBottom(r, b) => \A B, x : BottomIs(b, A, B, x) => BottomIs(r, A, B, x)
BY DEF SameTop, SameBottom, TopIs, BottomIs

\* What the metadata and the top list tell of T.
LEMMA TopFacts ==
    ASSUME NEW b, NEW A, NEW T, TopIs(b, A, T)
    PROVE  /\ T \in SUBSET Entries(A) /\ IsFiniteSet(T) /\ Cardinality(T) \in Nat
           /\ \A e \in T : e.amount \in Nat /\ e.owner \in A
           /\ \A e, f \in T : e.owner = f.owner => e = f
           /\ Len(b.top.delegations) = Cardinality(T) /\ Weight(T) \in Nat
           /\ b.top.delegations = <<>> <=> T = {}
           /\ b.topCapacity = "full" <=> Cardinality(T) >= MaxTop
           /\ T = {} => b.lowestTop = 0
           /\ b.lowestTop \in Nat /\ \A y \in T : y.amount >= b.lowestTop
           /\ Cardinality(T) = 0 <=> T = {}
<1>1. PICK z \in Int : z = 0 /\ Holds(b.top, A, T, z)
  BY DEF TopIs
<1>2. /\ T \in SUBSET Entries(A) /\ IsFiniteSet(T) /\ Cardinality(T) \in Nat
      /\ \A e \in T : e.amount \in Nat /\ e.owner \in A
      /\ \A e, f \in T : e.owner = f.owner => e = f
      /\ Len(b.top.delegations) = Cardinality(T) /\ Weight(T) \in Nat
      /\ b.top.delegations = <<>> <=> T = {}
      /\ Cardinality(T) = 0 <=> T = {}
  BY <1>1, HoldsFacts
<1>3. b.lowestTop = Lowest(b.top) /\ b.topCapacity = Capacity(b.top, MaxTop)
  BY DEF TopIs
<1>4. b.topCapacity = "full" <=> Cardinality(T) >= MaxTop
  BY <1>2, <1>3 DEF Capacity
<1>5. T = {} => b.lowestTop = 0
  BY <1>2, <1>3 DEF Lowest
<1>6. T # {} => \E e \in T : b.lowestTop = e.amount /\ \A y \in T : y.amount >= e.amount
  <2> SUFFICES ASSUME T # {} PROVE \E e \in T : b.lowestTop = e.amount /\ \A y \in T : y.amount >= e.amount
    OBVIOUS
  <2>1. PICK e \in T : /\ e = Last(b.top.delegations) /\ Lowest(b.top) = e.amount
                       /\ \A y \in T : y.amount >= e.amount
                       /\ Holds(WithoutLast(b.top), A, T \ {e}, z)
    BY <1>1, LastHolds
  <2> QED BY <1>3, <2>1
<1> QED BY <1>2, <1>4, <1>5, <1>6

\* The lowest of the top.
LEMMA TopLast ==
    ASSUME NEW b, NEW A, NEW T, TopIs(b, A, T), T # {}
    PROVE  \E e \in T : /\ e = Last(b.top.delegations) /\ b.lowestTop = e.amount
                        /\ \A y \in T : y.amount >= e.amount
                        /\ Holds(WithoutLast(b.top), A, T \ {e}, 0)
<1>1. PICK z \in Int : z = 0 /\ Holds(b.top, A, T, z)
  BY DEF TopIs
<1>2. b.lowestTop = Lowest(b.top)
  BY DEF TopIs
<1> QED BY <1>1, <1>2, LastHolds

LEMMA TopChanges ==
    ASSUME NEW b, NEW A, NEW T, TopIs(b, A, T)
    PROVE  /\ \A who : InTop(b, who) <=> \E e \in T : e.owner = who
           /\ \A e \in T : /\ AmountOf(b.top, e.owner) = e.amount
                           /\ Holds(Without(b.top, e.owner), A, T \ {e}, 0)
                           /\ \A delta \in Int : e.amount + delta \in Nat =>
                                 Holds(Adjusted(b.top, e.owner, delta), A,
                                       (T \ {e}) \cup {Changed(e, e.amount + delta)}, 0)
           /\ \A e \in Entries(A) : (\A y \in T : y.owner # e.owner) =>
                 Holds(Insert(b.top, e), A, T \cup {e}, 0)
<1>1. PICK z \in Int : z = 0 /\ Holds(b.top, A, T, z)
  BY DEF TopIs
<1>2. Orderly(b.top.delegations, A) /\ ToSet(b.top.delegations) = T
  BY <1>1 DEF Holds
<1>3. \A who : InTop(b, who) <=> \E e \in T : e.owner = who
  BY <1>2 DEF InTop, Owners
<1>4. \A e \in T : AmountOf(b.top, e.owner) = e.amount
  BY <1>2, AmountFound
<1>5. \A e \in T : Holds(Without(b.top, e.owner), A, T \ {e}, 0)
  BY <1>1, WithoutHolds
<1>6. \A e \in T, delta \in Int : e.amount + delta \in Nat =>
          Holds(Adjusted(b.top, e.owner, delta), A, (T \ {e}) \cup {Changed(e, e.amount + delta)}, 0)
  BY <1>1, AdjustedHolds
<1>7. \A e \in Entries(A) : (\A y \in T : y.owner # e.owner) => Holds(Insert(b.top, e), A, T \cup {e}, 0)
  BY <1>1, InsertHolds
<1> QED BY <1>3, <1>4, <1>5, <1>6, <1>7

LEMMA BottomFacts ==
    ASSUME NEW b, NEW A, NEW B, NEW x \in Int, BottomIs(b, A, B, x)
    PROVE  /\ B \in SUBSET Entries(A) /\ IsFiniteSet(B) /\ Cardinality(B) \in Nat
           /\ \A e \in B : e.amount \in Nat /\ e.owner \in A
           /\ \A e, f \in B : e.owner = f.owner => e = f
           /\ Len(b.bottom.delegations) = Cardinality(B) /\ Weight(B) \in Nat
           /\ b.bottom.delegations = <<>> <=> B = {}
           /\ b.bottomCapacity = "full" <=> Cardinality(B) >= MaxBottom
           /\ b.bottomCapacity = "empty" <=> B = {}
           /\ B = {} => b.lowestBottom = 0 /\ b.highestBottom = 0
           /\ b.lowestBottom \in Nat /\ b.highestBottom \in Nat
           /\ \A y \in B : y.amount >= b.lowestBottom /\ y.amount <= b.highestBottom
           /\ Cardinality(B) = 0 <=> B = {}
<1>1. Holds(b.bottom, A, B, x)
  BY DEF BottomIs
<1>2. /\ B \in SUBSET Entries(A) /\ IsFiniteSet(B) /\ Cardinality(B) \in Nat
      /\ \A e \in B : e.amount \in Nat /\ e.owner \in A
      /\ \A e, f \in B : e.owner = f.owner => e = f
      /\ Len(b.bottom.delegations) = Cardinality(B) /\ Weight(B) \in Nat
      /\ b.bottom.delegations = <<>> <=> B = {}
      /\ Cardinality(B) = 0 <=> B = {}
  BY <1>1, HoldsFacts
<1>3. /\ b.lowestBottom = Lowest(b.bottom) /\ b.highestBottom = Highest(b.bottom)
      /\ b.bottomCapacity = Capacity(b.bottom, MaxBottom)
  BY DEF BottomIs
<1>4. /\ b.bottomCapacity = "full" <=> Cardinality(B) >= MaxBottom
      /\ b.bottomCapacity = "empty" <=> B = {}
  BY <1>2, <1>3, BookAssumption DEF Capacity
<1>5. B = {} => b.lowestBottom = 0 /\ b.highestBottom = 0
  BY <1>2, <1>3 DEF Lowest, Highest
<1>6. B # {} => \E e \in B : b.lowestBottom = e.amount /\ \A y \in B : y.amount >= e.amount
  <2> SUFFICES ASSUME B # {} PROVE \E e \in B : b.lowestBottom = e.amount /\ \A y \in B : y.amount >= e.amount
    OBVIOUS
  <2>1. PICK e \in B : /\ e = Last(b.bottom.delegations) /\ Lowest(b.bottom) = e.amount
                       /\ \A y \in B : y.amount >= e.amount
                       /\ Holds(WithoutLast(b.bottom), A, B \ {e}, x)
    BY <1>1, LastHolds
  <2> QED BY <1>3, <2>1
<1>7. B # {} => \E e \in B : b.highestBottom = e.amount /\ \A y \in B : y.amount <= e.amount
  <2> SUFFICES ASSUME B # {} PROVE \E e \in B : b.highestBottom = e.amount /\ \A y \in B : y.amount <= e.amount
    OBVIOUS
  <2>1. PICK e \in B : /\ e = Head(b.bottom.delegations) /\ Highest(b.bottom) = e.amount
                       /\ \A y \in B : y.amount <= e.amount
                       /\ Holds(WithoutFirst(b.bottom), A, B \ {e}, x)
    BY <1>1, FirstHolds
  <2> QED BY <1>3, <2>1
<1> QED BY <1>2, <1>4, <1>5, <1>6, <1>7

LEMMA BottomEnds ==
    ASSUME NEW b, NEW A, NEW B, NEW x \in Int, BottomIs(b, A, B, x), B # {}
    PROVE  /\ \E e \in B : /\ e = Last(b.bottom.delegations) /\ b.lowestBottom = e.amount
                           /\ \A y \in B : y.amount >= e.amount
                           /\ Holds(WithoutLast(b.bottom), A, B \ {e}, x)
           /\ \E e \in B : /\ e = Head(b.bottom.delegations) /\ b.highestBottom = e.amount
                           /\ \A y \in B : y.amount <= e.amount
                           /\ Holds(WithoutFirst(b.bottom), A, B \ {e}, x)
BY LastHolds, FirstHolds DEF BottomIs

LEMMA BottomChanges ==
    ASSUME NEW b, NEW A, NEW B, NEW x \in Int, BottomIs(b, A, B, x)
    PROVE  /\ \A who : InBottom(b, who) <=> \E e \in B : e.owner = who
           /\ \A e \in B : /\ AmountOf(b.bottom, e.owner) = e.amount
                           /\ Holds(Without(b.bottom, e.owner), A, B \ {e}, x)
                           /\ \A delta \in Int : e.amount + delta \in Nat =>
                                 Holds(Adjusted(b.bottom, e.owner, delta), A,
                                       (B \ {e}) \cup {Changed(e, e.amount + delta)}, x)
           /\ \A e \in Entries(A) : (\A y \in B : y.owner # e.owner) =>
                 Holds(Insert(b.bottom, e), A, B \cup {e}, x)
<1>1. Holds(b.bottom, A, B, x)
  BY DEF BottomIs
<1>2. Orderly(b.bottom.delegations, A) /\ ToSet(b.bottom.delegations) = B
  BY <1>1 DEF Holds
<1>3. \A who : InBottom(b, who) <=> \E e \in B : e.owner = who
  BY <1>2 DEF InBottom, Owners
<1>4. \A e \in B : AmountOf(b.bottom, e.owner) = e.amount
  BY <1>2, AmountFound
<1>5. \A e \in B : Holds(Without(b.bottom, e.owner), A, B \ {e}, x)
  BY <1>1, WithoutHolds
<1>6. \A e \in B, delta \in Int : e.amount + delta \in Nat =>
          Holds(Adjusted(b.bottom, e.owner, delta), A, (B \ {e}) \cup {Changed(e, e.amount + delta)}, x)
  BY <1>1, AdjustedHolds
<1>7. \A e \in Entries(A) : (\A y \in B : y.owner # e.owner) => Holds(Insert(b.bottom, e), A, B \cup {e}, x)
  BY <1>1, InsertHolds
<1> QED BY <1>3, <1>4, <1>5, <1>6, <1>7

-----------------------------------------------------------------------------
(* A delegation is added                                                   *)

LEMMA CountOnly ==
    ASSUME NEW b, DOMAIN b = BookFields, NEW n
    PROVE  LET r == [b EXCEPT !.count = n]
           IN  /\ DOMAIN r = BookFields /\ r.bond = b.bond /\ r.count = n
               /\ SameTop(r, b) /\ SameBottom(r, b)
BY DEF BookFields, SameTop, SameBottom

\* The sizes of sets that gain or lose one.
LEMMA OneMore ==
    ASSUME NEW S, IsFiniteSet(S), NEW e, e \notin S
    PROVE  IsFiniteSet(S \cup {e}) /\ Cardinality(S \cup {e}) = Cardinality(S) + 1
BY FS_AddElement

LEMMA OneLess ==
    ASSUME NEW S, IsFiniteSet(S), NEW e \in S
    PROVE  IsFiniteSet(S \ {e}) /\ Cardinality(S \ {e}) = Cardinality(S) - 1
BY FS_RemoveElement

LEMMA OneOther ==
    ASSUME NEW S, IsFiniteSet(S), NEW f \in S, NEW e, e \notin S \ {f}
    PROVE  IsFiniteSet((S \ {f}) \cup {e}) /\ Cardinality((S \ {f}) \cup {e}) = Cardinality(S)
<1>1. IsFiniteSet(S \ {f}) /\ Cardinality(S \ {f}) = Cardinality(S) - 1
  BY OneLess
<1>2. Cardinality((S \ {f}) \cup {e}) = Cardinality(S \ {f}) + 1 /\ IsFiniteSet((S \ {f}) \cup {e})
  BY <1>1, OneMore
<1>3. Cardinality(S) \in Nat
  BY FS_CardinalityType
<1> QED BY <1>1, <1>2, <1>3

\* The bottom list has taken e; a full one has let go of its last.
BottomTook(r, b, A, B, x, e, bumped) ==
    /\ DOMAIN r = BookFields /\ r.bond = b.bond /\ SameTop(r, b)
    /\ Cardinality(B) < MaxBottom =>
          /\ BottomIs(r, A, B \cup {e}, x)
          /\ r.count = IF bumped THEN b.count ELSE b.count + 1
    /\ Cardinality(B) = MaxBottom =>
          \E f \in B : /\ f = Last(b.bottom.delegations) /\ b.lowestBottom = f.amount
                       /\ \A y \in B : y.amount >= f.amount
                       /\ BottomIs(r, A, (B \ {f}) \cup {e}, x)
                       /\ r.count = b.count

LEMMA AddBottomIs ==
    ASSUME NEW b, DOMAIN b = BookFields, NEW A, NEW B, NEW x \in Int, BottomIs(b, A, B, x),
           Cardinality(B) <= MaxBottom,
           NEW e \in Entries(A), \A y \in B : y.owner # e.owner, NEW bumped \in BOOLEAN
    PROVE  BottomTook(AddBottomDelegation(b, e, bumped), b, A, B, x, e, bumped)
<1> DEFINE full == Len(b.bottom.delegations) = MaxBottom
           kept == IF full THEN WithoutLast(b.bottom) ELSE b.bottom
           n == IF full \/ bumped THEN b.count ELSE b.count + 1
           c == [b EXCEPT !.count = n]
           r == ResetBottomData(c, Insert(kept, e))
<1>1. AddBottomDelegation(b, e, bumped) = r
  BY DEF AddBottomDelegation, BookFields
<1>2. /\ DOMAIN c = BookFields /\ c.bond = b.bond /\ c.count = n
      /\ SameTop(c, b) /\ SameBottom(c, b)
  BY DEF BookFields, SameTop, SameBottom
<1>3. Len(b.bottom.delegations) = Cardinality(B) /\ Cardinality(B) \in Nat /\ (Cardinality(B) = 0 <=> B = {})
  BY BottomFacts
<1>4. ASSUME NEW C, Holds(Insert(kept, e), A, C, x)
      PROVE  /\ DOMAIN r = BookFields /\ r.bond = b.bond /\ SameTop(r, b)
             /\ BottomIs(r, A, C, x) /\ r.count = n
  <2> DEFINE list == Insert(kept, e)
  <2> HIDE DEF list, c
  <2>1. /\ DOMAIN r = BookFields /\ r.bond = c.bond /\ r.count = c.count
        /\ BottomIs(r, A, C, x) /\ SameTop(r, c)
    BY <1>2, <1>4, ResetBottom DEF list
  <2> HIDE DEF r
  <2> QED BY <1>2, <2>1 DEF SameTop
<1> HIDE DEF r, c
<1> SUFFICES BottomTook(r, b, A, B, x, e, bumped)
  BY <1>1
<1>5. CASE Cardinality(B) < MaxBottom
  <2>1. ~full /\ kept = b.bottom
    BY <1>3, <1>5, BookAssumption
  <2>2. Holds(Insert(kept, e), A, B \cup {e}, x)
    BY <2>1, BottomChanges
  <2>3. ~(Cardinality(B) = MaxBottom)
    BY <1>3, <1>5, BookAssumption
  <2>4. /\ DOMAIN r = BookFields /\ r.bond = b.bond /\ SameTop(r, b)
        /\ BottomIs(r, A, B \cup {e}, x) /\ r.count = n
    BY <1>4, <2>2
  <2>5. n = IF bumped THEN b.count ELSE b.count + 1
    BY <2>1
  <2> QED BY Zenon, <2>3, <2>4, <2>5 DEF BottomTook
<1>6. CASE Cardinality(B) = MaxBottom
  <2>1. full /\ kept = WithoutLast(b.bottom) /\ B # {}
    BY <1>3, <1>6, BookAssumption
  <2>2. PICK f \in B : /\ f = Last(b.bottom.delegations) /\ b.lowestBottom = f.amount
                       /\ \A y \in B : y.amount >= f.amount
                       /\ Holds(kept, A, B \ {f}, x)
    BY <2>1, BottomEnds
  <2> HIDE DEF kept
  <2>3. Holds(Insert(kept, e), A, (B \ {f}) \cup {e}, x)
    BY <2>2, InsertHolds
  <2>4. ~(Cardinality(B) < MaxBottom)
    BY <1>3, <1>6
  <2>5. /\ DOMAIN r = BookFields /\ r.bond = b.bond /\ SameTop(r, b)
        /\ BottomIs(r, A, (B \ {f}) \cup {e}, x) /\ r.count = b.count
    BY <1>4, <2>1, <2>3
  <2> QED BY Zenon, <2>2, <2>4, <2>5 DEF BottomTook
<1>7. Cardinality(B) < MaxBottom \/ Cardinality(B) = MaxBottom
  BY <1>3, BookAssumption
<1> HIDE DEF kept, full, n
<1> QED BY Zenon, <1>5, <1>6, <1>7

\* What every proof about a book starts from.
LEMMA BookFacts ==
    ASSUME NEW b, NEW A, NEW T, NEW B, NEW x, BookIs(b, A, T, B, x)
    PROVE  /\ DOMAIN b = BookFields /\ b.bond \in Nat /\ x \in Nat /\ x \in Int
           /\ TopIs(b, A, T) /\ BottomIs(b, A, B, x) /\ Divided(T, B)
           /\ b.count = Cardinality(T) + Cardinality(B)
           /\ IsFiniteSet(T) /\ IsFiniteSet(B) /\ Cardinality(T) \in Nat /\ Cardinality(B) \in Nat
           /\ T \in SUBSET Entries(A) /\ B \in SUBSET Entries(A)
           /\ \A e \in T \cup B : e.amount \in Nat /\ e.owner \in A
           /\ \A e, f \in T \cup B : e.owner = f.owner => e = f
           /\ \A e \in T : \A f \in B : e # f
<1>1. /\ DOMAIN b = BookFields /\ b.bond \in Nat /\ x \in Nat /\ x \in Int
      /\ TopIs(b, A, T) /\ BottomIs(b, A, B, x) /\ Divided(T, B)
      /\ b.count = Cardinality(T) + Cardinality(B)
  BY DEF BookIs
<1>2. /\ IsFiniteSet(T) /\ Cardinality(T) \in Nat /\ T \in SUBSET Entries(A)
      /\ \A e \in T : e.amount \in Nat /\ e.owner \in A
      /\ \A e, f \in T : e.owner = f.owner => e = f
  BY <1>1, TopFacts
<1>3. /\ IsFiniteSet(B) /\ Cardinality(B) \in Nat /\ B \in SUBSET Entries(A)
      /\ \A e \in B : e.amount \in Nat /\ e.owner \in A
      /\ \A e, f \in B : e.owner = f.owner => e = f
  BY <1>1, BottomFacts
<1>4. \A e \in T : \A f \in B : e.owner # f.owner
  BY <1>1 DEF Divided
<1> QED BY <1>1, <1>2, <1>3, <1>4

\* A book that has become that of T, B, whichever of the lists was written last.
LEMMA TopWritten ==
    ASSUME NEW b, DOMAIN b = BookFields, b.bond \in Nat, NEW A, NEW list, NEW T, Holds(list, A, T, 0),
           NEW B, NEW x \in Nat, BottomIs(b, A, B, x), Divided(T, B),
           b.count = Cardinality(T) + Cardinality(B)
    PROVE  BookIs(ResetTopData(b, list), A, T, B, x) /\ ResetTopData(b, list).bond = b.bond
<1> DEFINE r == ResetTopData(b, list)
<1>1. /\ DOMAIN r = BookFields /\ r.bond = b.bond /\ r.count = b.count
      /\ TopIs(r, A, T) /\ SameBottom(r, b)
  BY ResetTop
<1> HIDE DEF r
<1>2. BottomIs(r, A, B, x)
  BY <1>1, Same
<1>3. BookIs(r, A, T, B, x) /\ r.bond = b.bond
  BY <1>1, <1>2 DEF BookIs
<1> QED BY <1>3 DEF r

LEMMA BottomWritten ==
    ASSUME NEW b, DOMAIN b = BookFields, b.bond \in Nat, NEW A, NEW list, NEW B, NEW x \in Nat, Holds(list, A, B, x),
           NEW T, TopIs(b, A, T), Divided(T, B),
           b.count = Cardinality(T) + Cardinality(B)
    PROVE  BookIs(ResetBottomData(b, list), A, T, B, x) /\ ResetBottomData(b, list).bond = b.bond
<1> DEFINE r == ResetBottomData(b, list)
<1>1. /\ DOMAIN r = BookFields /\ r.bond = b.bond /\ r.count = b.count
      /\ BottomIs(r, A, B, x) /\ SameTop(r, b)
  BY ResetBottom
<1> HIDE DEF r
<1>2. TopIs(r, A, T)
  BY <1>1, Same
<1>3. BookIs(r, A, T, B, x) /\ r.bond = b.bond
  BY <1>1, <1>2 DEF BookIs
<1> QED BY <1>3 DEF r

\* A book that took d and pushed the delegations K out, if any, for less.
Took(r, b, A, T, B, x, d, K) ==
    /\ \E U, V : BookIs(r, A, U, V, x) /\ U \cup V = ((T \cup B) \ K) \cup {d}
    /\ r.bond = b.bond
    /\ K \subseteq B /\ Kicked(b) = {f.owner : f \in K}
    /\ \/ K = {} /\ LessTotalStaked(b) = 0
       \/ \E f \in K : K = {f} /\ f.amount < d.amount /\ LessTotalStaked(b) = f.amount

\* Whom the full book lets go of.
LEMMA Leaves ==
    ASSUME NEW b, NEW A, NEW T, NEW B, NEW x, BookIs(b, A, T, B, x)
    PROVE  /\ ~(Cardinality(T) = MaxTop /\ Cardinality(B) = MaxBottom) =>
                  Kicked(b) = {} /\ LessTotalStaked(b) = 0
           /\ Cardinality(T) = MaxTop /\ Cardinality(B) = MaxBottom =>
                  /\ Kicked(b) = {Last(b.bottom.delegations).owner}
                  /\ LessTotalStaked(b) = b.lowestBottom
<1>1. /\ TopIs(b, A, T) /\ BottomIs(b, A, B, x) /\ Divided(T, B) /\ x \in Int
  BY BookFacts
<1>2. /\ b.topCapacity = "full" <=> Cardinality(T) >= MaxTop
      /\ b.bottomCapacity = "full" <=> Cardinality(B) >= MaxBottom
      /\ Len(b.bottom.delegations) = Cardinality(B)
      /\ Cardinality(T) \in Nat /\ Cardinality(B) \in Nat
  BY <1>1, TopFacts, BottomFacts
<1>3. Cardinality(T) <= MaxTop /\ Cardinality(B) <= MaxBottom
  BY <1>1 DEF Divided
<1>4. /\ b.topCapacity = "full" <=> Cardinality(T) = MaxTop
      /\ b.bottomCapacity = "full" <=> Cardinality(B) = MaxBottom
      /\ Len(b.bottom.delegations) = MaxBottom <=> Cardinality(B) = MaxBottom
  BY <1>2, <1>3, BookAssumption
<1> QED BY <1>4 DEF Kicked, LessTotalStaked

LEMMA AddTopIs ==
    ASSUME NEW b, NEW A, NEW T, NEW B, NEW x, BookIs(b, A, T, B, x),
           NEW d \in Entries(A), \A y \in T \cup B : y.owner # d.owner, GoesToTop(b, d)
    PROVE  \E K : Took(AddTopDelegation(b, d), b, A, T, B, x, d, K)
<1> DEFINE bumps == Len(b.top.delegations) = MaxTop
           kicks == bumps /\ b.bottomCapacity = "full"
           rest == IF bumps THEN AddBottomDelegation(b, Last(b.top.delegations), TRUE) ELSE b
           kept == IF bumps THEN WithoutLast(b.top) ELSE b.top
           n == IF kicks THEN rest.count ELSE rest.count + 1
           c == [rest EXCEPT !.count = n]
           r == ResetTopData(c, Insert(kept, d))
<1>0. /\ DOMAIN b = BookFields /\ b.bond \in Nat /\ x \in Nat /\ x \in Int
      /\ TopIs(b, A, T) /\ BottomIs(b, A, B, x) /\ Divided(T, B)
      /\ b.count = Cardinality(T) + Cardinality(B)
      /\ IsFiniteSet(T) /\ IsFiniteSet(B) /\ Cardinality(T) \in Nat /\ Cardinality(B) \in Nat
      /\ T \in SUBSET Entries(A) /\ B \in SUBSET Entries(A)
      /\ \A e \in T \cup B : e.amount \in Nat /\ e.owner \in A
      /\ \A e, f \in T \cup B : e.owner = f.owner => e = f
      /\ \A e \in T : \A f \in B : e # f
  BY BookFacts
<1>n. b.count = Cardinality(T) + Cardinality(B) /\ Cardinality(T) \in Nat /\ Cardinality(B) \in Nat
  BY <1>0
<1>d. d.amount \in Nat /\ d.owner \in A /\ d \notin T /\ d \notin B
  BY DEF Entries
<1>1. /\ Len(b.top.delegations) = Cardinality(T) /\ (Cardinality(T) = 0 <=> T = {})
      /\ b.topCapacity = "full" <=> Cardinality(T) >= MaxTop
      /\ b.bottomCapacity = "full" <=> Cardinality(B) >= MaxBottom
      /\ b.lowestTop \in Nat /\ b.lowestBottom \in Nat
  BY <1>0, TopFacts, BottomFacts
<1>2. /\ Cardinality(T) <= MaxTop /\ Cardinality(B) <= MaxBottom
      /\ B # {} => Cardinality(T) = MaxTop
      /\ \A t \in T, y \in B : t.owner # y.owner /\ t.amount >= y.amount
  BY <1>0 DEF Divided
<1>3. ASSUME DOMAIN rest = BookFields, rest.bond = b.bond
      PROVE  /\ AddTopDelegation(b, d) = r
             /\ DOMAIN c = BookFields /\ c.bond = b.bond /\ c.count = n
             /\ SameTop(c, rest) /\ SameBottom(c, rest)
  <2>1. AddTopDelegation(b, d) = r
    BY <1>3 DEF AddTopDelegation, BookFields
  <2> HIDE DEF rest, n
  <2>2. /\ DOMAIN c = BookFields /\ c.bond = rest.bond /\ c.count = n
        /\ SameTop(c, rest) /\ SameBottom(c, rest)
    BY <1>3, CountOnly
  <2> QED BY <1>3, <2>1, <2>2
<1>4. CASE Cardinality(T) < MaxTop
  <2>1. ~bumps /\ rest = b /\ kept = b.top /\ ~kicks /\ n = b.count + 1
    <3>1. ~bumps
      BY <1>1, <1>4, <1>n, BookAssumption
    <3> HIDE DEF bumps
    <3> QED BY <3>1
  <2>2. B = {}
    BY <1>2, <1>4, <1>1, <1>0, BookAssumption
  <2>3. /\ AddTopDelegation(b, d) = r
        /\ DOMAIN c = BookFields /\ c.bond = b.bond /\ c.count = b.count + 1
        /\ SameBottom(c, b)
    BY <1>0, <1>3, <2>1
  <2>4. Holds(Insert(kept, d), A, T \cup {d}, 0)
    BY <1>0, <2>1, TopChanges
  <2>5. BottomIs(c, A, B, x)
    BY <1>0, <2>3, Same
  <2>6. Cardinality(T \cup {d}) = Cardinality(T) + 1
    BY <1>0, <1>d, OneMore
  <2>7. Cardinality(B) = 0
    BY <2>2, FS_EmptySet
  <2>8. Divided(T \cup {d}, B)
    BY <1>0, <1>4, <2>2, <2>6, <2>7, BookAssumption DEF Divided
  <2>9. c.count = Cardinality(T \cup {d}) + Cardinality(B)
    <3> HIDE DEF c
    <3> QED BY <1>n, <2>3, <2>6
  <2> DEFINE list == Insert(kept, d)
             U == T \cup {d}
  <2> HIDE DEF c, list, U
  <2>10. BookIs(r, A, U, B, x) /\ r.bond = b.bond
    <3>1. /\ Holds(list, A, U, 0) /\ Divided(U, B) /\ c.bond \in Nat
          /\ c.count = Cardinality(U) + Cardinality(B)
      BY <1>0, <2>3, <2>4, <2>8, <2>9 DEF list, U
    <3> QED BY <1>0, <2>3, <2>5, <3>1, TopWritten DEF list
  <2>11. Kicked(b) = {} /\ LessTotalStaked(b) = 0
    <3>1. ~(Cardinality(T) = MaxTop)
      BY <1>0, <1>4, BookAssumption
    <3> QED BY <3>1, Leaves
  <2>12. U \cup B = ((T \cup B) \ {}) \cup {d}
    BY DEF U
  <2> HIDE DEF r
  <2>13. Took(r, b, A, T, B, x, d, {})
    BY <2>10, <2>11, <2>12 DEF Took
  <2> QED BY <2>3, <2>13
<1>5. CASE Cardinality(T) = MaxTop
  <2>0. bumps /\ T # {} /\ rest = AddBottomDelegation(b, Last(b.top.delegations), TRUE) /\ kept = WithoutLast(b.top)
    BY <1>1, <1>5, BookAssumption
  <2>1. PICK e \in T : /\ e = Last(b.top.delegations) /\ b.lowestTop = e.amount
                       /\ \A y \in T : y.amount >= e.amount
                       /\ Holds(kept, A, T \ {e}, 0)
    BY <1>0, <2>0, TopLast
  <2>2. e \in Entries(A) /\ e.amount \in Nat /\ e.owner \in A /\ \A y \in B : y.owner # e.owner
    BY <1>0, <1>2
  <2>3. e.amount < d.amount
    BY <1>1, <1>5, <2>1, <1>0, BookAssumption DEF GoesToTop
  <2> DEFINE U == (T \ {e}) \cup {d}
             list == Insert(kept, d)
  <2>4. Holds(list, A, U, 0)
    <3>1. PICK z \in Int : z = 0 /\ Holds(kept, A, T \ {e}, z)
      BY <2>1
    <3> HIDE DEF kept
    <3> QED BY <3>1, InsertHolds
  <2>5. Cardinality(U) = Cardinality(T)
    BY <1>0, <1>d, OneOther
  <2>6. /\ DOMAIN rest = BookFields /\ rest.bond = b.bond /\ SameTop(rest, b)
        /\ Cardinality(B) < MaxBottom => /\ BottomIs(rest, A, B \cup {e}, x)
                                         /\ rest.count = b.count
        /\ Cardinality(B) = MaxBottom =>
              \E f \in B : /\ f = Last(b.bottom.delegations) /\ b.lowestBottom = f.amount
                           /\ \A y \in B : y.amount >= f.amount
                           /\ BottomIs(rest, A, (B \ {f}) \cup {e}, x)
                           /\ rest.count = b.count
    <3>0. PICK yes \in BOOLEAN : yes = TRUE
      OBVIOUS
    <3>1. BottomTook(AddBottomDelegation(b, e, yes), b, A, B, x, e, yes)
      BY <1>0, <1>2, <2>2, AddBottomIs
    <3>2. rest = AddBottomDelegation(b, e, yes)
      BY <2>0, <2>1, <3>0
    <3> HIDE DEF rest
    <3> QED BY Zenon, <3>0, <3>1, <3>2 DEF BottomTook
  <2>7. /\ AddTopDelegation(b, d) = r
        /\ DOMAIN c = BookFields /\ c.bond = b.bond /\ c.count = n
        /\ SameBottom(c, rest)
    BY <1>3, <2>6
  <2>8. ASSUME NEW V, Divided(U, V), BottomIs(c, A, V, x), n = Cardinality(U) + Cardinality(V)
        PROVE  BookIs(r, A, U, V, x) /\ r.bond = b.bond
    <3> HIDE DEF c, list, U, n
    <3>1. c.bond \in Nat /\ c.count = Cardinality(U) + Cardinality(V)
      BY <1>0, <2>7, <2>8
    <3> QED BY <1>0, <2>4, <2>7, <2>8, <3>1, TopWritten DEF list
  <2>9. \A y \in U : y.amount \in Nat /\ y.amount >= e.amount
    BY <1>0, <1>d, <2>1, <2>2, <2>3
  <2>10. \A y \in B : y.amount <= e.amount /\ y.amount \in Nat /\ y.owner # e.owner
    BY <1>0, <1>2
  <2>11. \A y \in U : y.owner # e.owner /\ \A z \in B : y.owner # z.owner
    BY <1>0, <1>2
  <2>12. CASE Cardinality(B) < MaxBottom
    <3> DEFINE V == B \cup {e}
    <3>1. BottomIs(rest, A, V, x) /\ rest.count = b.count
      BY <2>6, <2>12
    <3>2. Cardinality(V) = Cardinality(B) + 1
      BY <1>0, OneMore
    <3>3. Divided(U, V)
      <4>1. \A t \in U, y \in V : t.owner # y.owner /\ t.amount >= y.amount
        BY <2>2, <2>9, <2>10, <2>11
      <4> HIDE DEF U, V
      <4> QED BY <1>0, <1>5, <2>5, <2>12, <3>2, <4>1, BookAssumption DEF Divided
    <3>4. ~kicks
      BY <1>0, <1>1, <2>12, BookAssumption
    <3>5. n = b.count + 1
      BY <3>1, <3>4
    <3> HIDE DEF V, U
    <3>6. n = Cardinality(U) + Cardinality(V)
      <4> HIDE DEF n
      <4> QED BY <1>n, <2>5, <3>2, <3>5
    <3>7. BottomIs(c, A, V, x)
      <4> HIDE DEF c
      <4> QED BY <2>7, <3>1, Same
    <3>8. BookIs(r, A, U, V, x) /\ r.bond = b.bond
      BY <2>8, <3>3, <3>6, <3>7
    <3>9. Kicked(b) = {} /\ LessTotalStaked(b) = 0
      <4>1. ~(Cardinality(B) = MaxBottom)
        BY <1>0, <2>12, BookAssumption
      <4> QED BY <4>1, Leaves
    <3>10. U \cup V = ((T \cup B) \ {}) \cup {d}
      BY DEF U, V
    <3> HIDE DEF r
    <3>11. Took(r, b, A, T, B, x, d, {})
      BY <3>8, <3>9, <3>10 DEF Took
    <3> QED BY <2>7, <3>11
  <2>13. CASE Cardinality(B) = MaxBottom
    <3>1. PICK f \in B : /\ f = Last(b.bottom.delegations) /\ b.lowestBottom = f.amount
                         /\ \A y \in B : y.amount >= f.amount
                         /\ BottomIs(rest, A, (B \ {f}) \cup {e}, x)
                         /\ rest.count = b.count
      BY <2>6, <2>13
    <3> DEFINE V == (B \ {f}) \cup {e}
    <3>2. Cardinality(V) = Cardinality(B)
      BY <1>0, OneOther
    <3>3. Divided(U, V)
      <4>1. \A t \in U, y \in V : t.owner # y.owner /\ t.amount >= y.amount
        BY <2>2, <2>9, <2>10, <2>11
      <4> HIDE DEF U, V
      <4> QED BY <1>0, <1>5, <2>5, <2>13, <3>2, <4>1, BookAssumption DEF Divided
    <3>4. kicks
      BY <1>0, <1>1, <2>0, <2>13, BookAssumption
    <3>5. n = b.count
      BY <3>1, <3>4
    <3> HIDE DEF V, U
    <3>6. n = Cardinality(U) + Cardinality(V)
      <4> HIDE DEF n
      <4> QED BY <1>n, <2>5, <3>2, <3>5
    <3>7. BottomIs(c, A, V, x)
      <4>1. BottomIs(rest, A, V, x)
        BY <3>1 DEF V
      <4> HIDE DEF c
      <4> QED BY <2>7, <4>1, Same
    <3>8. BookIs(r, A, U, V, x) /\ r.bond = b.bond
      BY <2>8, <3>3, <3>6, <3>7
    <3>9. Kicked(b) = {f.owner} /\ LessTotalStaked(b) = f.amount
      BY <1>5, <2>13, <3>1, Leaves
    <3>10. U \cup V = ((T \cup B) \ {f}) \cup {d}
      BY <1>0 DEF U, V
    <3>11. f.amount < d.amount
      BY <1>0, <1>d, <2>2, <2>3, <2>10
    <3> HIDE DEF r
    <3>12. Took(r, b, A, T, B, x, d, {f})
      <4>1. {f.owner} = {g.owner : g \in {f}}
        OBVIOUS
      <4>2. {f} \subseteq B
        OBVIOUS
      <4> QED BY <3>8, <3>9, <3>10, <3>11, <4>1, <4>2 DEF Took
    <3> QED BY <2>7, <3>12
  <2>14. Cardinality(B) < MaxBottom \/ Cardinality(B) = MaxBottom
    BY <1>0, <1>2, BookAssumption
  <2> QED BY <2>12, <2>13, <2>14
<1>6. Cardinality(T) < MaxTop \/ Cardinality(T) = MaxTop
  BY <1>0, <1>2, BookAssumption
<1> QED BY <1>4, <1>5, <1>6

LEMMA AddIs ==
    ASSUME NEW b, NEW A, NEW T, NEW B, NEW x, BookIs(b, A, T, B, x),
           NEW d \in Entries(A), \A y \in T \cup B : y.owner # d.owner, Accepts(b, d)
    PROVE  \E K : Took(AddDelegation(b, d), b, A, T, B, x, d, K)
<1>1. CASE GoesToTop(b, d)
  BY <1>1, AddTopIs DEF AddDelegation
<1>2. CASE ~GoesToTop(b, d)
  <2> DEFINE r == AddBottomDelegation(b, d, FALSE)
  <2>1. AddDelegation(b, d) = r
    BY <1>2 DEF AddDelegation
  <2>2. /\ DOMAIN b = BookFields /\ b.bond \in Nat /\ x \in Nat /\ x \in Int
        /\ TopIs(b, A, T) /\ BottomIs(b, A, B, x) /\ Divided(T, B)
        /\ IsFiniteSet(T) /\ IsFiniteSet(B)
        /\ \A e \in T \cup B : e.amount \in Nat /\ e.owner \in A
        /\ \A e \in T : \A f \in B : e # f
    BY BookFacts
  <2>n. b.count = Cardinality(T) + Cardinality(B) /\ Cardinality(T) \in Nat /\ Cardinality(B) \in Nat
    BY BookFacts
  <2>3. /\ b.topCapacity = "full" <=> Cardinality(T) >= MaxTop
        /\ b.bottomCapacity = "full" <=> Cardinality(B) >= MaxBottom
        /\ b.lowestTop \in Nat /\ \A y \in T : y.amount >= b.lowestTop
        /\ b.lowestBottom \in Nat
    BY <2>2, TopFacts, BottomFacts
  <2>4. /\ Cardinality(T) <= MaxTop /\ Cardinality(B) <= MaxBottom
        /\ \A t \in T, y \in B : t.owner # y.owner /\ t.amount >= y.amount
    BY <2>2 DEF Divided
  <2>5. d.amount \in Nat /\ d.owner \in A /\ d \notin T /\ d \notin B
    BY DEF Entries
  <2>6. Cardinality(T) = MaxTop /\ \A t \in T : t.amount >= d.amount
    <3>1. b.topCapacity = "full" /\ ~(b.lowestTop < d.amount)
      BY <1>2 DEF GoesToTop
    <3>2. Cardinality(T) = MaxTop
      BY <2>3, <2>4, <2>n, <3>1, BookAssumption
    <3>3. \A t \in T : t.amount >= d.amount
      BY <2>2, <2>3, <2>5, <3>1
    <3> QED BY <3>2, <3>3
  <2>7. PICK no \in BOOLEAN : no = FALSE
    OBVIOUS
  <2>8. BottomTook(r, b, A, B, x, d, no)
    <3>1. BottomTook(AddBottomDelegation(b, d, no), b, A, B, x, d, no)
      BY <2>2, <2>4, AddBottomIs
    <3> QED BY <2>7, <3>1
  <2>9. /\ DOMAIN r = BookFields /\ r.bond = b.bond /\ SameTop(r, b)
        /\ Cardinality(B) < MaxBottom =>
              BottomIs(r, A, B \cup {d}, x) /\ r.count = b.count + 1
        /\ Cardinality(B) = MaxBottom =>
              \E f \in B : /\ f = Last(b.bottom.delegations) /\ b.lowestBottom = f.amount
                           /\ \A y \in B : y.amount >= f.amount
                           /\ BottomIs(r, A, (B \ {f}) \cup {d}, x)
                           /\ r.count = b.count
    <3> HIDE DEF r
    <3> QED BY Zenon, <2>7, <2>8 DEF BottomTook
  <2> HIDE DEF r
  <2>10. TopIs(r, A, T)
    BY <2>2, <2>9, Same
  <2>11. CASE Cardinality(B) < MaxBottom
    <3> DEFINE V == B \cup {d}
    <3>1. Cardinality(V) = Cardinality(B) + 1
      BY <2>2, <2>5, OneMore
    <3>2. BottomIs(r, A, V, x) /\ r.count = b.count + 1
      BY <2>9, <2>11
    <3>3. \A t \in T, y \in V : t.owner # y.owner /\ t.amount >= y.amount
      BY <2>4, <2>6
    <3>4. T \cup V = ((T \cup B) \ {}) \cup {d}
      OBVIOUS
    <3> HIDE DEF V
    <3>5. Divided(T, V)
      BY <2>n, <2>6, <2>11, <3>1, <3>3, BookAssumption DEF Divided
    <3>6. r.count = Cardinality(T) + Cardinality(V)
      BY <2>n, <3>1, <3>2
    <3>7. BookIs(r, A, T, V, x) /\ r.bond = b.bond
      BY <2>2, <2>9, <2>10, <3>2, <3>5, <3>6 DEF BookIs
    <3>8. Kicked(b) = {} /\ LessTotalStaked(b) = 0
      <4>1. ~(Cardinality(B) = MaxBottom)
        BY <2>n, <2>11, BookAssumption
      <4> QED BY <4>1, Leaves
    <3>9. Took(r, b, A, T, B, x, d, {})
      BY <3>4, <3>7, <3>8 DEF Took
    <3> QED BY <2>1, <3>9
  <2>12. CASE Cardinality(B) = MaxBottom
    <3>1. PICK f \in B : /\ f = Last(b.bottom.delegations) /\ b.lowestBottom = f.amount
                         /\ \A y \in B : y.amount >= f.amount
                         /\ BottomIs(r, A, (B \ {f}) \cup {d}, x)
                         /\ r.count = b.count
      BY <2>9, <2>12
    <3> DEFINE V == (B \ {f}) \cup {d}
    <3>2. Cardinality(V) = Cardinality(B)
      BY <2>2, <2>5, OneOther
    <3>3. \A t \in T, y \in V : t.owner # y.owner /\ t.amount >= y.amount
      BY <2>4, <2>6
    <3>4. T \cup V = ((T \cup B) \ {f}) \cup {d}
      BY <2>2
    <3>5. BottomIs(r, A, V, x)
      BY <3>1
    <3> HIDE DEF V
    <3>6. Divided(T, V)
      BY <2>n, <2>6, <2>12, <3>2, <3>3, BookAssumption DEF Divided
    <3>7. r.count = Cardinality(T) + Cardinality(V)
      BY <2>n, <3>1, <3>2
    <3>8. BookIs(r, A, T, V, x) /\ r.bond = b.bond
      BY <2>2, <2>9, <2>10, <3>5, <3>6, <3>7 DEF BookIs
    <3>9. Kicked(b) = {f.owner} /\ LessTotalStaked(b) = f.amount
      BY <2>6, <2>12, <3>1, Leaves
    <3>10. f.amount < d.amount
      <4>1. b.bottomCapacity = "full"
        BY <2>3, <2>n, <2>12
      <4>2. d.amount > b.lowestBottom
        BY <1>2, <4>1 DEF Accepts
      <4> QED BY <2>3, <2>5, <3>1, <4>2
    <3>11. Took(r, b, A, T, B, x, d, {f})
      <4>1. {f.owner} = {g.owner : g \in {f}} /\ {f} \subseteq B
        OBVIOUS
      <4> QED BY <3>4, <3>8, <3>9, <3>10, <4>1 DEF Took
    <3> QED BY <2>1, <3>11
  <2>13. Cardinality(B) < MaxBottom \/ Cardinality(B) = MaxBottom
    BY <2>n, <2>4, BookAssumption
  <2> QED BY <2>11, <2>12, <2>13
<1> QED BY <1>1, <1>2

-----------------------------------------------------------------------------
(* A delegation is removed                                                 *)

\* The book holds H now.
Became(r, b, A, H) ==
    /\ \E U, V, y : BookIs(r, A, U, V, y) /\ U \cup V = H
    /\ r.bond = b.bond

LEMMA RemoveTopIs ==
    ASSUME NEW b, NEW A, NEW T, NEW B, NEW x, BookIs(b, A, T, B, x), NEW e \in T
    PROVE  Became(RemoveTopDelegation(b, e.owner), b, A, (T \cup B) \ {e})
<1> DEFINE n == b.count - 1
           left == [b EXCEPT !.count = n]
           top == Without(b.top, e.owner)
           r == RemoveTopDelegation(b, e.owner)
           R == T \ {e}
<1>0. /\ DOMAIN b = BookFields /\ b.bond \in Nat /\ x \in Nat /\ x \in Int
      /\ TopIs(b, A, T) /\ BottomIs(b, A, B, x) /\ Divided(T, B)
      /\ IsFiniteSet(T) /\ IsFiniteSet(B) /\ B \in SUBSET Entries(A)
      /\ \A f \in T \cup B : f.amount \in Nat /\ f.owner \in A
      /\ \A f \in T : \A g \in B : f # g
  BY BookFacts
<1>n. b.count = Cardinality(T) + Cardinality(B) /\ Cardinality(T) \in Nat /\ Cardinality(B) \in Nat
  BY BookFacts
<1>1. /\ Cardinality(T) <= MaxTop /\ Cardinality(B) <= MaxBottom
      /\ B # {} => Cardinality(T) = MaxTop
      /\ \A t \in T, y \in B : t.owner # y.owner /\ t.amount >= y.amount
  BY <1>0 DEF Divided
<1>2. /\ DOMAIN left = BookFields /\ left.bond = b.bond /\ left.count = n
      /\ SameTop(left, b) /\ SameBottom(left, b)
  BY <1>0, CountOnly
<1>3. b.bottomCapacity = "empty" <=> B = {}
  BY <1>0, BottomFacts
<1>4. Holds(top, A, R, 0)
  BY <1>0, TopChanges
<1>5. Cardinality(R) = Cardinality(T) - 1
  BY <1>0, OneLess
<1>6. left = [b EXCEPT !.count = @ - 1]
  BY <1>0 DEF BookFields
<1>7. CASE B = {}
  <2>1. r = ResetTopData(left, top)
    BY <1>3, <1>6, <1>7 DEF RemoveTopDelegation
  <2>2. BottomIs(left, A, B, x)
    <3> HIDE DEF left
    <3> QED BY <1>0, <1>2, Same
  <2> HIDE DEF left, top, R
  <2>3. Cardinality(B) = 0
    BY <1>7, FS_EmptySet
  <2>4. Divided(R, B) /\ left.count = Cardinality(R) + Cardinality(B)
    BY <1>n, <1>1, <1>2, <1>5, <1>7, <2>3, BookAssumption DEF Divided
  <2>5. BookIs(r, A, R, B, x) /\ r.bond = b.bond
    <3>1. left.bond \in Nat
      BY <1>0, <1>2
    <3>2. BookIs(ResetTopData(left, top), A, R, B, x) /\ ResetTopData(left, top).bond = left.bond
      BY <1>0, <1>2, <1>4, <2>2, <2>4, <3>1, TopWritten
    <3> QED BY <1>2, <2>1, <3>2
  <2>6. R \cup B = (T \cup B) \ {e}
    BY <1>7 DEF R
  <2> QED BY <2>5, <2>6 DEF Became
<1>8. CASE B # {}
  <2>1. PICK f \in B : /\ f = Head(b.bottom.delegations) /\ b.highestBottom = f.amount
                       /\ \A y \in B : y.amount <= f.amount
                       /\ Holds(WithoutFirst(b.bottom), A, B \ {f}, x)
    BY <1>0, <1>8, BottomEnds
  <2> DEFINE low == WithoutFirst(b.bottom)
             mid == ResetBottomData(left, low)
             list == Insert(top, f)
             U == R \cup {f}
             V == B \ {f}
  <2>2. r = ResetTopData(mid, list)
    BY <1>3, <1>6, <1>8, <2>1 DEF RemoveTopDelegation
  <2>3. Holds(list, A, U, 0)
    <3>1. PICK z \in Int : z = 0 /\ Holds(top, A, R, z)
      BY <1>4
    <3>2. f \in Entries(A) /\ \A y \in R : y.owner # f.owner
      BY <1>0, <1>1
    <3> HIDE DEF top, R
    <3> QED BY <3>1, <3>2, InsertHolds
  <2>4. Cardinality(U) = Cardinality(T) /\ Cardinality(V) = Cardinality(B) - 1
    BY <1>0, OneLess, OneOther
  <2>5. \A t \in U, y \in V : t.owner # y.owner /\ t.amount >= y.amount
    <3>1. \A y \in V : y.owner # f.owner
      BY <1>0, BookFacts
    <3> QED BY <1>0, <1>1, <2>1, <3>1
  <2>6. U \cup V = (T \cup B) \ {e}
    BY <1>0
  <2>7. Holds(low, A, V, x)
    BY <2>1
  <2> HIDE DEF left, low, list, U, V
  <2>8. /\ DOMAIN mid = BookFields /\ mid.bond = left.bond /\ mid.count = left.count
        /\ BottomIs(mid, A, V, x)
    BY <1>2, <2>7, ResetBottom
  <2> HIDE DEF mid
  <2>9. Divided(U, V)
    BY <1>n, <1>1, <1>8, <2>4, <2>5, BookAssumption DEF Divided
  <2>10. mid.count = Cardinality(U) + Cardinality(V)
    BY <1>n, <1>2, <2>4, <2>8
  <2>11. BookIs(r, A, U, V, x) /\ r.bond = b.bond
    <3>1. mid.bond \in Nat
      BY <1>0, <1>2, <2>8
    <3>2. BookIs(ResetTopData(mid, list), A, U, V, x) /\ ResetTopData(mid, list).bond = mid.bond
      BY <1>0, <2>3, <2>8, <2>9, <2>10, <3>1, TopWritten
    <3> QED BY <1>2, <2>2, <2>8, <3>2
  <2> QED BY <2>6, <2>11 DEF Became
<1> QED BY <1>7, <1>8

\* Where a delegation is looked for.
LEMMA Found ==
    ASSUME NEW b, NEW A, NEW T, NEW B, NEW x, BookIs(b, A, T, B, x), NEW e \in T \cup B
    PROVE  /\ e \in T => /\ InTopToRemove(b, e.owner, e.amount)
                         /\ InTopToChange(b, e.owner, e.amount)
           /\ e \in B => /\ ~InTopToRemove(b, e.owner, e.amount)
                         /\ ~InTopToChange(b, e.owner, e.amount)
                         /\ InBottomToRemove(b, e.owner, e.amount)
                         /\ InBottomToChange(b, e.owner, e.amount)
                         /\ b.topCapacity = "full" /\ e.amount <= b.lowestTop
<1>0. /\ TopIs(b, A, T) /\ BottomIs(b, A, B, x) /\ Divided(T, B) /\ x \in Int
      /\ \A f \in T \cup B : f.amount \in Nat
      /\ Cardinality(T) \in Nat
  BY BookFacts
<1>1. /\ \A who : InTop(b, who) <=> \E t \in T : t.owner = who
      /\ \A who : InBottom(b, who) <=> \E t \in B : t.owner = who
  BY <1>0, TopChanges, BottomChanges
<1>2. /\ b.lowestTop \in Nat /\ \A y \in T : y.amount >= b.lowestTop
      /\ b.topCapacity = "full" <=> Cardinality(T) >= MaxTop
      /\ Cardinality(T) = 0 <=> T = {}
  BY <1>0, TopFacts
<1>3. b.highestBottom \in Nat /\ \A y \in B : y.amount <= b.highestBottom
  BY <1>0, BottomFacts
<1>4. CASE e \in T
  <2>1. InTop(b, e.owner) /\ e.amount >= b.lowestTop
    BY <1>1, <1>2, <1>4
  <2>2. e \notin B
    BY <1>0, <1>4 DEF Divided
  <2> QED BY <2>1, <2>2 DEF InTopToRemove, InTopToChange
<1>5. CASE e \in B
  <2>1. ~InTop(b, e.owner) /\ InBottom(b, e.owner)
    BY <1>0, <1>1, <1>5 DEF Divided
  <2>2. Cardinality(T) = MaxTop /\ T # {}
    BY <1>0, <1>2, <1>5, BookAssumption DEF Divided
  <2>3. b.topCapacity = "full"
    BY <1>0, <1>2, <2>2
  <2>4. \E t \in T : b.lowestTop = t.amount
    BY <1>0, <2>2, TopLast
  <2>5. \A y \in B : y.amount <= b.lowestTop
    BY <1>0, <2>4 DEF Divided
  <2>6. b.highestBottom <= b.lowestTop
    <3>0. B # {}
      BY <1>5
    <3>1. PICK y \in B : /\ y = Head(b.bottom.delegations) /\ b.highestBottom = y.amount
                         /\ \A z \in B : z.amount <= y.amount
                         /\ Holds(WithoutFirst(b.bottom), A, B \ {y}, x)
      BY <1>0, <3>0, BottomEnds
    <3> QED BY <2>5, <3>1
  <2>7. e.amount < b.lowestTop \/ b.lowestTop = b.highestBottom
    BY <1>0, <1>2, <1>3, <1>5, <2>5, <2>6
  <2>8. e \notin T
    BY <1>1, <2>1
  <2> QED BY <1>5, <2>1, <2>3, <2>5, <2>7, <2>8
         DEF InTopToRemove, InTopToChange, InBottomToRemove, InBottomToChange, Ambiguous
<1> QED BY <1>4, <1>5

LEMMA RemoveIs ==
    ASSUME NEW b, NEW A, NEW T, NEW B, NEW x, BookIs(b, A, T, B, x), NEW e \in T \cup B
    PROVE  /\ CanRemove(b, e.owner, e.amount)
           /\ Became(RemoveDelegation(b, e.owner, e.amount), b, A, (T \cup B) \ {e})
<1>1. CASE e \in T
  <2>1. InTopToRemove(b, e.owner, e.amount)
    BY <1>1, Found
  <2> QED BY <1>1, <2>1, RemoveTopIs DEF CanRemove, RemoveDelegation
<1>2. CASE e \in B
  <2> DEFINE n == b.count - 1
             left == [b EXCEPT !.count = n]
             list == Without(b.bottom, e.owner)
             r == ResetBottomData(left, list)
             V == B \ {e}
  <2>1. ~InTopToRemove(b, e.owner, e.amount) /\ InBottomToRemove(b, e.owner, e.amount)
    BY <1>2, Found
  <2>2. /\ DOMAIN b = BookFields /\ b.bond \in Nat /\ x \in Nat /\ x \in Int
        /\ TopIs(b, A, T) /\ BottomIs(b, A, B, x) /\ Divided(T, B) /\ IsFiniteSet(B)
        /\ \A f \in T : \A g \in B : f # g
    BY BookFacts
  <2>n. b.count = Cardinality(T) + Cardinality(B) /\ Cardinality(T) \in Nat /\ Cardinality(B) \in Nat
    BY BookFacts
  <2>3. RemoveDelegation(b, e.owner, e.amount) = r
    BY <2>1, <2>2 DEF RemoveDelegation, RemoveBottomDelegation, BookFields
  <2>4. Holds(list, A, V, x)
    BY <1>2, <2>2, BottomChanges
  <2>5. Cardinality(V) = Cardinality(B) - 1
    BY <1>2, <2>2, OneLess
  <2>6. /\ DOMAIN left = BookFields /\ left.bond = b.bond /\ left.count = n /\ SameTop(left, b)
    BY <2>2, CountOnly
  <2>7. T \cup V = (T \cup B) \ {e} /\ \A t \in T, y \in V : t.owner # y.owner /\ t.amount >= y.amount
    BY <1>2, <2>2 DEF Divided
  <2>8. /\ Cardinality(T) <= MaxTop /\ Cardinality(B) <= MaxBottom /\ Cardinality(T) = MaxTop
    BY <1>2, <2>2 DEF Divided
  <2> HIDE DEF left, list, V
  <2>9. Divided(T, V) /\ left.count = Cardinality(T) + Cardinality(V)
    BY <2>n, <2>5, <2>6, <2>7, <2>8, BookAssumption DEF Divided
  <2>10. TopIs(left, A, T) /\ left.bond \in Nat
    BY <2>2, <2>6, Same
  <2>11. BookIs(r, A, T, V, x) /\ r.bond = left.bond
    BY <2>2, <2>4, <2>6, <2>9, <2>10, BottomWritten
  <2> HIDE DEF r
  <2>12. Became(r, b, A, (T \cup B) \ {e})
    BY <2>6, <2>7, <2>11 DEF Became
  <2> QED BY <2>1, <2>3, <2>12 DEF CanRemove
<1> QED BY <1>1, <1>2

-----------------------------------------------------------------------------
(* A delegation changes                                                    *)

LEMMA IncreaseIs ==
    ASSUME NEW b, NEW A, NEW T, NEW B, NEW x, BookIs(b, A, T, B, x), NEW e \in T \cup B,
           NEW more \in Nat
    PROVE  /\ CanChange(b, e.owner, e.amount)
           /\ Became(IncreaseDelegation(b, e.owner, e.amount, more), b, A,
                     ((T \cup B) \ {e}) \cup {Changed(e, e.amount + more)})
<1> DEFINE z == Changed(e, e.amount + more)
           H == ((T \cup B) \ {e}) \cup {z}
<1>0. /\ DOMAIN b = BookFields /\ b.bond \in Nat /\ x \in Nat /\ x \in Int
      /\ TopIs(b, A, T) /\ BottomIs(b, A, B, x) /\ Divided(T, B)
      /\ IsFiniteSet(T) /\ IsFiniteSet(B)
      /\ T \in SUBSET Entries(A) /\ B \in SUBSET Entries(A)
      /\ \A f \in T \cup B : f.amount \in Nat /\ f.owner \in A
      /\ \A f \in T : \A g \in B : f # g
      /\ \A f, g \in T \cup B : f.owner = g.owner => f = g
  BY BookFacts
<1>n. b.count = Cardinality(T) + Cardinality(B) /\ Cardinality(T) \in Nat /\ Cardinality(B) \in Nat
  BY BookFacts
<1>1. /\ Cardinality(T) <= MaxTop /\ Cardinality(B) <= MaxBottom
      /\ B # {} => Cardinality(T) = MaxTop
      /\ \A t \in T, y \in B : t.owner # y.owner /\ t.amount >= y.amount
  BY <1>0 DEF Divided
<1>2. /\ z.amount = e.amount + more /\ z.owner = e.owner /\ z \in Entries(A)
      /\ z.amount \in Nat /\ z.amount >= e.amount
  BY <1>0 DEF Entries, Changed
<1>z. z = [owner |-> e.owner, amount |-> e.amount + more]
  BY DEF Changed
<1>w. more \in Int /\ e.amount + more \in Nat
  <2>1. e.amount \in Nat
    BY <1>0
  <2> QED BY <2>1
<1>c. Changed(e, e.amount + more) = z
  OBVIOUS
<1> HIDE DEF z
<1>3. \A f \in T \cup B : f # e => f.owner # z.owner /\ f # z
  BY <1>0, <1>2
<1>4. CASE e \in T
  <2> DEFINE list == Adjusted(b.top, e.owner, more)
             U == (T \ {e}) \cup {z}
  <2>1. InTopToChange(b, e.owner, e.amount)
    BY <1>4, Found
  <2>2. IncreaseDelegation(b, e.owner, e.amount, more) = ResetTopData(b, list)
    BY <2>1 DEF IncreaseDelegation, IncreaseTopDelegation
  <2>3. Holds(list, A, U, 0)
    <3>1. Holds(list, A, (T \ {e}) \cup {Changed(e, e.amount + more)}, 0)
      BY <1>0, <1>w, <1>4, TopChanges
    <3> QED BY <1>c, <3>1
  <2>4. Cardinality(U) = Cardinality(T)
    BY <1>0, <1>3, <1>4, OneOther
  <2>5. \A t \in U, y \in B : t.owner # y.owner /\ t.amount >= y.amount
    BY <1>0, <1>1, <1>2, <1>4
  <2>6. U \cup B = H
    BY <1>0, <1>4
  <2> HIDE DEF U, list, H
  <2>7. Divided(U, B) /\ b.count = Cardinality(U) + Cardinality(B)
    BY <1>n, <1>1, <2>4, <2>5 DEF Divided
  <2>8. BookIs(ResetTopData(b, list), A, U, B, x) /\ ResetTopData(b, list).bond = b.bond
    BY <1>0, <2>3, <2>7, TopWritten
  <2>9. Became(ResetTopData(b, list), b, A, H)
    BY <2>6, <2>8 DEF Became
  <2> QED BY <2>1, <2>2, <2>9 DEF CanChange, H, z
<1>5. CASE e \in B
  <2>1. /\ ~InTopToChange(b, e.owner, e.amount) /\ InBottomToChange(b, e.owner, e.amount)
        /\ b.topCapacity = "full" /\ e.amount <= b.lowestTop
    BY <1>5, Found
  <2> DEFINE raised == [owner |-> e.owner, amount |-> AmountOf(b.bottom, e.owner) + more]
             bottom == [Without(b.bottom, e.owner) EXCEPT !.total = b.bottom.total - e.amount]
  <2>2. IncreaseDelegation(b, e.owner, e.amount, more)
          = IF e.amount + more <= b.lowestTop
            THEN ResetBottomData(b, Adjusted(b.bottom, e.owner, more))
            ELSE ResetBottomData(ResetTopData(b, Insert(WithoutLast(b.top), raised)),
                                 Insert(bottom, Last(b.top.delegations)))
    <3>1. Capacity(b.top, MaxTop) = "full"
      BY <1>0, <2>1 DEF TopIs
    <3> QED BY <2>1, <3>1 DEF IncreaseDelegation, IncreaseBottomDelegation
  <2>3. CASE z.amount <= b.lowestTop
    <3> DEFINE list == Adjusted(b.bottom, e.owner, more)
               V == (B \ {e}) \cup {z}
    <3>1. IncreaseDelegation(b, e.owner, e.amount, more) = ResetBottomData(b, list)
      BY <1>2, <2>2, <2>3
    <3>2. Holds(list, A, V, x)
      <4>1. Holds(list, A, (B \ {e}) \cup {Changed(e, e.amount + more)}, x)
        BY <1>0, <1>w, <1>5, BottomChanges
      <4> QED BY <1>c, <4>1
    <3>3. Cardinality(V) = Cardinality(B)
      BY <1>0, <1>3, <1>5, OneOther
    <3>4. \A t \in T, y \in V : t.owner # y.owner /\ t.amount >= y.amount
      <4>1. b.lowestTop \in Nat /\ \A t \in T : t.amount >= b.lowestTop
        BY <1>0, TopFacts
      <4> QED BY <1>0, <1>1, <1>2, <1>5, <2>3, <4>1
    <3>5. T \cup V = H
      BY <1>0, <1>5
    <3> HIDE DEF V, list, H
    <3>6. Divided(T, V) /\ b.count = Cardinality(T) + Cardinality(V)
      BY <1>n, <1>1, <1>5, <3>3, <3>4 DEF Divided
    <3>7. BookIs(ResetBottomData(b, list), A, T, V, x) /\ ResetBottomData(b, list).bond = b.bond
      BY <1>0, <3>2, <3>6, BottomWritten
    <3>8. Became(ResetBottomData(b, list), b, A, H)
      BY <3>5, <3>7 DEF Became
    <3> QED BY <2>1, <3>1, <3>8 DEF CanChange, H, z
  <2>4. CASE ~(z.amount <= b.lowestTop)
    <3>1. raised = z /\ bottom = Without(b.bottom, e.owner)
      <4>1. AmountOf(b.bottom, e.owner) = e.amount
        BY <1>0, <1>5, BottomChanges
      <4>2. Without(b.bottom, e.owner).total = b.bottom.total - e.amount
        <5>1. Orderly(b.bottom.delegations, A) /\ ToSet(b.bottom.delegations) = B
          BY <1>0 DEF BottomIs, Holds
        <5> QED BY <1>5, <5>1, WithoutOrderly
      <4> QED BY <1>z, <4>1, <4>2 DEF Without
    <3>2. T # {}
      BY <1>0, <1>1, <1>5, TopFacts, BookAssumption
    <3>3. PICK l \in T : /\ l = Last(b.top.delegations) /\ b.lowestTop = l.amount
                         /\ \A y \in T : y.amount >= l.amount
                         /\ Holds(WithoutLast(b.top), A, T \ {l}, 0)
      BY <1>0, <3>2, TopLast
    <3> DEFINE up == Insert(WithoutLast(b.top), z)
               low == Insert(Without(b.bottom, e.owner), l)
               U == (T \ {l}) \cup {z}
               V == (B \ {e}) \cup {l}
               mid == ResetTopData(b, up)
               r == ResetBottomData(mid, low)
    <3>4. IncreaseDelegation(b, e.owner, e.amount, more) = r
      BY <1>2, <2>2, <2>4, <3>1, <3>3
    <3>5. Holds(up, A, U, 0)
      <4>1. PICK o \in Int : o = 0 /\ Holds(WithoutLast(b.top), A, T \ {l}, o)
        BY <3>3
      <4>2. \A y \in T \ {l} : y.owner # z.owner
        BY <1>0, <1>3, <1>5
      <4> QED BY <1>2, <4>1, <4>2, InsertHolds
    <3>6. Holds(low, A, V, x)
      <4>1. Holds(Without(b.bottom, e.owner), A, B \ {e}, x)
        BY <1>0, <1>5, BottomChanges
      <4>2. l \in Entries(A) /\ \A y \in B \ {e} : y.owner # l.owner
        BY <1>0, <1>1
      <4> QED BY <1>0, <4>1, <4>2, InsertHolds
    <3>7. Cardinality(U) = Cardinality(T) /\ Cardinality(V) = Cardinality(B)
      <4>1. z \notin T \ {l} /\ l \notin B \ {e}
        BY <1>0, <1>3, <1>5
      <4> QED BY <1>0, <1>5, <4>1, OneOther
    <3>8. \A t \in U, y \in V : t.owner # y.owner /\ t.amount >= y.amount
      <4>1. l.amount \in Nat /\ z.amount >= l.amount
        BY <1>0, <1>2, <2>4, <3>3
      <4>2. \A y \in V : y.amount <= l.amount /\ y.amount \in Nat
        BY <1>0, <1>1, <4>1
      <4>3. \A t \in U : t.amount >= l.amount /\ t.amount \in Nat
        BY <1>0, <1>2, <3>3, <4>1
      <4>4. \A t \in U, y \in V : t.owner # y.owner
        BY <1>0, <1>1, <1>2, <1>3, <1>5
      <4> HIDE DEF U, V
      <4> QED BY <4>1, <4>2, <4>3, <4>4
    <3>9. U \cup V = H
      BY <1>0, <1>5
    <3> HIDE DEF U, V, up, low, H
    <3>10. DOMAIN mid = BookFields /\ mid.bond = b.bond /\ mid.count = b.count /\ TopIs(mid, A, U)
      BY <1>0, <3>5, ResetTop
    <3> HIDE DEF mid
    <3>11. Divided(U, V) /\ mid.count = Cardinality(U) + Cardinality(V) /\ mid.bond \in Nat
      BY <1>0, <1>n, <1>1, <1>5, <3>7, <3>8, <3>10 DEF Divided
    <3>12. BookIs(r, A, U, V, x) /\ r.bond = mid.bond
      BY <1>0, <3>6, <3>10, <3>11, BottomWritten
    <3> HIDE DEF r
    <3>13. Became(r, b, A, H)
      BY <3>9, <3>10, <3>12 DEF Became
    <3> QED BY <2>1, <3>4, <3>13 DEF CanChange, H, z
  <2> QED BY <2>3, <2>4
<1> QED BY <1>4, <1>5

LEMMA DecreaseIs ==
    ASSUME NEW b, NEW A, NEW T, NEW B, NEW x, BookIs(b, A, T, B, x), NEW e \in T \cup B,
           NEW less \in Nat, e.amount - less \in Nat
    PROVE  /\ CanChange(b, e.owner, e.amount)
           /\ Became(DecreaseDelegation(b, e.owner, e.amount, less), b, A,
                     ((T \cup B) \ {e}) \cup {Changed(e, e.amount - less)})
<1> DEFINE z == Changed(e, e.amount - less)
           H == ((T \cup B) \ {e}) \cup {z}
<1>0. /\ DOMAIN b = BookFields /\ b.bond \in Nat /\ x \in Nat /\ x \in Int
      /\ TopIs(b, A, T) /\ BottomIs(b, A, B, x) /\ Divided(T, B)
      /\ IsFiniteSet(T) /\ IsFiniteSet(B)
      /\ T \in SUBSET Entries(A) /\ B \in SUBSET Entries(A)
      /\ \A f \in T \cup B : f.amount \in Nat /\ f.owner \in A
      /\ \A f \in T : \A g \in B : f # g
      /\ \A f, g \in T \cup B : f.owner = g.owner => f = g
  BY BookFacts
<1>n. b.count = Cardinality(T) + Cardinality(B) /\ Cardinality(T) \in Nat /\ Cardinality(B) \in Nat
  BY BookFacts
<1>1. /\ Cardinality(T) <= MaxTop /\ Cardinality(B) <= MaxBottom
      /\ B # {} => Cardinality(T) = MaxTop
      /\ \A t \in T, y \in B : t.owner # y.owner /\ t.amount >= y.amount
  BY <1>0 DEF Divided
<1>2. /\ z.amount = e.amount - less /\ z.owner = e.owner /\ z \in Entries(A)
      /\ z.amount \in Nat /\ z.amount <= e.amount
  BY <1>0 DEF Entries, Changed
<1>z. z = [owner |-> e.owner, amount |-> e.amount - less]
  BY DEF Changed
<1> HIDE DEF z
<1>3. \A f \in T \cup B : f # e => f.owner # z.owner /\ f # z
  BY <1>0, <1>2
<1>m. PICK delta \in Int : delta = 0 - less /\ e.amount + delta = e.amount - less /\ e.amount + delta \in Nat
  <2>1. e.amount \in Nat
    BY <1>0
  <2> QED BY <2>1
<1>c. Changed(e, e.amount + delta) = z
  BY <1>m DEF z
<1>4. CASE e \in T
  <2>1. InTopToChange(b, e.owner, e.amount)
    BY <1>4, Found
  <2>2. DecreaseDelegation(b, e.owner, e.amount, less) = DecreaseTopDelegation(b, e.owner, e.amount, less)
    BY <2>1 DEF DecreaseDelegation
  <2>h. b.highestBottom \in Nat /\ (b.bottomCapacity = "empty" <=> B = {}) /\ (B = {} => b.highestBottom = 0)
        /\ \A y \in B : y.amount <= b.highestBottom
    BY <1>0, BottomFacts
  <2>3. CASE z.amount < b.highestBottom /\ b.topCapacity = "full" /\ b.bottomCapacity # "empty"
    <3> DEFINE lowered == [owner |-> e.owner, amount |-> AmountOf(b.top, e.owner) - less]
    <3>1. lowered = z
      BY <1>0, <1>4, <1>z, TopChanges
    <3>2. B # {}
      BY <2>3, <2>h
    <3>3. PICK h \in B : /\ h = Head(b.bottom.delegations) /\ b.highestBottom = h.amount
                         /\ \A y \in B : y.amount <= h.amount
                         /\ Holds(WithoutFirst(b.bottom), A, B \ {h}, x)
      BY <1>0, <3>2, BottomEnds
    <3> DEFINE low == Insert(WithoutFirst(b.bottom), z)
               up == Insert(Without(b.top, e.owner), h)
               U == (T \ {e}) \cup {h}
               V == (B \ {h}) \cup {z}
               mid == ResetBottomData(b, low)
               r == ResetTopData(mid, up)
    <3>4. DecreaseDelegation(b, e.owner, e.amount, less) = r
      BY <1>2, <2>2, <2>3, <3>1, <3>3 DEF DecreaseTopDelegation
    <3>5. Holds(up, A, U, 0)
      <4>0. Holds(Without(b.top, e.owner), A, T \ {e}, 0)
        BY <1>0, <1>4, TopChanges
      <4>1. PICK o \in Int : o = 0 /\ Holds(Without(b.top, e.owner), A, T \ {e}, o)
        BY <4>0
      <4>2. h \in Entries(A) /\ \A y \in T \ {e} : y.owner # h.owner
        BY <1>0, <1>1
      <4> QED BY <4>1, <4>2, InsertHolds
    <3>6. Holds(low, A, V, x)
      <4>1. \A y \in B \ {h} : y.owner # z.owner
        BY <1>0, <1>3, <1>4
      <4> QED BY <1>0, <1>2, <3>3, <4>1, InsertHolds
    <3>7. Cardinality(U) = Cardinality(T) /\ Cardinality(V) = Cardinality(B)
      <4>1. h \notin T \ {e} /\ z \notin B \ {h}
        BY <1>0, <1>3, <1>4
      <4> QED BY <1>0, <1>4, <4>1, OneOther
    <3>8. \A t \in U, y \in V : t.owner # y.owner /\ t.amount >= y.amount
      <4>1. h.amount \in Nat /\ z.amount <= h.amount
        BY <1>0, <1>2, <2>3, <3>3
      <4>2. \A y \in V : y.amount <= h.amount /\ y.amount \in Nat
        BY <1>0, <1>2, <3>3, <4>1
      <4>3. \A t \in U : t.amount >= h.amount /\ t.amount \in Nat
        BY <1>0, <1>1, <4>1
      <4>4. \A t \in U, y \in V : t.owner # y.owner
        BY <1>0, <1>1, <1>2, <1>3, <1>4
      <4> HIDE DEF U, V
      <4> QED BY <4>1, <4>2, <4>3, <4>4
    <3>9. U \cup V = H
      BY <1>0, <1>4
    <3> HIDE DEF U, V, up, low, H
    <3>10. DOMAIN mid = BookFields /\ mid.bond = b.bond /\ mid.count = b.count /\ BottomIs(mid, A, V, x)
      BY <1>0, <3>6, ResetBottom
    <3> HIDE DEF mid
    <3>11. Divided(U, V) /\ mid.count = Cardinality(U) + Cardinality(V) /\ mid.bond \in Nat
      BY <1>0, <1>n, <1>1, <3>2, <3>7, <3>8, <3>10 DEF Divided
    <3>12. BookIs(r, A, U, V, x) /\ r.bond = mid.bond
      BY <1>0, <3>5, <3>10, <3>11, TopWritten
    <3> HIDE DEF r
    <3>13. Became(r, b, A, H)
      BY <3>9, <3>10, <3>12 DEF Became
    <3> QED BY <2>1, <3>4, <3>13 DEF CanChange, H, z
  <2>4. CASE ~(z.amount < b.highestBottom /\ b.topCapacity = "full" /\ b.bottomCapacity # "empty")
    <3> DEFINE list == Adjusted(b.top, e.owner, delta)
               U == (T \ {e}) \cup {z}
    <3>1. DecreaseDelegation(b, e.owner, e.amount, less) = ResetTopData(b, list)
      BY <1>2, <1>m, <2>2, <2>4 DEF DecreaseTopDelegation
    <3>2. Holds(list, A, U, 0)
      <4>1. Holds(list, A, (T \ {e}) \cup {Changed(e, e.amount + delta)}, 0)
        BY <1>0, <1>m, <1>4, TopChanges
      <4> QED BY <1>c, <4>1
    <3>3. Cardinality(U) = Cardinality(T)
      BY <1>0, <1>3, <1>4, OneOther
    <3>4. \A t \in U, y \in B : t.owner # y.owner /\ t.amount >= y.amount
      <4>1. B # {} => z.amount >= b.highestBottom
        <5>1. B # {} => b.topCapacity = "full"
          BY <1>0, <1>1, <1>n, TopFacts
        <5> QED BY <1>2, <2>4, <2>h, <5>1
      <4> QED BY <1>0, <1>1, <1>2, <1>4, <2>h, <4>1
    <3>5. U \cup B = H
      BY <1>0, <1>4
    <3> HIDE DEF U, list, H
    <3>6. Divided(U, B) /\ b.count = Cardinality(U) + Cardinality(B)
      BY <1>n, <1>1, <3>3, <3>4 DEF Divided
    <3>7. BookIs(ResetTopData(b, list), A, U, B, x) /\ ResetTopData(b, list).bond = b.bond
      BY <1>0, <3>2, <3>6, TopWritten
    <3>8. Became(ResetTopData(b, list), b, A, H)
      BY <3>5, <3>7 DEF Became
    <3> QED BY <2>1, <3>1, <3>8 DEF CanChange, H, z
  <2> QED BY <2>3, <2>4
<1>5. CASE e \in B
  <2>1. ~InTopToChange(b, e.owner, e.amount) /\ InBottomToChange(b, e.owner, e.amount)
    BY <1>5, Found
  <2> DEFINE list == [Adjusted(b.bottom, e.owner, delta) EXCEPT !.total = b.bottom.total]
             V == (B \ {e}) \cup {z}
             y == x + less
  <2>2. DecreaseDelegation(b, e.owner, e.amount, less) = ResetBottomData(b, list)
    BY <1>m, <2>1 DEF DecreaseDelegation, DecreaseBottomDelegation
  <2>3. Holds(list, A, V, y)
    <3>1. Holds(Adjusted(b.bottom, e.owner, delta), A, (B \ {e}) \cup {Changed(e, e.amount + delta)}, x)
      BY <1>0, <1>m, <1>5, BottomChanges
    <3>2. Holds(Adjusted(b.bottom, e.owner, delta), A, V, x)
      BY <1>c, <3>1
    <3>3. Adjusted(b.bottom, e.owner, delta).total = b.bottom.total + delta
      BY DEF Adjusted
    <3>4. Weight(V) \in Nat /\ Weight(B) \in Nat
      <4>1. Holds(b.bottom, A, B, x)
        BY <1>0 DEF BottomIs
      <4> HIDE DEF V
      <4> QED BY <1>0, <3>2, <4>1, HoldsFacts
    <3>5. b.bottom.total \in Int
      BY <1>0, <3>4 DEF BottomIs, Holds
    <3>6. b.bottom.total = Weight(V) + y
      <4>1. b.bottom.total + delta = Weight(V) + x
        BY <3>2, <3>3 DEF Holds
      <4> HIDE DEF V
      <4> QED BY <1>0, <1>m, <3>4, <3>5, <4>1
    <3>7. list.delegations = Adjusted(b.bottom, e.owner, delta).delegations /\ list.total = b.bottom.total
      BY DEF Adjusted
    <3> QED BY <3>2, <3>6, <3>7 DEF Holds
  <2>4. Cardinality(V) = Cardinality(B)
    BY <1>0, <1>3, <1>5, OneOther
  <2>5. \A t \in T, v \in V : t.owner # v.owner /\ t.amount >= v.amount
    BY <1>0, <1>1, <1>2, <1>5
  <2>6. T \cup V = H
    BY <1>0, <1>5
  <2>7. y \in Nat
    BY <1>0
  <2> HIDE DEF V, list, H, y
  <2>8. Divided(T, V) /\ b.count = Cardinality(T) + Cardinality(V)
    BY <1>n, <1>1, <1>5, <2>4, <2>5 DEF Divided
  <2>9. BookIs(ResetBottomData(b, list), A, T, V, y) /\ ResetBottomData(b, list).bond = b.bond
    BY <1>0, <2>3, <2>7, <2>8, BottomWritten
  <2>10. Became(ResetBottomData(b, list), b, A, H)
    BY <2>6, <2>9 DEF Became
  <2> QED BY <2>1, <2>2, <2>10 DEF CanChange, H, z
<1> QED BY <1>4, <1>5

-----------------------------------------------------------------------------
(* What such a book is worth to its readers                                *)

\* The owners are as many as the delegations.
LEMMA OwnersCounted ==
    ASSUME NEW S, IsFiniteSet(S), \A e, f \in S : e.owner = f.owner => e = f
    PROVE  Cardinality({e.owner : e \in S}) = Cardinality(S)
<1> DEFINE O == {e.owner : e \in S}
           m == [e \in S |-> e.owner]
<1>1. m \in Bijection(S, O)
  <2>1. m \in [S -> O] /\ \A e, f \in S : m[e] = m[f] => e = f
    OBVIOUS
  <2>2. \A o \in O : \E e \in S : m[e] = o
    OBVIOUS
  <2> HIDE DEF m, O
  <2> QED BY <2>1, <2>2 DEF Bijection, Injection, Surjection, IsInjective
<1>2. ExistsBijection(S, O)
  BY <1>1 DEF ExistsBijection
<1> HIDE DEF m, O
<1>3. Cardinality(O) = Cardinality(S)
  BY <1>2, FS_Bijection
<1> QED BY <1>3 DEF O

LEMMA BookInOrder ==
    ASSUME NEW b, NEW A, NEW T, NEW B, NEW x, BookIs(b, A, T, B, x)
    PROVE  BookOrdered(b) /\ MetadataExact(b)
<1>0. /\ x \in Int /\ TopIs(b, A, T) /\ BottomIs(b, A, B, x) /\ Divided(T, B)
      /\ b.count = Cardinality(T) + Cardinality(B)
      /\ IsFiniteSet(T) /\ IsFiniteSet(B) /\ Cardinality(T) \in Nat /\ Cardinality(B) \in Nat
      /\ \A e, f \in T \cup B : e.owner = f.owner => e = f
      /\ \A e \in T : \A f \in B : e # f
  BY BookFacts
<1>1. /\ Orderly(b.top.delegations, A) /\ ToSet(b.top.delegations) = T
      /\ Orderly(b.bottom.delegations, A) /\ ToSet(b.bottom.delegations) = B
  BY <1>0 DEF TopIs, BottomIs, Holds
<1>2. /\ Len(b.top.delegations) = Cardinality(T) /\ Len(b.bottom.delegations) = Cardinality(B)
      /\ b.bottom.delegations = <<>> <=> B = {}
      /\ b.top.delegations = <<>> <=> T = {}
      /\ Cardinality(T) = 0 <=> T = {}
      /\ Weight(T) \in Nat
  BY <1>0, TopFacts, BottomFacts
<1>3. Sorted(b.top) /\ Sorted(b.bottom)
  BY <1>1 DEF Orderly, Descending, Sorted
<1>4. Cardinality(Owners(b.top) \cup Owners(b.bottom)) = Cardinality(T) + Cardinality(B)
  <2>1. Owners(b.top) \cup Owners(b.bottom) = {e.owner : e \in T \cup B}
    BY <1>1 DEF Owners
  <2>2. IsFiniteSet(T \cup B) /\ Cardinality(T \cup B) = Cardinality(T) + Cardinality(B)
    <3>1. T \cap B = {}
      BY <1>0
    <3>2. Cardinality(T \cap B) = 0
      BY <3>1, FS_EmptySet
    <3>3. IsFiniteSet(T \cup B)
         /\ Cardinality(T \cup B) = Cardinality(T) + Cardinality(B) - Cardinality(T \cap B)
      BY <1>0, FS_Union
    <3> QED BY <1>0, <3>2, <3>3
  <2>3. Cardinality({e.owner : e \in T \cup B}) = Cardinality(T \cup B)
    BY <1>0, <2>2, OwnersCounted
  <2> QED BY <2>1, <2>2, <2>3
<1>5. B # {} => Lowest(b.top) >= Highest(b.bottom)
  <2> SUFFICES ASSUME B # {} PROVE Lowest(b.top) >= Highest(b.bottom)
    OBVIOUS
  <2>1. T # {}
    BY <1>0, <1>2, BookAssumption DEF Divided
  <2>2. PICK t \in T : Last(b.top.delegations) = t
    BY <1>1, <1>2, <2>1, EndsExtreme
  <2>3. PICK h \in B : Head(b.bottom.delegations) = h
    BY <1>1, <1>2, EndsExtreme
  <2> QED BY <1>0, <1>2, <2>1, <2>2, <2>3 DEF Lowest, Highest, Divided
<1>6. BookOrdered(b)
  BY <1>0, <1>2, <1>3, <1>4, <1>5 DEF BookOrdered, Divided
<1>7. b.top.total = Weight(T)
  <2>1. b.top.total = Weight(T) + 0
    BY <1>0 DEF TopIs, Holds
  <2> QED BY <1>2, <2>1
<1>8. SumOf(b.top) = Weight(T)
  BY <1>1, SumIsWeight
<1> QED BY <1>0, <1>2, <1>6, <1>7, <1>8 DEF MetadataExact, TopIs, BottomIs

-----------------------------------------------------------------------------
(* The search for the place of a delegation                                *)

\* Top and bottom together, the greatest first.
LEMMA AllDescend ==
    ASSUME NEW b, NEW A, NEW T, NEW B, NEW x, BookIs(b, A, T, B, x)
    PROVE  LET all == b.top.delegations \o b.bottom.delegations
           IN  all \in Seq(Entries(A)) /\ Descending(all)
<1> DEFINE s == b.top.delegations
           t == b.bottom.delegations
           all == s \o t
<1>0. /\ x \in Int /\ TopIs(b, A, T) /\ BottomIs(b, A, B, x) /\ Divided(T, B)
  BY BookFacts
<1>1. Orderly(s, A) /\ ToSet(s) = T /\ Orderly(t, A) /\ ToSet(t) = B
  BY <1>0 DEF TopIs, BottomIs, Holds
<1> HIDE DEF s, t
<1>2. /\ s \in Seq(Entries(A)) /\ Len(s) \in Nat /\ DOMAIN s = 1 .. Len(s)
      /\ \A i \in 1 .. Len(s) : s[i] \in T /\ s[i].amount \in Nat
      /\ t \in Seq(Entries(A)) /\ Len(t) \in Nat /\ DOMAIN t = 1 .. Len(t)
      /\ \A i \in 1 .. Len(t) : t[i] \in B /\ t[i].amount \in Nat
  BY <1>1, ListFacts DEF Entries
<1>3. all \in Seq(Entries(A)) /\ IsJoin(all, s, t)
  BY <1>2, Joined
<1> HIDE DEF all
<1>4. /\ Len(all) = Len(s) + Len(t) /\ DOMAIN all = 1 .. Len(all)
      /\ \A i \in 1 .. Len(s) : all[i] = s[i]
      /\ \A i \in 1 .. Len(t) : all[Len(s) + i] = t[i]
  BY <1>3 DEF IsJoin
<1>5. \A i \in 1 .. Len(all) : \/ i \in 1 .. Len(s) /\ all[i] = s[i]
                               \/ i - Len(s) \in 1 .. Len(t) /\ all[i] = t[i - Len(s)]
  <2> SUFFICES ASSUME NEW i \in 1 .. Len(all), i \notin 1 .. Len(s)
               PROVE  i - Len(s) \in 1 .. Len(t) /\ all[i] = t[i - Len(s)]
    BY <1>4
  <2>1. PICK j \in 1 .. Len(t) : Len(s) + j = i /\ i - Len(s) = j
    <3>1. i - Len(s) \in 1 .. Len(t) /\ Len(s) + (i - Len(s)) = i
      BY <1>2, <1>4
    <3> QED BY <3>1
  <2>2. all[Len(s) + j] = t[j]
    BY Zenon, <1>4
  <2>3. all[i] = t[j]
    BY Zenon, <2>1, <2>2
  <2>4. i - Len(s) \in 1 .. Len(t) /\ t[i - Len(s)] = t[j]
    BY Zenon, <2>1
  <2> QED BY Zenon, <2>3, <2>4
<1>6. ASSUME NEW i \in 1 .. Len(all), NEW j \in 1 .. Len(all), i < j
      PROVE  all[i].amount >= all[j].amount
  <2>1. CASE i \in 1 .. Len(s) /\ all[i] = s[i] /\ j \in 1 .. Len(s) /\ all[j] = s[j]
    BY <1>1, <1>2, <1>6, <2>1 DEF Orderly, Descending
  <2>2. CASE /\ i \in 1 .. Len(s) /\ all[i] = s[i]
             /\ j - Len(s) \in 1 .. Len(t) /\ all[j] = t[j - Len(s)]
    BY <1>0, <1>2, <2>2 DEF Divided
  <2>3. CASE /\ i - Len(s) \in 1 .. Len(t) /\ all[i] = t[i - Len(s)]
             /\ j - Len(s) \in 1 .. Len(t) /\ all[j] = t[j - Len(s)]
    <3>1. i - Len(s) < j - Len(s)
      BY <1>2, <1>4, <1>6
    <3> QED BY <1>1, <1>2, <2>3, <3>1 DEF Orderly, Descending
  <2>4. CASE /\ i - Len(s) \in 1 .. Len(t) /\ j \in 1 .. Len(s)
    BY <1>2, <1>4, <1>6, <2>4
  <2> QED BY <1>5, <2>1, <2>2, <2>3, <2>4
<1>7. Descending(all)
  BY <1>4, <1>6 DEF Descending
<1> QED BY <1>3, <1>7 DEF all, s, t

LEMMA SearchFinds ==
    ASSUME NEW A, NEW s \in Seq(Entries(A)), Descending(s),
           NEW d \in Entries(A), NEW found \in SearchResults(s, d)
    PROVE  InsertSearched(s, d, found) = InsertSorted(s, d)
<1> DEFINE n == Len(s)
           v == d.amount
           Above == {i \in DOMAIN s : s[i].amount > v}
           AtLeast == {i \in DOMAIN s : s[i].amount >= v}
           past == {i \in found .. n : s[i].amount # v}
<1>1. /\ n \in Nat /\ DOMAIN s = 1 .. n /\ v \in Nat
      /\ \A i \in 1 .. n : s[i].amount \in Nat
      /\ \A i, j \in 1 .. n : i < j => s[i].amount >= s[j].amount
  <2>1. n \in Nat /\ DOMAIN s = 1 .. n /\ \A i \in 1 .. n : s[i] \in Entries(A)
    OBVIOUS
  <2>2. \A i \in 1 .. n : s[i].amount \in Nat
    BY <2>1 DEF Entries
  <2>3. v \in Nat
    BY DEF Entries
  <2> QED BY <2>1, <2>2, <2>3 DEF Descending
<1> HIDE DEF n, v
<1>2. PICK m \in 0 .. n : AtLeast = 1 .. m /\ Cardinality(AtLeast) = m
  <2>1. AtLeast \in SUBSET (1 .. n)
    BY <1>1
  <2>2. \A i \in AtLeast, j \in 1 .. n : j <= i => j \in AtLeast
    <3> SUFFICES ASSUME NEW i \in AtLeast, NEW j \in 1 .. n, j < i PROVE j \in AtLeast
      BY <1>1
    <3>1. s[j].amount >= s[i].amount /\ s[i].amount >= v /\ s[i].amount \in Nat /\ s[j].amount \in Nat
      BY <1>1
    <3> QED BY <1>1, <3>1
  <2> HIDE DEF AtLeast
  <2> QED BY <1>1, <2>1, <2>2, Interval
<1>3. PICK k \in 0 .. n : Above = 1 .. k /\ Cardinality(Above) = k
  <2>1. Above \in SUBSET (1 .. n)
    BY <1>1
  <2>2. \A i \in Above, j \in 1 .. n : j <= i => j \in Above
    <3> SUFFICES ASSUME NEW i \in Above, NEW j \in 1 .. n, j < i PROVE j \in Above
      BY <1>1
    <3>1. s[j].amount >= s[i].amount /\ s[i].amount > v /\ s[i].amount \in Nat /\ s[j].amount \in Nat
      BY <1>1
    <3> QED BY <1>1, <3>1
  <2> HIDE DEF Above
  <2> QED BY <1>1, <2>1, <2>2, Interval
<1>4. /\ \A i \in 1 .. n : s[i].amount >= v <=> i <= m
      /\ \A i \in 1 .. n : s[i].amount > v <=> i <= k
      /\ \A i \in 1 .. n : s[i].amount = v <=> k < i /\ i <= m
  <2>1. \A i \in 1 .. n : (i \in AtLeast <=> i <= m) /\ (i \in Above <=> i <= k)
    BY <1>2, <1>3
  <2>2. \A i \in 1 .. n : (s[i].amount >= v <=> i <= m) /\ (s[i].amount > v <=> i <= k)
    BY <1>1, <2>1
  <2> QED BY <1>1, <2>2
<1>5. InsertSorted(s, d) = InsertAt(s, m + 1, d)
  BY <1>2 DEF InsertSorted, v
<1>6. InsertAt(s, n + 1, d) = Append(s, d)
  <2>1. SubSeq(s, 1, n) = s /\ SubSeq(s, n + 1, n) = <<>>
    BY DEF n
  <2>2. InsertAt(s, n + 1, d) = SubSeq(s, 1, (n + 1) - 1) \o <<d>> \o SubSeq(s, n + 1, n)
    BY DEF InsertAt, n
  <2>3. (n + 1) - 1 = n
    BY <1>1
  <2>4. SubSeq(s, 1, n) \o <<d>> \o <<>> = Append(s, d)
    <3>1. Append(s, d) = s \o <<d>> /\ Append(s, d) \in Seq(Entries(A))
      BY AppendIsConcat, AppendProperties
    <3>2. Append(s, d) \o <<>> = Append(s, d)
      BY <3>1, ConcatEmptySeq
    <3> QED BY <2>1, <3>1, <3>2
  <2> QED BY <2>1, <2>2, <2>3, <2>4
<1>7. s # <<>> => Last(s) = s[n] /\ n >= 1
  BY DEF Last, n
<1>8. CASE s # <<>> /\ Last(s).amount = v
  <2>1. m = n
    BY <1>1, <1>4, <1>7, <1>8
  <2> QED BY <1>5, <1>6, <1>8, <2>1 DEF InsertSearched, v
<1>9. CASE ~(s # <<>> /\ Last(s).amount = v)
  <2>1. n >= 1 => s # <<>> /\ s[n].amount # v
    <3>1. n >= 1 => s # <<>>
      BY DEF n
    <3> QED BY <1>7, <1>9, <3>1
  <2>2. CASE found \in DOMAIN s /\ s[found].amount = v
    <3>1. k < found /\ found <= m /\ m < n /\ found \in 1 .. n
      BY <1>1, <1>4, <2>1, <2>2
    <3>2. past = m + 1 .. n
      BY <1>1, <1>4, <3>1
    <3>3. (CHOOSE i \in past : \A j \in past : i <= j) = m + 1 /\ past # {}
      <4>1. m + 1 \in past /\ \A j \in past : m + 1 <= j
        BY <1>1, <3>1, <3>2
      <4>2. \A i \in past : (\A j \in past : i <= j) => i = m + 1
        BY <1>1, <3>1, <3>2, <4>1
      <4> HIDE DEF past
      <4> QED BY <4>1, <4>2
    <3> QED BY <1>5, <1>9, <2>2, <3>3 DEF InsertSearched, v, n
  <2>3. CASE ~(found \in DOMAIN s /\ s[found].amount = v)
    <3>1. \A i \in DOMAIN s : s[i].amount # v
      BY <2>3 DEF SearchResults, v
    <3>2. found = Cardinality(Above)
      BY <3>1 DEF SearchResults, v
    <3>3. m = k
      <4>1. \A i \in 1 .. n : i <= m <=> i <= k
        <5> SUFFICES ASSUME NEW i \in 1 .. n PROVE i <= m <=> i <= k
          OBVIOUS
        <5>1. s[i].amount # v /\ s[i].amount \in Nat /\ v \in Nat
          BY <1>1, <3>1
        <5>2. (s[i].amount >= v <=> i <= m) /\ (s[i].amount > v <=> i <= k)
          BY <1>4
        <5> QED BY <5>1, <5>2
      <4>2. m <= n /\ k <= n /\ m \in Nat /\ k \in Nat
        BY <1>1
      <4>3. ~(m < k)
        BY <4>1, <4>2, <1>1
      <4>4. ~(k < m)
        BY <4>1, <4>2, <1>1
      <4> QED BY <4>2, <4>3, <4>4
    <3>4. found + 1 = m + 1
      BY <1>3, <3>2, <3>3
    <3> QED BY <1>5, <1>9, <2>3, <3>4 DEF InsertSearched, v
  <2> QED BY <2>2, <2>3
<1> QED BY <1>8, <1>9

-----------------------------------------------------------------------------
(* The other ways a book comes about                                       *)

LEMMA NewBookIs ==
    ASSUME NEW bond \in Nat, NEW A
    PROVE  BookIs(NewBook(bond), A, {}, {}, 0) /\ NewBook(bond).bond = bond
<1> DEFINE b == NewBook(bond)
<1>1. /\ DOMAIN b = BookFields /\ b.bond = bond /\ b.count = 0 /\ b.counted = bond
      /\ b.lowestTop = 0 /\ b.highestBottom = 0 /\ b.lowestBottom = 0
      /\ b.topCapacity = "empty" /\ b.bottomCapacity = "empty"
      /\ b.top.delegations = <<>> /\ b.top.total = 0
      /\ b.bottom.delegations = <<>> /\ b.bottom.total = 0
  BY DEF NewBook, BookFields, EmptyList
<1> HIDE DEF b
<1>2. Orderly(<<>>, A) /\ ToSet(<<>>) = {}
  BY DEF Orderly, OneEach, Descending, ToSet
<1>3. Holds(b.top, A, {}, 0) /\ Holds(b.bottom, A, {}, 0)
  BY <1>1, <1>2, WeightEmpty DEF Holds
<1>4. Capacity(b.top, MaxTop) = "empty" /\ Capacity(b.bottom, MaxBottom) = "empty"
      /\ Lowest(b.top) = 0 /\ Lowest(b.bottom) = 0 /\ Highest(b.bottom) = 0
  <2>1. Len(<<>>) = 0 /\ ~(0 >= MaxTop) /\ ~(0 >= MaxBottom)
    BY BookAssumption
  <2> QED BY <1>1, <2>1 DEF Capacity, Lowest, Highest
<1>5. TopIs(b, A, {}) /\ BottomIs(b, A, {}, 0)
  BY <1>1, <1>3, <1>4, WeightEmpty DEF TopIs, BottomIs
<1>6. Cardinality({}) = 0
  BY FS_EmptySet
<1>7. Divided({}, {})
  BY <1>6, BookAssumption DEF Divided
<1> QED BY <1>1, <1>5, <1>6, <1>7 DEF BookIs, b

LEMMA RebondIs ==
    ASSUME NEW b, NEW A, NEW T, NEW B, NEW x, BookIs(b, A, T, B, x),
           NEW delta \in Int, b.bond + delta \in Nat
    PROVE  LET r == [b EXCEPT !.bond = @ + delta, !.counted = @ + delta]
           IN  BookIs(r, A, T, B, x) /\ r.bond = b.bond + delta
<1> DEFINE r == [b EXCEPT !.bond = @ + delta, !.counted = @ + delta]
<1>0. /\ DOMAIN b = BookFields /\ b.bond \in Nat /\ x \in Nat
      /\ TopIs(b, A, T) /\ BottomIs(b, A, B, x) /\ Divided(T, B)
      /\ b.count = Cardinality(T) + Cardinality(B)
  BY BookFacts
<1>1. /\ DOMAIN r = BookFields /\ r.bond = b.bond + delta /\ r.counted = b.counted + delta
      /\ r.count = b.count /\ r.top = b.top /\ r.lowestTop = b.lowestTop
      /\ r.topCapacity = b.topCapacity
      /\ SameBottom(r, b)
  BY <1>0 DEF BookFields, SameBottom
<1> HIDE DEF r
<1>2. Weight(T) \in Nat
  BY <1>0, TopFacts
<1>3. r.counted = r.bond + Weight(T)
  <2>1. b.counted = b.bond + Weight(T)
    BY <1>0 DEF TopIs
  <2> QED BY <1>0, <1>1, <1>2, <2>1
<1>4. TopIs(r, A, T)
  BY <1>0, <1>1, <1>3 DEF TopIs
<1>5. BottomIs(r, A, B, x)
  BY <1>0, <1>1, Same
<1>6. BookIs(r, A, T, B, x)
  BY <1>0, <1>1, <1>4, <1>5 DEF BookIs
<1> QED BY <1>1, <1>6 DEF r

-----------------------------------------------------------------------------
(* All the shares of a reward together                                     *)

LEMMA SumScaled ==
    ASSUME NEW S, IsFiniteSet(S), NEW f, NEW g, NEW k \in Int,
           \A x \in S : f[x] \in Int /\ g[x] = k * f[x]
    PROVE  SumFunctionOnSet(g, S) = k * SumFunctionOnSet(f, S)
<1> DEFINE C == {T \in SUBSET S : SumFunctionOnSet(g, T) = k * SumFunctionOnSet(f, T)}
<1>0. \A x \in S : g[x] \in Int
  OBVIOUS
<1>1. {} \in C
  <2>1. k * 0 = 0
    OBVIOUS
  <2> QED BY <2>1, SumEmpty
<1>2. ASSUME NEW T \in SUBSET S, NEW x \in S \ T, T \in C PROVE T \cup {x} \in C
  <2>1. IsFiniteSet(T)
    BY FS_Subset
  <2>2. /\ SumFunctionOnSet(f, T \cup {x}) = f[x] + SumFunctionOnSet(f, T)
        /\ SumFunctionOnSet(f, T) \in Int
    BY <2>1, SumAdds, SumType
  <2>3. SumFunctionOnSet(g, T \cup {x}) = g[x] + SumFunctionOnSet(g, T)
    BY <1>0, <2>1, SumAdds
  <2> DEFINE a == SumFunctionOnSet(f, T)
             y == f[x]
  <2>4. SumFunctionOnSet(g, T \cup {x}) = k * y + k * a
    BY <1>2, <2>3
  <2>5. y \in Int /\ a \in Int
    BY <2>2
  <2> HIDE DEF a, y
  <2>6. k * (y + a) = k * y + k * a
    BY <2>5
  <2>7. SumFunctionOnSet(f, T \cup {x}) = y + a
    BY <2>2 DEF a, y
  <2>8. SumFunctionOnSet(g, T \cup {x}) = k * SumFunctionOnSet(f, T \cup {x})
    BY <2>4, <2>6, <2>7
  <2>9. T \cup {x} \in SUBSET S
    OBVIOUS
  <2> QED BY <2>8, <2>9
<1> HIDE DEF C
<1>3. S \in C
  BY <1>1, <1>2, SetInduction
<1> QED BY <1>3 DEF C

\* Each term may be off by k.
LEMMA SumWithin ==
    ASSUME NEW S, IsFiniteSet(S), NEW f, NEW g, NEW k \in Int,
           \A x \in S : f[x] \in Int /\ g[x] \in Int /\ f[x] <= g[x] + k
    PROVE  SumFunctionOnSet(f, S) <= SumFunctionOnSet(g, S) + k * Cardinality(S)
<1> DEFINE h == [x \in S |-> k]
           e == [x \in S |-> g[x] + k]
<1>1. \A x \in S : h[x] \in Int /\ e[x] = g[x] + h[x] /\ e[x] \in Int /\ f[x] <= e[x]
  OBVIOUS
<1>2. SumFunctionOnSet(h, S) = k * Cardinality(S)
  BY SumOfEquals
<1> HIDE DEF h, e
<1>3. SumFunctionOnSet(f, S) <= SumFunctionOnSet(e, S)
  BY <1>1, SumMonotone
<1>4. SumFunctionOnSet(e, S) = SumFunctionOnSet(g, S) + SumFunctionOnSet(h, S)
  BY <1>1, SumPlus
<1> QED BY <1>2, <1>3, <1>4

\* What the shares of all those of a snapshot add up to.
SharesOf(snapshot, due) ==
    [d \in DOMAIN snapshot.delegations |-> ShareOf(snapshot.delegations[d], due, snapshot)]
AllShares(snapshot, due) ==
    ShareOf(snapshot.bond, due, snapshot) + SumFunction(SharesOf(snapshot, due))

\* A snapshot counts the bond and what the delegations earn on.
Snapshot(snapshot) ==
    /\ IsFiniteSet(DOMAIN snapshot.delegations) /\ snapshot.bond \in Nat
    /\ \A d \in DOMAIN snapshot.delegations : snapshot.delegations[d] \in Nat
    /\ snapshot.total = snapshot.bond + SumFunction(snapshot.delegations)

LEMMA SnapshotFacts ==
    ASSUME NEW snapshot, Snapshot(snapshot)
    PROVE  /\ snapshot.total \in Nat /\ SumFunction(snapshot.delegations) \in Nat
           /\ snapshot.bond \in 0 .. snapshot.total
           /\ \A d \in DOMAIN snapshot.delegations : snapshot.delegations[d] \in 0 .. snapshot.total
<1> DEFINE f == snapshot.delegations
           S == DOMAIN f
<1>1. IsFiniteSet(S) /\ \A d \in S : f[d] \in Nat
  BY DEF Snapshot
<1>2. SumFunction(f) = SumFunctionOnSet(f, S)
  BY SumIs
<1> HIDE DEF f, S
<1>3. SumFunctionOnSet(f, S) \in Nat /\ \A d \in S : f[d] <= SumFunctionOnSet(f, S)
  BY <1>1, SumNat, SumCovers
<1>4. SumFunction(f) \in Nat /\ \A d \in S : f[d] \in Nat /\ f[d] <= SumFunction(f)
  BY <1>1, <1>2, <1>3
<1>5. snapshot.bond \in Nat /\ snapshot.total = snapshot.bond + SumFunction(f)
  BY DEF Snapshot, f
<1>6. \A d \in S : f[d] \in 0 .. snapshot.total
  BY <1>4, <1>5
<1> QED BY <1>4, <1>5, <1>6 DEF f, S

\* Nobody gets anything of a snapshot that counts nothing.
LEMMA NothingCounted ==
    ASSUME NEW snapshot, snapshot.total = 0, NEW due \in Nat
    PROVE  ShareOf(0, due, snapshot) = 0
<1>1. FromRational(0, snapshot.total) = 0
  <2>1. MaxOfTwo(0, 1) = 1 /\ MinOfTwo(0, 1) = 0
    BY DEF MinOfTwo, MaxOfTwo
  <2>2. 0 * Accuracy = 0 /\ 0 \div 1 = 0
    BY AccuracyAssumption
  <2> QED BY <2>1, <2>2 DEF FromRational
<1> QED BY <1>1, NoParts DEF ShareOf

\* Together the shares come to what is due, within half a unit and a part in Accuracy
\* for each who shares.
SharedNear(snapshot, due) ==
    LET all == AllShares(snapshot, due)
        parts == Cardinality(DOMAIN snapshot.delegations) + 1
    IN  /\ all \in Nat
        /\ ShareOf(snapshot.bond, due, snapshot) \in Nat /\ SumFunction(SharesOf(snapshot, due)) \in Nat
        /\ 2 * all <= 2 * due + parts
        /\ snapshot.total # 0 =>
              2 * (Accuracy * due) <= 2 * (Accuracy * all) + parts * (2 * due + Accuracy)

LEMMA SharesNearDue ==
    ASSUME NEW snapshot, Snapshot(snapshot), NEW due \in Nat
    PROVE  SharedNear(snapshot, due)
<1> DEFINE a == snapshot.delegations
           S == DOMAIN a
           s == SharesOf(snapshot, due)
           T == snapshot.total
           A == Accuracy
           n == Cardinality(S)
           own == ShareOf(snapshot.bond, due, snapshot)
           bond == snapshot.bond
<1>1. /\ IsFiniteSet(S) /\ n \in Nat /\ A \in Nat \ {0} /\ T \in Nat /\ bond \in 0 .. T
      /\ \A d \in S : a[d] \in 0 .. T
  BY SnapshotFacts, FS_CardinalityType, AccuracyAssumption DEF Snapshot
<1>2. /\ DOMAIN s = S /\ \A d \in S : s[d] = ShareOf(a[d], due, snapshot)
      /\ AllShares(snapshot, due) = own + SumFunctionOnSet(s, S)
      /\ SumFunction(s) = SumFunctionOnSet(s, S)
  BY SumIs DEF SharesOf, AllShares
<1>3. T = bond + SumFunctionOnSet(a, S)
  BY SumIs DEF Snapshot
<1>4. CASE T = 0
  <2>1. bond = 0 /\ \A d \in S : a[d] = 0
    BY <1>1, <1>4
  <2>2. own = 0 /\ \A d \in S : s[d] = 0
    BY <1>2, <1>4, <2>1, NothingCounted
  <2> DEFINE none == 0
             z == [d \in S |-> none]
  <2>3. none \in Int /\ none = 0
    OBVIOUS
  <2> HIDE DEF none
  <2>4. SumFunctionOnSet(z, S) = none * n
    BY <1>1, <2>3, SumOfEquals
  <2>5. \A d \in S : s[d] \in Int /\ s[d] = z[d]
    BY <2>2, <2>3
  <2> HIDE DEF s, z, S, own, n, T
  <2>6. SumFunctionOnSet(s, S) = SumFunctionOnSet(z, S)
    BY <1>1, <2>5, SumAgrees
  <2>7. AllShares(snapshot, due) = 0 /\ own = 0 /\ SumFunction(s) = 0
    BY <1>1, <1>2, <2>2, <2>3, <2>4, <2>6
  <2>8. 0 <= 2 * due + (n + 1)
    BY <1>1
  <2> QED BY <1>1, <1>4, <2>7, <2>8 DEF SharedNear, n, s, own, S, T
<1>5. CASE T # 0
  <2> DEFINE p == 2 * T
             q == 2 * due
             u == 2 * (A * due)
             v == 2 * (A * T)
             k == T * (2 * due + A)
             Off(x, y) == y \in Nat /\ p * y <= q * x + T /\ u * x <= v * y + k
  <2>1. \A x \in 0 .. T : Off(x, ShareOf(x, due, snapshot))
    <3> SUFFICES ASSUME NEW x \in 0 .. T PROVE Off(x, ShareOf(x, due, snapshot))
      OBVIOUS
    <3> DEFINE y == ShareOf(x, due, snapshot)
    <3>1. /\ y \in 0 .. due
          /\ 2 * (T * y) <= 2 * (x * due) + T
          /\ 2 * (A * (x * due)) <= 2 * (A * (T * y)) + T * (2 * due + A)
      BY <1>1, <1>5, ShareNearExact, ShareWithinDue
    <3> HIDE DEF y, T
    <3>2. /\ p * y = 2 * (T * y) /\ q * x = 2 * (x * due)
          /\ u * x = 2 * (A * (x * due)) /\ v * y = 2 * (A * (T * y))
      BY <1>1, <3>1
    <3>3. y \in Nat
      BY <3>1
    <3> QED BY <3>1, <3>2, <3>3 DEF y
  <2>2. Off(bond, own) /\ \A d \in S : Off(a[d], s[d])
    <3> HIDE DEF Off
    <3> QED BY <1>1, <1>2, <2>1
  <2>3. p \in Nat /\ q \in Nat /\ u \in Nat /\ v \in Nat /\ k \in Nat
    <3>1. 2 * due + A \in Nat /\ A * due \in Nat /\ A * T \in Nat
      BY <1>1, ProductNat
    <3> HIDE DEF T
    <3>2. T * (2 * due + A) \in Nat
      BY <1>1, <3>1, ProductNat
    <3> QED BY <1>1, <3>1, <3>2
  <2> DEFINE X == SumFunctionOnSet(a, S)
             Y == SumFunctionOnSet(s, S)
  <2>4. X \in Nat /\ Y \in Nat /\ p * Y <= q * X + T * n /\ u * X <= v * Y + k * n
    <3> DEFINE ps == [d \in S |-> p * s[d]]
               qa == [d \in S |-> q * a[d]]
               ua == [d \in S |-> u * a[d]]
               vs == [d \in S |-> v * s[d]]
    <3>1. \A d \in S : a[d] \in Nat /\ s[d] \in Nat
      BY <1>1, <2>2
    <3>2. \A d \in S : a[d] \in Int /\ s[d] \in Int
      BY <3>1
    <3>3. /\ SumFunctionOnSet(ps, S) = p * Y /\ SumFunctionOnSet(qa, S) = q * X
          /\ SumFunctionOnSet(ua, S) = u * X /\ SumFunctionOnSet(vs, S) = v * Y
      <4>1. /\ \A d \in S : ps[d] = p * s[d] /\ qa[d] = q * a[d]
            /\ \A d \in S : ua[d] = u * a[d] /\ vs[d] = v * s[d]
        OBVIOUS
      <4>2. p \in Int /\ q \in Int /\ u \in Int /\ v \in Int
        BY <2>3
      <4> HIDE DEF ps, qa, ua, vs, p, q, u, v, a, s, S
      <4> QED BY <1>1, <3>2, <4>1, <4>2, SumScaled
    <3>4. \A d \in S : /\ ps[d] \in Int /\ qa[d] \in Int /\ ps[d] <= qa[d] + T
                       /\ ua[d] \in Int /\ vs[d] \in Int /\ ua[d] <= vs[d] + k
      <4> SUFFICES ASSUME NEW d \in S
                   PROVE  /\ ps[d] \in Int /\ qa[d] \in Int /\ ps[d] <= qa[d] + T
                          /\ ua[d] \in Int /\ vs[d] \in Int /\ ua[d] <= vs[d] + k
        OBVIOUS
      <4>1. /\ ps[d] = p * s[d] /\ qa[d] = q * a[d] /\ ua[d] = u * a[d] /\ vs[d] = v * s[d]
        OBVIOUS
      <4>2. Off(a[d], s[d])
        BY <2>2
      <4> HIDE DEF ps, qa, ua, vs, p, q, u, v, k, a, s, S, T
      <4>3. p * s[d] \in Nat /\ q * a[d] \in Nat /\ u * a[d] \in Nat /\ v * s[d] \in Nat
        BY <2>3, <3>1, ProductNat
      <4> QED BY <4>1, <4>2, <4>3
    <3>5. T \in Int /\ k \in Int
      BY <1>1, <2>3
    <3> HIDE DEF ps, qa, ua, vs, p, q, u, v, k, a, s, S, T, n
    <3>6. SumFunctionOnSet(ps, S) <= SumFunctionOnSet(qa, S) + T * Cardinality(S)
      BY <1>1, <3>4, <3>5, SumWithin
    <3>7. SumFunctionOnSet(ua, S) <= SumFunctionOnSet(vs, S) + k * Cardinality(S)
      BY <1>1, <3>4, <3>5, SumWithin
    <3>8. X \in Nat /\ Y \in Nat
      BY <1>1, <3>1, SumNat
    <3> QED BY <3>3, <3>6, <3>7, <3>8 DEF n
  <2> DEFINE all == Y + own
             parts == n + 1
  <2>5. /\ all \in Nat /\ own \in Nat /\ parts \in Nat /\ T = bond + X
        /\ bond \in Nat /\ AllShares(snapshot, due) = all
    BY <1>1, <1>2, <1>3, <2>2, <2>4
  <2> HIDE DEF X, Y, own
  <2>6. p * all <= q * T + T * parts
    <3>1. p * all = p * Y + p * own /\ q * (bond + X) = q * bond + q * X /\ T * parts = T * n + T
      <4> HIDE DEF p, q, T, n, bond
      <4>1. p * all = p * Y + p * own
        BY <2>3, <2>4, <2>5
      <4>2. q * (bond + X) = q * bond + q * X
        BY <2>3, <2>4, <2>5
      <4>3. T * parts = T * n + T
        BY <1>1
      <4> HIDE DEF all, parts
      <4> QED BY <4>1, <4>2, <4>3
    <3>2. p * own <= q * bond + T /\ p * Y <= q * X + T * n
      BY <2>2, <2>4
    <3>3. /\ p * Y \in Nat /\ p * own \in Nat /\ q * bond \in Nat /\ q * X \in Nat /\ T * n \in Nat
      <4> HIDE DEF p, q, T, n, bond
      <4> QED BY <1>1, <2>3, <2>4, <2>5, ProductNat
    <3>4. p * all <= q * (bond + X) + T * parts
      <4> HIDE DEF p, q, T, n, bond, all, parts
      <4> QED BY <1>1, <3>1, <3>2, <3>3
    <3> HIDE DEF T, p, q, bond, all, parts
    <3> QED BY <2>5, <3>4
  <2>7. u * T <= v * all + k * parts
    <3>1. v * all = v * Y + v * own /\ u * (bond + X) = u * bond + u * X /\ k * parts = k * n + k
      <4> HIDE DEF u, v, k, n, bond
      <4> QED BY <1>1, <2>3, <2>4, <2>5
    <3>2. u * bond <= v * own + k /\ u * X <= v * Y + k * n
      BY <2>2, <2>4
    <3>3. v * Y \in Nat /\ v * own \in Nat /\ u * bond \in Nat /\ u * X \in Nat /\ k * n \in Nat
      <4> HIDE DEF u, v, k, n, bond
      <4> QED BY <1>1, <2>3, <2>4, <2>5, ProductNat
    <3>4. u * (bond + X) <= v * all + k * parts
      <4> HIDE DEF u, v, k, n, bond, all, parts
      <4> QED BY <2>3, <3>1, <3>2, <3>3
    <3> HIDE DEF T, u, v, k, bond, all, parts
    <3> QED BY <2>5, <3>4
  <2> HIDE DEF T, n, bond, all, parts
  <2>8. 2 * all <= 2 * due + parts
    <3>1. p * all = (2 * all) * T /\ q * T + T * parts = (2 * due + parts) * T
      BY <1>1, <2>5
    <3> HIDE DEF p, q
    <3>2. (2 * all) * T <= (2 * due + parts) * T
      BY <2>6, <3>1
    <3> QED BY <1>1, <1>5, <2>5, <3>2, ProductCancel
  <2>9. 2 * (A * due) <= 2 * (A * all) + parts * (2 * due + A)
    <3> DEFINE l == 2 * (A * due)
               r == 2 * (A * all) + parts * (2 * due + A)
    <3>1. u * T = l * T /\ v * all + k * parts = r * T
      BY <1>1, <2>5
    <3>2. l \in Int /\ r \in Int
      BY <1>1, <2>5
    <3> HIDE DEF u, v, k, l, r
    <3>3. l * T <= r * T
      BY <2>7, <3>1
    <3>4. l <= r
      BY <1>1, <1>5, <3>2, <3>3, ProductCancel
    <3> QED BY <3>4 DEF l, r
  <2>10. own \in Nat /\ SumFunction(s) \in Nat
    BY <1>2, <2>4, <2>5 DEF Y
  <2> QED BY <2>5, <2>8, <2>9, <2>10 DEF SharedNear, parts, n, s, own, S
<1> QED BY <1>4, <1>5

-----------------------------------------------------------------------------
(* The candidates' own side                                                *)

Fields == {"book", "status", "leaveAt", "request"}

\* A book with a self bond of x.
Bonded(book, x) == {"bond", "counted"} \subseteq DOMAIN book /\ book.bond = x

\* A waiting request is one, and leaves the minimum.
BondLessFits(info) ==
    /\ \A r, s \in info.request : r = s
    /\ \A r \in info.request : r.amount \in Nat /\ info.book.bond - r.amount >= MinCandidateStk

InfoSound(info) ==
    /\ DOMAIN info = Fields
    /\ info.book.bond \in Nat
    /\ Bonded(info.book, info.book.bond)
    /\ BondLessFits(info)

IInv ==
    /\ Candidates \subseteq CandidateAccounts
    /\ \A c \in Candidates : InfoSound(candidateInfo[c])
    /\ DOMAIN collatorLock = CandidateAccounts
    /\ PoolFollowsBooks
    /\ SelfBondsLocked

\* A step lets no self bond shrink below the minimum.
MinimumKept ==
    \A c \in Candidates \cap Candidates' :
        candidateInfo'[c].book.bond < candidateInfo[c].book.bond
            => candidateInfo'[c].book.bond >= MinCandidateStk

Sound == IInv' /\ MinimumKept

-----------------------------------------------------------------------------
(* The books                                                               *)

LEMMA ResetKeepsBond ==
    ASSUME NEW b, NEW x, Bonded(b, x), NEW list
    PROVE  Bonded(ResetTopData(b, list), x) /\ Bonded(ResetBottomData(b, list), x)
BY DEF Bonded, ResetTopData, ResetBottomData

LEMMA CountKeepsBond ==
    ASSUME NEW b, NEW x, Bonded(b, x), NEW n
    PROVE  Bonded([b EXCEPT !.count = n], x)
BY DEF Bonded

LEMMA AddKeepsBond ==
    ASSUME NEW b, NEW x, Bonded(b, x), NEW d
    PROVE  Bonded(AddDelegation(b, d), x)
<1>1. ASSUME NEW e, NEW bumped PROVE Bonded(AddBottomDelegation(b, e, bumped), x)
  BY ResetKeepsBond, CountKeepsBond DEF AddBottomDelegation
<1>2. Bonded(AddTopDelegation(b, d), x)
  <2> DEFINE bumps == Len(b.top.delegations) = MaxTop
             rest == IF bumps THEN AddBottomDelegation(b, Last(b.top.delegations), TRUE) ELSE b
  <2>1. Bonded(rest, x)
    BY <1>1
  <2> QED BY <2>1, ResetKeepsBond, CountKeepsBond DEF AddTopDelegation
<1> QED BY <1>1, <1>2 DEF AddDelegation

LEMMA RemoveKeepsBond ==
    ASSUME NEW b, NEW x, Bonded(b, x), NEW who, NEW amount
    PROVE  Bonded(RemoveDelegation(b, who, amount), x)
<1>1. Bonded(RemoveTopDelegation(b, who), x)
  BY ResetKeepsBond, CountKeepsBond DEF RemoveTopDelegation
<1>2. Bonded(RemoveBottomDelegation(b, who), x)
  BY ResetKeepsBond, CountKeepsBond DEF RemoveBottomDelegation
<1> QED BY <1>1, <1>2 DEF RemoveDelegation

LEMMA IncreaseKeepsBond ==
    ASSUME NEW b, NEW x, Bonded(b, x), NEW who, NEW bond, NEW more
    PROVE  Bonded(IncreaseDelegation(b, who, bond, more), x)
<1>1. Bonded(IncreaseTopDelegation(b, who, more), x)
  BY ResetKeepsBond DEF IncreaseTopDelegation
<1>2. Bonded(IncreaseBottomDelegation(b, who, bond, more), x)
  BY ResetKeepsBond DEF IncreaseBottomDelegation
<1> QED BY <1>1, <1>2 DEF IncreaseDelegation

LEMMA DecreaseKeepsBond ==
    ASSUME NEW b, NEW x, Bonded(b, x), NEW who, NEW bond, NEW less
    PROVE  Bonded(DecreaseDelegation(b, who, bond, less), x)
<1>1. Bonded(DecreaseTopDelegation(b, who, bond, less), x)
  BY ResetKeepsBond DEF DecreaseTopDelegation
<1>2. Bonded(DecreaseBottomDelegation(b, who, less), x)
  BY ResetKeepsBond DEF DecreaseBottomDelegation
<1> QED BY <1>1, <1>2 DEF DecreaseDelegation

-----------------------------------------------------------------------------
(* One candidate changes                                                   *)

\* The candidate c has other information now, the pool and its lock follow.
LEMMA OneChanges ==
    ASSUME IInv, NEW c \in CandidateAccounts, NEW info,
           InfoSound(info),
           DOMAIN candidateInfo' = Candidates \cup {c},
           candidateInfo'[c] = info,
           \A e \in Candidates \ {c} : candidateInfo'[e] = candidateInfo[e],
           DOMAIN candidatePool' \ {c} = DOMAIN candidatePool \ {c},
           \A e \in DOMAIN candidatePool \ {c} : candidatePool'[e] = candidatePool[e],
           c \in DOMAIN candidatePool' <=> info.status = "active",
           c \in DOMAIN candidatePool' => candidatePool'[c] = info.book.counted,
           DOMAIN collatorLock' = CandidateAccounts,
           collatorLock'[c] = info.book.bond,
           \A e \in CandidateAccounts \ {c} : collatorLock'[e] = collatorLock[e],
           c \in Candidates => \/ info.book.bond >= candidateInfo[c].book.bond
                               \/ info.book.bond >= MinCandidateStk
    PROVE  Sound
<1> USE DEF IInv
<1>1. Candidates' = Candidates \cup {c}
  BY DEF Candidates
<1>2. Candidates' \subseteq CandidateAccounts /\ \A e \in Candidates' : InfoSound(candidateInfo'[e])
  BY <1>1
<1>3. PoolFollowsBooks'
  <2>1. ASSUME NEW e
        PROVE  e \in DOMAIN candidatePool' <=>
                   e \in Candidates' /\ candidateInfo'[e].status = "active"
    <3>1. CASE e = c
      BY <1>1, <3>1
    <3>2. CASE e # c
      BY <1>1, <3>2 DEF PoolFollowsBooks, IsActive
    <3> QED BY <3>1, <3>2
  <2>2. ASSUME NEW e \in DOMAIN candidatePool'
        PROVE  candidatePool'[e] = candidateInfo'[e].book.counted
    <3>1. CASE e = c
      BY <2>2, <3>1
    <3>2. CASE e # c
      BY <2>2, <3>2 DEF PoolFollowsBooks
    <3> QED BY <3>1, <3>2
  <2> QED BY <2>1, <2>2 DEF PoolFollowsBooks, IsActive
<1>4. SelfBondsLocked'
  BY <1>1 DEF SelfBondsLocked
<1>5. MinimumKept
  <2> SUFFICES ASSUME NEW e \in Candidates \cap Candidates',
                      candidateInfo'[e].book.bond < candidateInfo[e].book.bond
               PROVE  candidateInfo'[e].book.bond >= MinCandidateStk
    BY DEF MinimumKept
  <2>1. candidateInfo[e].book.bond \in Nat
    BY DEF InfoSound
  <2>2. e = c
    BY <2>1
  <2> QED BY <2>1, <2>2 DEF InfoSound
<1> QED BY <1>2, <1>3, <1>4, <1>5 DEF Sound

\* A step that leaves the candidates alone.
LEMMA NothingChanges ==
    ASSUME IInv, UNCHANGED <<candidateInfo, candidatePool, collatorLock>>
    PROVE  Sound
<1>1. IInv'
  BY DEF IInv, Candidates, PoolFollowsBooks, IsActive, SelfBondsLocked
<1>2. MinimumKept
  BY DEF MinimumKept, IInv, InfoSound, Candidates
<1> QED BY <1>1, <1>2 DEF Sound

\* A book that has changed is stored.
LEMMA StoreSound ==
    ASSUME IInv, NEW c \in Candidates, NEW book,
           Bonded(book, candidateInfo[c].book.bond),
           StoreBook(c, book), UNCHANGED collatorLock
    PROVE  Sound
<1> DEFINE info == [candidateInfo[c] EXCEPT !.book = book]
<1>1. /\ DOMAIN candidateInfo' = Candidates \cup {c}
      /\ candidateInfo'[c] = info
      /\ \A e \in Candidates \ {c} : candidateInfo'[e] = candidateInfo[e]
  BY DEF StoreBook, Candidates
<1>2. /\ info.book = book /\ info.status = candidateInfo[c].status
      /\ info.request = candidateInfo[c].request /\ DOMAIN info = Fields
  BY DEF IInv, InfoSound, Fields
<1>3. InfoSound(info)
  BY <1>2 DEF IInv, InfoSound, Bonded, BondLessFits
<1>4. /\ DOMAIN candidatePool' \ {c} = DOMAIN candidatePool \ {c}
      /\ \A e \in DOMAIN candidatePool \ {c} : candidatePool'[e] = candidatePool[e]
      /\ c \in DOMAIN candidatePool' <=> info.status = "active"
      /\ c \in DOMAIN candidatePool' => candidatePool'[c] = info.book.counted
  <2>1. c \in DOMAIN candidatePool <=> IsActive(c)
    BY DEF IInv, PoolFollowsBooks
  <2>2. CASE IsActive(c) /\ book.counted # candidateInfo[c].book.counted
    BY <1>2, <2>1, <2>2 DEF StoreBook, IsActive, With
  <2>3. CASE ~(IsActive(c) /\ book.counted # candidateInfo[c].book.counted)
    <3>1. candidatePool' = candidatePool
      BY <2>3 DEF StoreBook
    <3>2. IsActive(c) => candidatePool[c] = book.counted
      BY <2>1, <2>3 DEF IInv, PoolFollowsBooks
    <3> QED BY <1>2, <2>1, <3>1, <3>2 DEF IsActive
  <2> QED BY <2>2, <2>3
<1>5. info.book.bond = candidateInfo[c].book.bond /\ candidateInfo[c].book.bond \in Nat
  BY <1>2 DEF Bonded, IInv, InfoSound
<1>6. /\ DOMAIN collatorLock' = CandidateAccounts
      /\ collatorLock'[c] = info.book.bond
      /\ \A e \in CandidateAccounts \ {c} : collatorLock'[e] = collatorLock[e]
  BY <1>5 DEF IInv, SelfBondsLocked
<1>7. c \in CandidateAccounts
  BY DEF IInv
<1> HIDE DEF info
<1> QED BY <1>1, <1>3, <1>4, <1>5, <1>6, <1>7, OneChanges

-----------------------------------------------------------------------------
(* The calls of candidates                                                 *)

LEMMA JoinSound ==
    ASSUME IInv, NEW c \in CandidateAccounts, NEW bond \in Bonds, JoinCandidatesInner(c, bond)
    PROVE  Sound
<1> DEFINE info == [book |-> NewBook(bond), status |-> "active", leaveAt |-> 0, request |-> {}]
<1>1. c \notin Candidates /\ bond \in Nat
  BY InputsAssumption DEF JoinCandidatesInner, MayJoin
<1>2. /\ candidateInfo' = With(candidateInfo, c, info)
      /\ candidatePool' = With(candidatePool, c, bond)
      /\ collatorLock' = [collatorLock EXCEPT ![c] = bond]
  BY DEF JoinCandidatesInner
<1>3. info.book.bond = bond /\ info.book.counted = bond /\ InfoSound(info)
  BY <1>1 DEF NewBook, InfoSound, Fields, Bonded, BondLessFits
<1>4. /\ DOMAIN candidateInfo' = Candidates \cup {c}
      /\ candidateInfo'[c] = info
      /\ \A e \in Candidates \ {c} : candidateInfo'[e] = candidateInfo[e]
  BY <1>2 DEF Candidates, With
<1>5. /\ DOMAIN candidatePool' = DOMAIN candidatePool \cup {c}
      /\ candidatePool'[c] = bond
      /\ \A e \in DOMAIN candidatePool \ {c} : candidatePool'[e] = candidatePool[e]
  BY <1>2 DEF With
<1>6. /\ DOMAIN collatorLock' = CandidateAccounts
      /\ collatorLock'[c] = bond
      /\ \A e \in CandidateAccounts \ {c} : collatorLock'[e] = collatorLock[e]
  BY <1>2 DEF IInv
<1>7. info.status = "active"
  OBVIOUS
<1> HIDE DEF info
<1> QED BY <1>1, <1>3, <1>4, <1>5, <1>6, <1>7, OneChanges

\* Only the status of c changes, and with it its place in the pool.
LEMMA StatusSound ==
    ASSUME IInv, NEW c \in Candidates, NEW info,
           candidateInfo' = [candidateInfo EXCEPT ![c] = info],
           DOMAIN info = Fields,
           info.book = candidateInfo[c].book,
           info.request = candidateInfo[c].request,
           candidatePool' = IF info.status = "active"
                            THEN With(candidatePool, c, candidateInfo[c].book.counted)
                            ELSE Minus(candidatePool, {c}),
           UNCHANGED collatorLock
    PROVE  Sound
<1>1. /\ DOMAIN candidateInfo' = Candidates \cup {c}
      /\ candidateInfo'[c] = info
      /\ \A e \in Candidates \ {c} : candidateInfo'[e] = candidateInfo[e]
  BY DEF Candidates
<1>2. InfoSound(info)
  BY DEF IInv, InfoSound, BondLessFits
<1>3. /\ DOMAIN candidatePool' \ {c} = DOMAIN candidatePool \ {c}
      /\ \A e \in DOMAIN candidatePool \ {c} : candidatePool'[e] = candidatePool[e]
      /\ c \in DOMAIN candidatePool' <=> info.status = "active"
      /\ c \in DOMAIN candidatePool' => candidatePool'[c] = info.book.counted
  BY DEF With, Minus, Restrict
<1>4. candidateInfo[c].book.bond \in Nat /\ c \in CandidateAccounts
  BY DEF IInv, InfoSound
<1>5. /\ DOMAIN collatorLock' = CandidateAccounts
      /\ collatorLock'[c] = info.book.bond
      /\ \A e \in CandidateAccounts \ {c} : collatorLock'[e] = collatorLock[e]
  BY <1>4 DEF IInv, SelfBondsLocked
<1>6. info.book.bond >= candidateInfo[c].book.bond
  BY <1>4
<1> QED BY <1>1, <1>2, <1>3, <1>4, <1>5, <1>6, OneChanges

\* The request of c to bond less is made or withdrawn.
LEMMA RequestSound ==
    ASSUME IInv, NEW c \in Candidates, NEW request,
           candidateInfo' = [candidateInfo EXCEPT ![c].request = request],
           BondLessFits([candidateInfo[c] EXCEPT !.request = request]),
           UNCHANGED <<candidatePool, collatorLock>>
    PROVE  Sound
<1> DEFINE info == [candidateInfo[c] EXCEPT !.request = request]
<1>1. /\ DOMAIN candidateInfo' = Candidates \cup {c}
      /\ candidateInfo'[c] = info
      /\ \A e \in Candidates \ {c} : candidateInfo'[e] = candidateInfo[e]
  BY DEF Candidates
<1>2. /\ info.book = candidateInfo[c].book /\ info.status = candidateInfo[c].status
      /\ DOMAIN info = Fields
  BY DEF IInv, InfoSound, Fields
<1>3. InfoSound(info)
  BY <1>2 DEF IInv, InfoSound
<1>4. c \in DOMAIN candidatePool' <=> info.status = "active"
  BY <1>2 DEF IInv, PoolFollowsBooks, IsActive
<1>5. c \in DOMAIN candidatePool' => candidatePool'[c] = info.book.counted
  BY <1>2 DEF IInv, PoolFollowsBooks
<1>6. candidateInfo[c].book.bond \in Nat /\ c \in CandidateAccounts
  BY DEF IInv, InfoSound
<1>7. /\ DOMAIN collatorLock' = CandidateAccounts
      /\ collatorLock'[c] = info.book.bond
      /\ \A e \in CandidateAccounts \ {c} : collatorLock'[e] = collatorLock[e]
  BY <1>2, <1>6 DEF IInv, SelfBondsLocked
<1> HIDE DEF info
<1> QED BY <1>1, <1>2, <1>3, <1>4, <1>5, <1>6, <1>7, OneChanges

\* The self bond of c changes by delta.
LEMMA RebondSound ==
    ASSUME IInv, NEW c \in Candidates, NEW delta \in Int, NEW request,
           Rebond(c, delta, request),
           \/ delta >= 0 /\ request = candidateInfo[c].request
           \/ /\ candidateInfo[c].book.bond + delta >= MinCandidateStk
              /\ request = {}
    PROVE  Sound
<1> DEFINE old == candidateInfo[c]
           book == [old.book EXCEPT !.bond = @ + delta, !.counted = @ + delta]
           info == [old EXCEPT !.book = book, !.request = request]
<1>0. MinCandidateStk \in Nat /\ old.book.bond \in Nat /\ c \in CandidateAccounts /\ InfoSound(old)
  BY MinimaAssumption DEF IInv, InfoSound
<1>1. /\ DOMAIN candidateInfo' = Candidates \cup {c}
      /\ candidateInfo'[c] = info
      /\ \A e \in Candidates \ {c} : candidateInfo'[e] = candidateInfo[e]
  BY DEF Candidates, Rebond
<1>2. info.book = book /\ info.status = old.status /\ info.request = request /\ DOMAIN info = Fields
  BY <1>0 DEF InfoSound, Fields
<1>3. book.bond = old.book.bond + delta /\ DOMAIN book = DOMAIN old.book
  BY <1>0 DEF InfoSound, Bonded
<1>4. InfoSound(info)
  <2> HIDE DEF info, book
  <2>1. book.bond \in Nat /\ Bonded(book, book.bond)
    BY <1>0, <1>3 DEF InfoSound, Bonded
  <2>2. BondLessFits(info)
    <3>1. CASE request = {}
      BY <1>2, <3>1 DEF BondLessFits
    <3>2. CASE delta >= 0 /\ request = old.request
      BY <1>0, <1>2, <1>3, <3>2 DEF InfoSound, BondLessFits
    <3> QED BY <3>1, <3>2
  <2> QED BY <1>2, <2>1, <2>2 DEF InfoSound
<1>5. /\ DOMAIN candidatePool' \ {c} = DOMAIN candidatePool \ {c}
      /\ \A e \in DOMAIN candidatePool \ {c} : candidatePool'[e] = candidatePool[e]
      /\ c \in DOMAIN candidatePool' <=> info.status = "active"
      /\ c \in DOMAIN candidatePool' => candidatePool'[c] = info.book.counted
  <2>1. candidatePool' = IF IsActive(c) THEN With(candidatePool, c, book.counted) ELSE candidatePool
    BY DEF Rebond
  <2>2. c \in DOMAIN candidatePool <=> IsActive(c)
    BY DEF IInv, PoolFollowsBooks
  <2>3. info.status = "active" <=> IsActive(c)
    BY <1>2 DEF IsActive
  <2> QED BY <1>2, <2>1, <2>2, <2>3 DEF With
<1>6. /\ DOMAIN collatorLock' = CandidateAccounts
      /\ collatorLock'[c] = info.book.bond
      /\ \A e \in CandidateAccounts \ {c} : collatorLock'[e] = collatorLock[e]
  BY <1>0, <1>2 DEF IInv, Rebond
<1> HIDE DEF info, book
<1>7. info.book.bond >= old.book.bond \/ info.book.bond >= MinCandidateStk
  <2>1. info.book.bond = old.book.bond + delta
    BY <1>2, <1>3
  <2> HIDE DEF old
  <2>2. delta >= 0 \/ old.book.bond + delta >= MinCandidateStk
    BY DEF old
  <2> QED BY <1>0, <2>1, <2>2
<1> QED BY <1>0, <1>1, <1>4, <1>5, <1>6, <1>7, OneChanges

LEMMA LeaveSound ==
    ASSUME IInv, NEW c \in CandidateAccounts, ExecuteLeaveCandidates(c)
    PROVE  Sound
<1>1. /\ c \in Candidates /\ IsLeaving(c)
      /\ candidateInfo' = Minus(candidateInfo, {c})
      /\ collatorLock' = [collatorLock EXCEPT ![c] = 0]
      /\ UNCHANGED candidatePool
  BY DEF ExecuteLeaveCandidates, DueToLeave
<1>2. /\ Candidates' = Candidates \ {c}
      /\ \A e \in Candidates' : candidateInfo'[e] = candidateInfo[e]
  BY <1>1 DEF Candidates, Minus, Restrict
<1>3. c \notin DOMAIN candidatePool
  BY <1>1 DEF IInv, PoolFollowsBooks, IsActive, IsLeaving
<1>4. PoolFollowsBooks'
  BY <1>1, <1>2, <1>3 DEF IInv, PoolFollowsBooks, IsActive
<1>5. SelfBondsLocked' /\ DOMAIN collatorLock' = CandidateAccounts
  BY <1>1, <1>2 DEF IInv, SelfBondsLocked
<1>6. MinimumKept
  BY <1>2 DEF MinimumKept, IInv, InfoSound
<1> QED BY <1>2, <1>4, <1>5, <1>6 DEF Sound, IInv

LEMMA CandidateCallSound ==
    ASSUME IInv, NEW c \in CandidateAccounts, CandidateCall(c)
    PROVE  Sound
<1>1. ASSUME NEW bond \in Bonds, JoinCandidates(c, bond) \/ ForceJoinCandidates(c, bond)
      PROVE  Sound
  BY <1>1, JoinSound DEF JoinCandidates, ForceJoinCandidates
<1>2. ASSUME NEW bond \in Bonds, CandidateBondMore(c, bond) PROVE Sound
  BY <1>2, RebondSound, InputsAssumption DEF CandidateBondMore
<1>3. ASSUME NEW less \in Bonds, ScheduleCandidateBondLess(c, less) PROVE Sound
  <2> DEFINE request == {[amount |-> less, when |-> round + CandidateBondLessDelay]}
             info == [candidateInfo[c] EXCEPT !.request = request]
  <2>1. /\ c \in Candidates
        /\ candidateInfo[c].book.bond - less >= MinCandidateStk
        /\ candidateInfo' = [candidateInfo EXCEPT ![c].request = request]
        /\ UNCHANGED <<candidatePool, collatorLock>>
    BY <1>3 DEF ScheduleCandidateBondLess, lockVars
  <2>2. info.request = request /\ info.book = candidateInfo[c].book
    BY <2>1 DEF IInv, InfoSound, Fields
  <2>3. BondLessFits(info)
    BY <2>1, <2>2, InputsAssumption DEF BondLessFits
  <2> HIDE DEF request
  <2> QED BY <2>1, <2>3, RequestSound
<1>4. ASSUME CancelCandidateBondLess(c) PROVE Sound
  <2>1. /\ c \in Candidates
        /\ candidateInfo' = [candidateInfo EXCEPT ![c].request = {}]
        /\ UNCHANGED <<candidatePool, collatorLock>>
    BY <1>4 DEF CancelCandidateBondLess, lockVars
  <2>2. BondLessFits([candidateInfo[c] EXCEPT !.request = {}])
    BY <2>1 DEF IInv, InfoSound, BondLessFits, Fields
  <2> QED BY <2>1, <2>2, RequestSound
<1>5. ASSUME ExecuteCandidateBondLess(c) PROVE Sound
  <2>1. c \in Candidates
    BY <1>5 DEF ExecuteCandidateBondLess
  <2>2. PICK request \in candidateInfo[c].request : Rebond(c, 0 - request.amount, {})
    BY <1>5 DEF ExecuteCandidateBondLess
  <2>3. /\ request.amount \in Nat /\ candidateInfo[c].book.bond \in Nat
        /\ candidateInfo[c].book.bond - request.amount >= MinCandidateStk
    BY <2>1, <2>2 DEF IInv, InfoSound, BondLessFits
  <2>4. 0 - request.amount \in Int
        /\ candidateInfo[c].book.bond + (0 - request.amount) >= MinCandidateStk
    BY <2>3, MinimaAssumption
  <2> QED BY <2>1, <2>2, <2>4, RebondSound
<1>6. ASSUME NEW status, NEW at, c \in Candidates,
             candidateInfo' = [candidateInfo EXCEPT ![c].status = status, ![c].leaveAt = at],
             candidatePool' = IF status = "active"
                              THEN With(candidatePool, c, candidateInfo[c].book.counted)
                              ELSE Minus(candidatePool, {c}),
             UNCHANGED collatorLock
      PROVE  Sound
  <2> DEFINE info == [candidateInfo[c] EXCEPT !.status = status, !.leaveAt = at]
  <2>1. candidateInfo' = [candidateInfo EXCEPT ![c] = info]
    BY <1>6
  <2>2. /\ DOMAIN info = Fields /\ info.status = status
        /\ info.book = candidateInfo[c].book
        /\ info.request = candidateInfo[c].request
    BY <1>6 DEF IInv, InfoSound, Fields
  <2> HIDE DEF info
  <2> QED BY <1>6, <2>1, <2>2, StatusSound
<1>7. ASSUME ScheduleLeaveCandidates(c) PROVE Sound
  <2> DEFINE at == round + LeaveCandidatesDelay
             status == "leaving"
  <2>1. /\ c \in Candidates
        /\ candidateInfo' = [candidateInfo EXCEPT ![c].status = status, ![c].leaveAt = at]
        /\ candidatePool' = Minus(candidatePool, {c})
        /\ UNCHANGED collatorLock
    BY <1>7 DEF ScheduleLeaveCandidates, lockVars
  <2>2. status # "active"
    OBVIOUS
  <2> HIDE DEF at, status
  <2> QED BY <1>6, <2>1, <2>2
<1>8. ASSUME GoOffline(c) PROVE Sound
  <2> DEFINE info == [candidateInfo[c] EXCEPT !.status = "idle"]
  <2>1. /\ c \in Candidates
        /\ candidateInfo' = [candidateInfo EXCEPT ![c] = info]
        /\ candidatePool' = Minus(candidatePool, {c})
        /\ UNCHANGED collatorLock
    BY <1>8 DEF GoOffline, lockVars
  <2>2. /\ DOMAIN info = Fields /\ info.status = "idle"
        /\ info.book = candidateInfo[c].book
        /\ info.request = candidateInfo[c].request
    BY <2>1 DEF IInv, InfoSound, Fields
  <2> HIDE DEF info
  <2> QED BY <2>1, <2>2, StatusSound
<1>9. ASSUME CancelLeaveCandidates(c) \/ GoOnline(c) PROVE Sound
  <2>1. c \in Candidates /\ GoOnlineInner(c)
    BY <1>9 DEF CancelLeaveCandidates, GoOnline
  <2> QED BY <1>6, <2>1 DEF GoOnlineInner, lockVars
<1> QED BY <1>1, <1>2, <1>3, <1>4, <1>5, <1>6, <1>7, <1>8, <1>9, LeaveSound DEF CandidateCall

-----------------------------------------------------------------------------
(* The calls of delegators                                                 *)

LEMMA DelegatorCallSound ==
    ASSUME IInv, NEW d \in DelegatorAccounts, NEW c \in CandidateAccounts, DelegatorCall(d, c)
    PROVE  Sound
<1> DEFINE book == candidateInfo[c].book
<1>0. c \in Candidates => Bonded(book, book.bond)
  BY DEF IInv, InfoSound
<1>1. ASSUME NEW amount, NEW percent, Delegate(d, c, amount, percent) PROVE Sound
  <2>1. /\ c \in Candidates /\ UNCHANGED collatorLock
        /\ StoreBook(c, AddDelegation(book, [owner |-> d, amount |-> amount]))
    BY <1>1 DEF Delegate
  <2> QED BY <1>0, <2>1, AddKeepsBond, StoreSound
<1>2. ASSUME NEW more, c \in Candidates, BondMore(d, c, more), UNCHANGED collatorLock PROVE Sound
  BY <1>0, <1>2, IncreaseKeepsBond, StoreSound DEF BondMore
<1>3. ASSUME NEW more, DelegatorBondMore(d, c, more) PROVE Sound
  BY <1>2, <1>3 DEF DelegatorBondMore, FoundInBook
<1>4. ASSUME NEW amount, NEW percent, MintAndCompound(d, c, amount, percent) PROVE Sound
  <2>1. CASE UNCHANGED <<candidateInfo, candidatePool>>
    BY <1>4, <2>1, NothingChanges DEF MintAndCompound
  <2>2. CASE c \in Candidates /\ BondMore(d, c, CompoundAmount(percent, amount))
    BY <1>2, <1>4, <2>2 DEF MintAndCompound
  <2> QED BY <1>4, <2>1, <2>2 DEF MintAndCompound, FoundInBook
<1>5. ASSUME ExecuteRevoke(d, c) PROVE Sound
  <2>1. /\ c \in Candidates /\ UNCHANGED collatorLock
        /\ StoreBook(c, RemoveDelegation(book, d, requests[<<c, d>>].amount))
    BY <1>5 DEF ExecuteRevoke, RevokeSucceeds
  <2> QED BY <1>0, <2>1, RemoveKeepsBond, StoreSound
<1>6. ASSUME ExecuteDecrease(d, c) PROVE Sound
  <2>1. /\ c \in Candidates /\ UNCHANGED collatorLock
        /\ StoreBook(c, DecreaseDelegation(book, d, delegatorState[d].delegations[c],
                                           requests[<<c, d>>].amount))
    BY <1>6 DEF ExecuteDecrease, DecreaseSucceeds
  <2> QED BY <1>0, <2>1, DecreaseKeepsBond, StoreSound
<1>7. ASSUME NEW percent, SetAutoCompound(d, c, percent) PROVE Sound
  BY <1>7, NothingChanges DEF SetAutoCompound, lockVars
<1>8. ASSUME \/ \E less : ScheduleBondDecrease(d, c, less)
             \/ ScheduleRevoke(d, c) \/ CancelRequest(d, c)
      PROVE  Sound
  BY <1>8, NothingChanges
     DEF ScheduleBondDecrease, ScheduleRevoke, Schedule, CancelRequest, lockVars
<1> QED BY <1>1, <1>3, <1>4, <1>5, <1>6, <1>7, <1>8 DEF DelegatorCall

LEMMA StepSound == ASSUME IInv, [Next]_vars PROVE Sound
<1>1. CASE NextRound
  BY <1>1, NothingChanges DEF NextRound, lockVars
<1>2. CASE UNCHANGED vars
  BY <1>2, NothingChanges DEF vars, lockVars
<1> QED BY <1>1, <1>2, CandidateCallSound, DelegatorCallSound DEF Next

LEMMA InitSound == Init => IInv
BY DEF Init, IInv, Candidates, PoolFollowsBooks, SelfBondsLocked

LEMMA Invariance == Spec => []IInv
<1>1. IInv /\ [Next]_vars => IInv'
  BY StepSound DEF Sound
<1> QED BY <1>1, InitSound, PTL DEF Spec

-----------------------------------------------------------------------------

\* For any accounts, bonds, delays and order of calls: a self bond that shrinks without
\* ending keeps the minimum, although the minimum is checked when the request is made
\* and not when it is executed.
THEOREM SelfBondsKeepMinimum == Spec => SelfBondKeepsMinimum
<1>1. IInv /\ [Next]_vars =>
          [\A c \in Candidates \cap Candidates' :
              LET bond == candidateInfo[c].book.bond
              IN  bond' < bond => bond' >= MinCandidateStk]_vars
  BY StepSound DEF Sound, MinimumKept
<1> QED BY <1>1, Invariance, PTL DEF Spec, SelfBondKeepsMinimum

\* For any books and any order of calls: the pool that collators are chosen from holds the
\* active candidates and no other, each with the stake its book counts, whichever of the
\* calls of candidates or delegators has changed the book.
THEOREM PoolFollows == Spec => []PoolFollowsBooks
BY Invariance, PTL DEF IInv

\* For any order of calls: the lock of a candidate is its self bond, and it is released
\* when the candidate has left.
THEOREM SelfBondsStayLocked == Spec => []SelfBondsLocked
BY Invariance, PTL DEF IInv

-----------------------------------------------------------------------------
(* A delegator's record                                                    *)

RecordFields == {"delegations", "total", "lessTotal"}

\* A record of delegations to candidates, each of the minimum at least, and their total.
RecordFits(state) ==
    /\ DOMAIN state = RecordFields
    /\ DOMAIN state.delegations \subseteq CandidateAccounts
    /\ \A c \in DOMAIN state.delegations :
          state.delegations[c] \in Nat /\ state.delegations[c] >= MinDelegation
    /\ state.total = SumFunction(state.delegations)

LEMMA RecordFacts ==
    ASSUME NEW state, RecordFits(state)
    PROVE  /\ IsFiniteSet(DOMAIN state.delegations) /\ state.total \in Nat
           /\ \A c \in DOMAIN state.delegations : state.delegations[c] <= state.total
           /\ DOMAIN state.delegations = {} => state.total = 0
           /\ \A c, k \in DOMAIN state.delegations : c # k =>
                  state.delegations[c] + state.delegations[k] <= state.total
<1> DEFINE f == state.delegations
           D == DOMAIN f
<1>1. /\ D \subseteq CandidateAccounts /\ \A c \in D : f[c] \in Nat /\ f[c] \in Int
      /\ state.total = SumFunctionOnSet(f, D)
  BY SumIs DEF RecordFits
<1>2. IsFiniteSet(D)
  BY <1>1, AccountsAssumption, FS_Subset
<1> HIDE DEF f, D
<1>3. state.total \in Nat /\ \A c \in D : f[c] <= state.total
  BY <1>1, <1>2, SumNat, SumCovers
<1>4. D = {} => state.total = 0
  BY <1>1, SumEmpty
<1>5. ASSUME NEW c \in D, NEW k \in D, c # k PROVE f[c] + f[k] <= state.total
  <2>1. state.total = f[c] + SumFunctionOnSet(f, D \ {c})
    BY <1>1, <1>2, SumTakes
  <2>2. IsFiniteSet(D \ {c}) /\ k \in D \ {c}
    BY <1>2, <1>5, FS_RemoveElement
  <2>3. f[k] <= SumFunctionOnSet(f, D \ {c}) /\ SumFunctionOnSet(f, D \ {c}) \in Nat
    BY <1>1, <2>2, SumCovers, SumNat
  <2>4. f[c] \in Nat /\ f[k] \in Nat
    BY <1>1
  <2> QED BY <2>1, <2>3, <2>4
<1> QED BY <1>2, <1>3, <1>4, <1>5 DEF D, f

\* The record that r says of the state when the delegation to c is gone.
LeftAs(r, state, c) ==
    /\ RecordFits(r)
    /\ DOMAIN r.delegations = DOMAIN state.delegations \ {c}
    /\ \A k \in DOMAIN r.delegations : r.delegations[k] = state.delegations[k]
    /\ r.total = state.total - state.delegations[c]

LEMMA RecordLoses ==
    ASSUME NEW state, RecordFits(state), NEW c \in DOMAIN state.delegations,
           NEW r, DOMAIN r = RecordFields,
           r.delegations = Minus(state.delegations, {c}),
           r.total = Monus(state.total, state.delegations[c])
    PROVE  /\ LeftAs(r, state, c)
           /\ Cardinality(DOMAIN state.delegations) = 1 <=> DOMAIN r.delegations = {}
           /\ r.total = 0 <=> DOMAIN r.delegations = {}
<1> DEFINE f == state.delegations
           D == DOMAIN f
           g == r.delegations
<1>1. /\ D \subseteq CandidateAccounts /\ \A k \in D : f[k] \in Nat /\ f[k] \in Int /\ f[k] >= MinDelegation
      /\ state.total = SumFunctionOnSet(f, D)
  BY SumIs DEF RecordFits
<1>2. /\ IsFiniteSet(D) /\ state.total \in Nat /\ f[c] <= state.total
  BY RecordFacts
<1>3. DOMAIN g = D \ {c} /\ \A k \in D \ {c} : g[k] = f[k]
  BY DEF Minus, Restrict
<1>4. r.total = state.total - f[c]
  BY <1>1, <1>2 DEF Monus
<1> HIDE DEF f, D, g
<1>5. IsFiniteSet(D \ {c}) /\ Cardinality(D \ {c}) = Cardinality(D) - 1 /\ Cardinality(D) \in Nat
  BY <1>2, FS_RemoveElement, FS_CardinalityType DEF D, f
<1>6. state.total = f[c] + SumFunctionOnSet(f, D \ {c})
  BY <1>1, <1>2, SumTakes DEF D, f
<1>7. SumFunctionOnSet(g, D \ {c}) = SumFunctionOnSet(f, D \ {c})
  <2>1. \A k \in D \ {c} : g[k] \in Int /\ g[k] = f[k]
    BY <1>1, <1>3
  <2> QED BY <1>5, <2>1, SumAgrees
<1>8. SumFunctionOnSet(f, D \ {c}) \in Nat
  BY <1>1, <1>5, SumNat
<1>9. f[c] \in Nat /\ c \in D
  BY <1>1 DEF D, f
<1>10. r.total = SumFunction(g)
  <2>1. r.total = SumFunctionOnSet(f, D \ {c})
    BY <1>2, <1>4, <1>6, <1>8, <1>9
  <2> QED BY <1>3, <1>7, <2>1, SumIs
<1>11. LeftAs(r, state, c)
  BY <1>1, <1>3, <1>4, <1>10 DEF LeftAs, RecordFits, D, f, g
<1>12. Cardinality(D) = 1 <=> D \ {c} = {}
  <2>1. Cardinality(D \ {c}) = 0 <=> D \ {c} = {}
    BY <1>5, FS_EmptySet
  <2> QED BY <1>5, <2>1
<1>13. r.total = 0 <=> D \ {c} = {}
  <2>1. D \ {c} = {} => r.total = 0
    BY <1>3, <1>10, SumEmpty, SumIs
  <2>2. ASSUME NEW k \in D \ {c} PROVE r.total # 0
    <3>1. g[k] <= r.total /\ r.total \in Nat
      BY <1>3, <1>11, RecordFacts DEF LeftAs, g
    <3>2. g[k] >= MinDelegation /\ g[k] \in Nat
      BY <1>1, <1>3
    <3> QED BY <3>1, <3>2, MinimaAssumption
  <2> QED BY <2>1, <2>2
<1> QED BY <1>3, <1>11, <1>12, <1>13 DEF D, f, g

\* The record that r says of the state when the delegation to c is x.
GrownTo(r, state, c, x) ==
    /\ RecordFits(r)
    /\ DOMAIN r.delegations = DOMAIN state.delegations \cup {c}
    /\ r.delegations[c] = x
    /\ \A k \in DOMAIN state.delegations \ {c} : r.delegations[k] = state.delegations[k]
    /\ r.lessTotal = state.lessTotal

LEMMA RecordGrows ==
    ASSUME NEW state, RecordFits(state), NEW c \in CandidateAccounts, NEW delta \in Int,
           NEW before \in Nat,
           before = IF c \in DOMAIN state.delegations THEN state.delegations[c] ELSE 0,
           before + delta >= MinDelegation
    PROVE  /\ GrownTo(Grown(state, c, delta), state, c, before + delta)
           /\ Grown(state, c, delta).total = state.total + delta
<1> DEFINE f == state.delegations
           D == DOMAIN f
           r == Grown(state, c, delta)
           g == r.delegations
           x == before + delta
<1>1. /\ D \subseteq CandidateAccounts /\ \A k \in D : f[k] \in Nat /\ f[k] \in Int /\ f[k] >= MinDelegation
      /\ state.total = SumFunctionOnSet(f, D)
      /\ DOMAIN state = RecordFields
  BY SumIs DEF RecordFits
<1>2. IsFiniteSet(D) /\ state.total \in Nat
  BY RecordFacts
<1>3. x \in Nat /\ x >= MinDelegation /\ x \in Int
  BY MinimaAssumption
<1>4. /\ DOMAIN r = RecordFields /\ r.lessTotal = state.lessTotal /\ r.total = state.total + delta
      /\ g = With(f, c, x)
  BY <1>1 DEF Grown, RecordFields
<1>5. DOMAIN g = D \cup {c} /\ g[c] = x /\ \A k \in D \ {c} : g[k] = f[k]
  BY <1>4 DEF With
<1>6. \A k \in D \cup {c} : g[k] \in Nat /\ g[k] \in Int /\ g[k] >= MinDelegation
  <2> HIDE DEF f, D, g, x
  <2> QED BY <1>1, <1>3, <1>5
<1> HIDE DEF r, g
<1>7. SumFunctionOnSet(g, D \cup {c}) = state.total + delta
  <2>1. CASE c \in D
    <3>1. D \cup {c} = D
      BY <2>1
    <3>2. \A k \in D : f[k] \in Int /\ g[k] \in Int
      BY <1>1, <1>6
    <3>3. \A k \in D \ {c} : f[k] = g[k]
      BY <1>5
    <3> HIDE DEF f, D
    <3>4. SumFunctionOnSet(g, D) = (SumFunctionOnSet(f, D) - f[c]) + g[c]
      <4>1. SumShifts(f, g, D, c)
        BY <1>2, <2>1, <3>2, <3>3, SumChanges
      <4> QED BY <4>1 DEF SumShifts
    <3>5. f[c] = before /\ g[c] = before + delta
      BY <1>5, <2>1 DEF D, f
    <3>6. SumFunctionOnSet(g, D) = (state.total - before) + (before + delta)
      BY Zenon, <1>1, <3>4, <3>5
    <3>7. (state.total - before) + (before + delta) = state.total + delta
      BY <1>2
    <3> QED BY Zenon, <3>1, <3>6, <3>7
  <2>2. CASE c \notin D
    <3>1. before = 0
      BY <2>2
    <3>2. \A k \in D : g[k] \in Int /\ g[k] = f[k]
      BY <1>5, <1>6, <2>2
    <3> HIDE DEF f, D
    <3>3. SumFunctionOnSet(g, D \cup {c}) = g[c] + SumFunctionOnSet(g, D)
      BY <1>2, <1>6, <2>2, SumAdds
    <3>4. SumFunctionOnSet(g, D) = SumFunctionOnSet(f, D)
      BY <1>2, <3>2, SumAgrees
    <3>5. g[c] = delta
      BY <1>5, <3>1
    <3> QED BY <1>1, <1>2, <3>3, <3>4, <3>5
  <2> QED BY <2>1, <2>2
<1>8. SumFunction(g) = r.total
  BY <1>4, <1>5, <1>7, SumIs
<1>9. RecordFits(r)
  <2>1. DOMAIN g \subseteq CandidateAccounts
    BY <1>1, <1>5
  <2> QED BY <1>4, <1>5, <1>6, <1>8, <2>1 DEF RecordFits, g
<1> QED BY <1>4, <1>5, <1>9 DEF GrownTo, r, g

-----------------------------------------------------------------------------
(* What always holds of the two sides                                      *)

\* The delegations to c by the delegators' records.
HeldBy(c) ==
    {[owner |-> d, amount |-> delegatorState[d].delegations[c]] :
        d \in {e \in DelegatorAccounts : Delegates(e, c)}}

\* b is a book of the delegations H.
BookHolds(b, H) ==
    \E T, B, x : BookIs(b, DelegatorAccounts, T, B, x) /\ T \cup B = H

InfoFits(info, H) ==
    /\ DOMAIN info = Fields
    /\ info.status \in {"active", "idle", "leaving"} /\ info.leaveAt \in Nat
    /\ \A r \in info.request : r.amount \in Nat /\ r.when \in Nat
    /\ BookHolds(info.book, H)

BookSound(c) ==
    IF c \in Candidates THEN InfoFits(candidateInfo[c], HeldBy(c)) ELSE HeldBy(c) = {}

\* What the requests of d will take.
AskedBy(d, asked) ==
    SumFunction([p \in {q \in DOMAIN asked : q[2] = d} |-> asked[p].amount])

RequestFits(request, amount) ==
    IF request.action = "revoke" THEN request.amount = amount
    ELSE request.amount + MinDelegation <= amount

DelegatorSound(d) ==
    /\ d \in Delegators => /\ RecordFits(delegatorState[d])
                           /\ DOMAIN delegatorState[d].delegations # {}
                           /\ delegatorState[d].lessTotal = AskedBy(d, requests)
    /\ \A c \in CandidateAccounts : HasRequest(d, c) =>
          /\ Delegates(d, c)
          /\ RequestFits(requests[<<c, d>>], delegatorState[d].delegations[c])
    /\ delegatorLock[d] = IF d \in Delegators THEN delegatorState[d].total ELSE 0
    /\ delegatorLock[d] <= balance[d]

RequestsShaped == \A p \in DOMAIN requests : p \in Pairs /\ requests[p] \in Requests

Shaped ==
    /\ round \in 1 .. MaxRound /\ totalStaked \in Nat
    /\ Delegators \subseteq DelegatorAccounts
    /\ RequestsShaped
    /\ \A p \in DOMAIN autoCompound :
          p \in Pairs /\ autoCompound[p] \in 1 .. 100 /\ Delegates(p[2], p[1])
    /\ collatorLock \in [CandidateAccounts -> Nat]
    /\ delegatorLock \in [DelegatorAccounts -> Nat]
    /\ balance \in [Accounts -> Nat]

Staked ==
    /\ Shaped
    /\ \A c \in CandidateAccounts : BookSound(c) /\ collatorLock[c] <= balance[c]
    /\ \A d \in DelegatorAccounts : DelegatorSound(d)
    /\ totalStaked <= AllLocked

EntryOf(d, c) == [owner |-> d, amount |-> delegatorState[d].delegations[c]]

LEMMA HeldFacts ==
    ASSUME NEW c
    PROVE  /\ \A e \in HeldBy(c) : /\ e.owner \in DelegatorAccounts /\ Delegates(e.owner, c)
                                   /\ e.amount = delegatorState[e.owner].delegations[c]
                                   /\ e = EntryOf(e.owner, c)
           /\ \A d \in DelegatorAccounts : Delegates(d, c) => EntryOf(d, c) \in HeldBy(c)
           /\ \A d : EntryOf(d, c).owner = d /\ EntryOf(d, c).amount = delegatorState[d].delegations[c]
BY DEF HeldBy, EntryOf

\* What a delegation is in both tables.
LEMMA Listed ==
    ASSUME Staked, NEW c \in CandidateAccounts, NEW d \in DelegatorAccounts, Delegates(d, c)
    PROVE  /\ c \in Candidates /\ d \in Delegators
           /\ delegatorState[d].delegations[c] \in Nat
           /\ delegatorState[d].delegations[c] >= MinDelegation
           /\ delegatorState[d].delegations[c] <= delegatorState[d].total
           /\ delegatorState[d].total \in Nat /\ RecordFits(delegatorState[d])
           /\ c \in DOMAIN delegatorState[d].delegations
           /\ EntryOf(d, c) \in HeldBy(c)
<1>1. EntryOf(d, c) \in HeldBy(c)
  BY HeldFacts
<1>2. c \in Candidates
  BY <1>1 DEF Staked, BookSound
<1>3. d \in Delegators /\ c \in DOMAIN delegatorState[d].delegations
  BY DEF Delegates
<1>4. RecordFits(delegatorState[d])
  BY <1>3 DEF Staked, DelegatorSound
<1> QED BY <1>1, <1>2, <1>3, <1>4, RecordFacts DEF RecordFits

\* The book of a candidate and its parts.
LEMMA BookOf ==
    ASSUME Staked, NEW c \in Candidates, c \in CandidateAccounts
    PROVE  \E T, B, x : /\ BookIs(candidateInfo[c].book, DelegatorAccounts, T, B, x)
                        /\ T \cup B = HeldBy(c)
BY DEF Staked, BookSound, InfoFits, BookHolds

-----------------------------------------------------------------------------
(* What follows of it                                                      *)

LEMMA BooksFollow == ASSUME Staked, Candidates \subseteq CandidateAccounts PROVE BooksExact
<1>1. ASSUME NEW c \in Candidates
      PROVE  /\ BookOrdered(candidateInfo[c].book) /\ MetadataExact(candidateInfo[c].book)
             /\ \A d \in DelegatorAccounts, amount \in Amounts :
                  LET book == candidateInfo[c].book
                      all == book.top.delegations \o book.bottom.delegations
                      new == [owner |-> d, amount |-> amount]
                  IN  \A found \in SearchResults(all, new) :
                          InsertSearched(all, new, found) = InsertSorted(all, new)
  <2> DEFINE b == candidateInfo[c].book
             all == b.top.delegations \o b.bottom.delegations
  <2>1. PICK T, B, x : BookIs(b, DelegatorAccounts, T, B, x) /\ T \cup B = HeldBy(c)
    BY <1>1, BookOf
  <2>2. BookOrdered(b) /\ MetadataExact(b)
    BY <2>1, BookInOrder
  <2>3. all \in Seq(Entries(DelegatorAccounts)) /\ Descending(all)
    BY <2>1, AllDescend
  <2> HIDE DEF all
  <2>4. ASSUME NEW d \in DelegatorAccounts, NEW amount \in Amounts,
               NEW found \in SearchResults(all, [owner |-> d, amount |-> amount])
        PROVE  InsertSearched(all, [owner |-> d, amount |-> amount], found)
                 = InsertSorted(all, [owner |-> d, amount |-> amount])
    <3> DEFINE new == [owner |-> d, amount |-> amount]
    <3>1. new \in Entries(DelegatorAccounts)
      BY InputsAssumption DEF Entries
    <3>2. found \in SearchResults(all, new)
      OBVIOUS
    <3> HIDE DEF new
    <3>3. InsertSearched(all, new, found) = InsertSorted(all, new)
      BY <2>3, <3>1, <3>2, SearchFinds
    <3> QED BY <3>3 DEF new
  <2> QED BY <2>2, <2>4 DEF all
<1> QED BY <1>1 DEF BooksExact, BooksOrdered, BookMetadataExact, SearchAgrees

LEMMA AgreementFollows == ASSUME Staked, Candidates \subseteq CandidateAccounts PROVE BothSidesAgree
<1>1. ASSUME NEW c \in Candidates
      PROVE  LET book == candidateInfo[c].book
             IN  /\ \A e \in HeldBy(c) : \E list \in {book.top, book.bottom} :
                       e.owner \in Owners(list) /\ AmountOf(list, e.owner) = e.amount
                 /\ \A d \in ReturnedTo(book) : \E e \in HeldBy(c) : e.owner = d
  <2> DEFINE b == candidateInfo[c].book
  <2>1. PICK T, B, x : BookIs(b, DelegatorAccounts, T, B, x) /\ T \cup B = HeldBy(c)
    BY <1>1, BookOf
  <2>2. TopIs(b, DelegatorAccounts, T) /\ BottomIs(b, DelegatorAccounts, B, x) /\ x \in Int
    BY <2>1, BookFacts
  <2> HIDE DEF b
  <2>3. /\ \A who : InTop(b, who) <=> \E e \in T : e.owner = who
        /\ \A e \in T : AmountOf(b.top, e.owner) = e.amount
    BY <2>2, TopChanges
  <2>4. /\ \A who : InBottom(b, who) <=> \E e \in B : e.owner = who
        /\ \A e \in B : AmountOf(b.bottom, e.owner) = e.amount
    BY <2>2, BottomChanges
  <2>5. /\ \A e \in T : e.owner \in Owners(b.top) /\ AmountOf(b.top, e.owner) = e.amount
        /\ \A e \in B : e.owner \in Owners(b.bottom) /\ AmountOf(b.bottom, e.owner) = e.amount
    BY <2>3, <2>4 DEF InTop, InBottom
  <2>6. \A e \in HeldBy(c) : \E list \in {b.top, b.bottom} :
            e.owner \in Owners(list) /\ AmountOf(list, e.owner) = e.amount
    BY <2>1, <2>5
  <2>7. \A d \in ReturnedTo(b) : \E e \in HeldBy(c) : e.owner = d
    BY <2>1, <2>3, <2>4 DEF ReturnedTo, InTop, InBottom
  <2> QED BY <2>6, <2>7 DEF b
<1>2. ASSUME NEW d \in Delegators, NEW c \in CandidateAccounts, Delegates(d, c)
      PROVE  /\ c \in Candidates
             /\ LET book == candidateInfo[c].book
                IN  \E list \in {book.top, book.bottom} :
                       /\ d \in Owners(list)
                       /\ AmountOf(list, d) = delegatorState[d].delegations[c]
  <2>1. d \in DelegatorAccounts
    BY DEF Staked, Shaped
  <2>2. c \in Candidates /\ EntryOf(d, c) \in HeldBy(c)
    BY <1>2, <2>1, Listed
  <2>3. EntryOf(d, c).owner = d /\ EntryOf(d, c).amount = delegatorState[d].delegations[c]
    BY HeldFacts
  <2> QED BY <1>1, <2>2, <2>3
<1>3. ASSUME NEW c \in Candidates, NEW d \in ReturnedTo(candidateInfo[c].book)
      PROVE  Delegates(d, c)
  BY <1>1, HeldFacts
<1>4. ASSUME NEW d \in Delegators
      PROVE  /\ delegatorState[d].delegations # <<>>
             /\ delegatorState[d].total = SumFunction(delegatorState[d].delegations)
  <2>1. RecordFits(delegatorState[d]) /\ DOMAIN delegatorState[d].delegations # {}
    BY DEF Staked, Shaped, DelegatorSound
  <2>2. DOMAIN <<>> = {}
    OBVIOUS
  <2> QED BY <2>1, <2>2 DEF RecordFits
<1> QED BY <1>2, <1>3, <1>4 DEF BothSidesAgree

LEMMA LocksFollow == ASSUME Staked, SelfBondsLocked PROVE NothingOutlives
<1>1. LocksExact
  BY DEF LocksExact, Staked, DelegatorSound
<1>2. CompoundsLive
  BY DEF CompoundsLive, Staked, Shaped
<1> QED BY <1>1, <1>2 DEF NothingOutlives

LEMMA RequestsFollow == ASSUME Staked PROVE RequestsLive
<1>1. ASSUME NEW c \in CandidateAccounts, NEW d \in DelegatorAccounts, HasRequest(d, c)
      PROVE  /\ Delegates(d, c)
             /\ IF RevokePending(d, c)
                THEN requests[<<c, d>>].amount = delegatorState[d].delegations[c]
                ELSE requests[<<c, d>>].amount + MinDelegation <= delegatorState[d].delegations[c]
  BY <1>1 DEF Staked, DelegatorSound, RequestFits, RevokePending
<1>2. \A d \in Delegators : delegatorState[d].lessTotal = AskedBy(d, requests)
  BY DEF Staked, Shaped, DelegatorSound
<1> QED BY <1>1, <1>2 DEF RequestsLive, AskedBy

LEMMA DueFollow == ASSUME Staked, Candidates \subseteq CandidateAccounts PROVE DueRequestsSucceed
<1> SUFFICES ASSUME NEW c \in CandidateAccounts, NEW d \in DelegatorAccounts, HasRequest(d, c)
             PROVE  IF RevokePending(d, c) THEN RevokeSucceeds(d, c) ELSE DecreaseSucceeds(d, c)
  BY DEF DueRequestsSucceed
<1> DEFINE state == delegatorState[d]
           x == state.delegations[c]
           amount == requests[<<c, d>>].amount
           b == candidateInfo[c].book
<1>1. Delegates(d, c) /\ RequestFits(requests[<<c, d>>], x)
  BY DEF Staked, DelegatorSound
<1>2. /\ c \in Candidates /\ x \in Nat /\ x >= MinDelegation /\ x <= state.total
      /\ state.total \in Nat /\ RecordFits(state) /\ c \in DOMAIN state.delegations
      /\ EntryOf(d, c) \in HeldBy(c)
  BY <1>1, Listed
<1>3. amount \in Nat
  BY DEF HasRequest, Staked, Shaped, RequestsShaped, Requests
<1>4. CanRemove(b, d, x) /\ CanChange(b, d, x)
  <2>1. PICK T, B, y : BookIs(b, DelegatorAccounts, T, B, y) /\ T \cup B = HeldBy(c)
    BY <1>2, BookOf
  <2>2. PICK e \in T \cup B : e.owner = d /\ e.amount = x
    BY <1>2, <2>1, HeldFacts
  <2> HIDE DEF b, x
  <2>3. CanRemove(b, e.owner, e.amount) /\ CanChange(b, e.owner, e.amount)
    BY <2>1, Found DEF CanRemove, CanChange
  <2> QED BY <2>2, <2>3
<1>5. CASE RevokePending(d, c)
  <2>1. amount = x
    BY <1>1, <1>5 DEF RequestFits, RevokePending
  <2>2. OnlyDelegation(d) \/ Monus(state.total, MinDelegation) >= amount
    <3> SUFFICES ASSUME ~OnlyDelegation(d) PROVE Monus(state.total, MinDelegation) >= amount
      OBVIOUS
    <3>1. PICK k \in DOMAIN state.delegations : k # c
      <4>1. Cardinality({c}) = 1
        BY FS_Singleton
      <4> QED BY <1>2, <4>1 DEF OnlyDelegation
    <3>2. /\ state.delegations[k] + x <= state.total
          /\ state.delegations[k] \in Nat /\ state.delegations[k] >= MinDelegation
      BY <1>2, <3>1, RecordFacts DEF RecordFits
    <3> HIDE DEF state, x, amount
    <3> QED BY <1>2, <1>3, <2>1, <3>2, MinimaAssumption DEF Monus, x
  <2> QED BY <1>2, <1>4, <1>5, <2>1, <2>2 DEF RevokeSucceeds
<1>6. CASE ~RevokePending(d, c)
  <2>1. amount + MinDelegation <= x
    BY <1>1, <1>6 DEF RequestFits, RevokePending
  <2>2. x > amount /\ Monus(state.total, amount) >= MinDelegation
    <3> HIDE DEF state, x, amount
    <3> QED BY <1>2, <1>3, <2>1, MinimaAssumption DEF Monus
  <2> QED BY <1>1, <1>2, <1>4, <1>6, <2>2 DEF DecreaseSucceeds
<1> QED BY <1>5, <1>6

LEMMA TypeFollows == ASSUME Staked, IInv PROVE TypeOK
<1>1. Candidates \subseteq CandidateAccounts /\ PoolFollowsBooks
  BY DEF IInv
<1>2. ASSUME NEW c \in Candidates
      PROVE  /\ candidateInfo[c].status \in {"active", "idle", "leaving"}
             /\ candidateInfo[c].leaveAt \in Nat
             /\ \A r \in candidateInfo[c].request : r.amount \in Nat /\ r.when \in Nat
  BY <1>1 DEF Staked, BookSound, InfoFits
<1>3. ASSUME NEW c \in DOMAIN candidatePool
      PROVE  c \in CandidateAccounts /\ candidatePool[c] \in Nat
  <2>1. c \in Candidates /\ candidatePool[c] = candidateInfo[c].book.counted
    BY <1>1 DEF PoolFollowsBooks
  <2>2. PICK T, B, x : /\ BookIs(candidateInfo[c].book, DelegatorAccounts, T, B, x)
                       /\ T \cup B = HeldBy(c)
    BY <1>1, <2>1, BookOf
  <2>3. /\ candidateInfo[c].book.bond \in Nat
        /\ TopIs(candidateInfo[c].book, DelegatorAccounts, T)
    BY <2>2, BookFacts
  <2>4. Weight(T) \in Nat /\ candidateInfo[c].book.counted = candidateInfo[c].book.bond + Weight(T)
    BY <2>3, TopFacts DEF TopIs
  <2> QED BY <1>1, <2>1, <2>3, <2>4
<1>4. ASSUME NEW d \in Delegators
      PROVE  delegatorState[d].total \in Nat /\ delegatorState[d].lessTotal \in Nat
  <2>1. RecordFits(delegatorState[d]) /\ delegatorState[d].lessTotal = AskedBy(d, requests)
    BY DEF Staked, Shaped, DelegatorSound
  <2> DEFINE R == {q \in DOMAIN requests : q[2] = d}
             f == [p \in R |-> requests[p].amount]
  <2>2. IsFiniteSet(R)
    <3>1. R \subseteq Pairs
      BY DEF Staked, Shaped, RequestsShaped
    <3>2. IsFiniteSet(Pairs)
      BY AccountsAssumption, FS_Product DEF Pairs
    <3> HIDE DEF R
    <3> QED BY <3>1, <3>2, FS_Subset
  <2>3. \A p \in R : f[p] \in Nat
    BY DEF Staked, Shaped, RequestsShaped, Requests
  <2>4. DOMAIN f = R /\ AskedBy(d, requests) = SumFunction(f)
    BY DEF AskedBy
  <2> HIDE DEF f, R
  <2>5. SumFunction(f) \in Nat
    BY <2>2, <2>3, <2>4, SumIs, SumNat
  <2> QED BY <2>1, <2>4, <2>5, RecordFacts
<1> QED BY <1>1, <1>2, <1>3, <1>4 DEF TypeOK, Staked, Shaped, RequestsShaped

-----------------------------------------------------------------------------
(* Snapshots                                                               *)

\* What d earns on and what not are what d has in the top list of c.
LEMMA SplitAmount ==
    ASSUME Staked, NEW c \in Candidates, c \in CandidateAccounts,
           NEW T, NEW B, NEW x, BookIs(candidateInfo[c].book, DelegatorAccounts, T, B, x),
           T \cup B = HeldBy(c), NEW e \in T
    PROVE  /\ TopAmount(c, e.owner) = e.amount /\ e.amount \in Nat
           /\ Uncounted(c, e.owner) \in Nat /\ Rewardable(c, e.owner) \in Nat
           /\ e.amount = Uncounted(c, e.owner) + Rewardable(c, e.owner)
           /\ RevokePending(e.owner, c) => Rewardable(c, e.owner) = 0
<1> DEFINE d == e.owner
           amount == requests[<<c, d>>].amount
<1>1. TopIs(candidateInfo[c].book, DelegatorAccounts, T)
  BY BookFacts
<1>2. TopAmount(c, d) = e.amount /\ e.amount \in Nat
  <2> DEFINE b == candidateInfo[c].book
  <2>1. TopIs(b, DelegatorAccounts, T) /\ TopAmount(c, d) = AmountOf(b.top, e.owner)
    BY <1>1 DEF TopAmount
  <2> HIDE DEF b
  <2>2. AmountOf(b.top, e.owner) = e.amount
    BY <2>1, TopChanges
  <2>3. e.amount \in Nat
    BY <2>1, TopFacts
  <2> QED BY <2>1, <2>2, <2>3
<1>3. d \in DelegatorAccounts /\ Delegates(d, c) /\ e.amount = delegatorState[d].delegations[c]
  BY HeldFacts
<1>4. HasRequest(d, c) => amount \in Nat
  BY DEF HasRequest, Staked, Shaped, RequestsShaped, Requests
<1>5. HasRequest(d, c) => RequestFits(requests[<<c, d>>], e.amount)
  BY <1>3 DEF Staked, DelegatorSound
<1>6. MinDelegation \in Nat
  BY MinimaAssumption
<1>7. CASE ~HasRequest(d, c)
  <2>1. Uncounted(c, d) = 0 /\ Rewardable(c, d) = e.amount /\ ~RevokePending(d, c)
    BY <1>2, <1>7 DEF Uncounted, Rewardable, RevokePending
  <2> QED BY <1>2, <2>1
<1>8. CASE HasRequest(d, c) /\ requests[<<c, d>>].action = "revoke"
  <2>1. Uncounted(c, d) = e.amount /\ Rewardable(c, d) = 0
    BY <1>2, <1>8 DEF Uncounted, Rewardable
  <2> QED BY <1>2, <2>1
<1>9. CASE HasRequest(d, c) /\ requests[<<c, d>>].action # "revoke"
  <2>1. amount + MinDelegation <= e.amount
    BY <1>5, <1>9 DEF RequestFits
  <2>2. Uncounted(c, d) = amount /\ Rewardable(c, d) = Monus(e.amount, amount) /\ ~RevokePending(d, c)
    BY <1>2, <1>9 DEF Uncounted, Rewardable, RevokePending
  <2> HIDE DEF amount, d
  <2>3. amount \in Nat
    BY <1>4, <1>9
  <2>4. amount <= e.amount
    BY <1>2, <1>6, <2>1, <2>3
  <2>5. Monus(e.amount, amount) = e.amount - amount
    BY <2>4 DEF Monus
  <2>6. e.amount - amount \in Nat /\ e.amount = amount + (e.amount - amount)
    BY <1>2, <2>3, <2>4
  <2> QED BY <1>2, <2>2, <2>3, <2>5, <2>6 DEF d
<1> QED BY <1>7, <1>8, <1>9

\* What the owners in the top list of c earn on and what not, together.
LEMMA SplitTotal ==
    ASSUME Staked, NEW c \in Candidates, c \in CandidateAccounts
    PROVE  LET owners == Owners(candidateInfo[c].book.top)
               off == SumFunction([d \in owners |-> Uncounted(c, d)])
               on == SumFunction([d \in owners |-> Rewardable(c, d)])
           IN  /\ IsFiniteSet(owners) /\ off \in Nat /\ on \in Nat
               /\ \A d \in owners : /\ Rewardable(c, d) \in Nat
                                    /\ RevokePending(d, c) => Rewardable(c, d) = 0
               /\ candidateInfo[c].book.counted = candidateInfo[c].book.bond + (off + on)
               /\ candidateInfo[c].book.bond \in Nat
<1> DEFINE b == candidateInfo[c].book
           owners == Owners(b.top)
           u == [d \in owners |-> Uncounted(c, d)]
           r == [d \in owners |-> Rewardable(c, d)]
           t == [d \in owners |-> TopAmount(c, d)]
<1>1. PICK T, B, x : BookIs(b, DelegatorAccounts, T, B, x) /\ T \cup B = HeldBy(c)
  BY BookOf
<1>2. TopIs(b, DelegatorAccounts, T) /\ IsFiniteSet(T) /\ b.bond \in Nat
  BY <1>1, BookFacts
<1>3. /\ ToSet(b.top.delegations) = T /\ b.counted = b.bond + Weight(T) /\ Weight(T) \in Nat
      /\ \A e, f \in T : e.owner = f.owner => e = f
  <2> HIDE DEF b
  <2>1. Weight(T) \in Nat /\ \A e, f \in T : e.owner = f.owner => e = f
    BY <1>2, TopFacts
  <2>2. ToSet(b.top.delegations) = T /\ b.counted = b.bond + Weight(T)
    BY <1>2 DEF TopIs, Holds
  <2> QED BY <2>1, <2>2
<1>4. owners = {e.owner : e \in T}
  BY <1>3 DEF Owners
<1>5. \A e \in T : /\ TopAmount(c, e.owner) = e.amount /\ e.amount \in Nat
                   /\ Uncounted(c, e.owner) \in Nat /\ Rewardable(c, e.owner) \in Nat
                   /\ e.amount = Uncounted(c, e.owner) + Rewardable(c, e.owner)
                   /\ RevokePending(e.owner, c) => Rewardable(c, e.owner) = 0
  BY <1>1, SplitAmount
<1>6. \A d \in owners : /\ u[d] \in Nat /\ r[d] \in Nat /\ u[d] \in Int /\ r[d] \in Int
                        /\ t[d] \in Int /\ t[d] = u[d] + r[d]
                        /\ RevokePending(d, c) => Rewardable(c, d) = 0
  <2> SUFFICES ASSUME NEW d \in owners
               PROVE  /\ u[d] \in Nat /\ r[d] \in Nat /\ u[d] \in Int /\ r[d] \in Int
                      /\ t[d] \in Int /\ t[d] = u[d] + r[d]
                      /\ RevokePending(d, c) => Rewardable(c, d) = 0
    OBVIOUS
  <2>1. PICK e \in T : e.owner = d
    BY <1>4
  <2>2. u[d] = Uncounted(c, d) /\ r[d] = Rewardable(c, d) /\ t[d] = TopAmount(c, d)
    OBVIOUS
  <2>3. /\ TopAmount(c, d) = e.amount /\ e.amount \in Nat
        /\ Uncounted(c, d) \in Nat /\ Rewardable(c, d) \in Nat
        /\ e.amount = Uncounted(c, d) + Rewardable(c, d)
        /\ RevokePending(d, c) => Rewardable(c, d) = 0
    BY <1>5, <2>1
  <2> HIDE DEF u, r, t
  <2> QED BY <2>2, <2>3
<1>7. DOMAIN u = owners /\ DOMAIN r = owners
  OBVIOUS
<1>8. \A d \in owners : r[d] = Rewardable(c, d)
  OBVIOUS
<1> DEFINE m == [e \in T |-> e.owner]
           w == [e \in T |-> e.amount]
<1>9. /\ \A e \in T : m[e] \in owners /\ w[e] = t[m[e]]
      /\ \A d \in owners : t[d] \in Int /\ \E e \in T : d = m[e]
      /\ \A e, f \in T : m[e] = m[f] => e = f
  BY <1>3, <1>4, <1>5, <1>6
<1>10. Weight(T) = SumFunctionOnSet(w, T)
  BY DEF Weight
<1> HIDE DEF owners, u, r, t, m, w
<1>11. IsFiniteSet(owners) /\ SumFunctionOnSet(w, T) = SumFunctionOnSet(t, owners)
  BY <1>2, <1>9, SumRenamed
<1>12. SumFunctionOnSet(t, owners) = SumFunctionOnSet(u, owners) + SumFunctionOnSet(r, owners)
  BY <1>6, <1>11, SumPlus
<1>13. SumFunctionOnSet(u, owners) \in Nat /\ SumFunctionOnSet(r, owners) \in Nat
  BY <1>6, <1>11, SumNat
<1>14. SumFunction(u) = SumFunctionOnSet(u, owners) /\ SumFunction(r) = SumFunctionOnSet(r, owners)
  BY <1>7, SumIs
<1>15. b.counted = b.bond + (SumFunction(u) + SumFunction(r))
  BY <1>3, <1>10, <1>11, <1>12, <1>14
<1>16. SumFunction(u) \in Nat /\ SumFunction(r) \in Nat
  BY <1>13, <1>14
<1>17. \A d \in owners : Rewardable(c, d) \in Nat /\ (RevokePending(d, c) => Rewardable(c, d) = 0)
  BY <1>6, <1>8
<1> QED BY <1>2, <1>11, <1>15, <1>16, <1>17 DEF owners, u, r

LEMMA PoolFollow == ASSUME Staked, IInv PROVE PoolExact
<1>1. ASSUME NEW c \in Candidates
      PROVE  LET owners == Owners(candidateInfo[c].book.top)
             IN  candidateInfo[c].book.counted - SumFunction([d \in owners |-> Uncounted(c, d)])
                   = candidateInfo[c].book.bond + SumFunction([d \in owners |-> Rewardable(c, d)])
  <2> DEFINE owners == Owners(candidateInfo[c].book.top)
             off == SumFunction([d \in owners |-> Uncounted(c, d)])
             on == SumFunction([d \in owners |-> Rewardable(c, d)])
  <2>1. /\ off \in Nat /\ on \in Nat
        /\ candidateInfo[c].book.counted = candidateInfo[c].book.bond + (off + on)
        /\ candidateInfo[c].book.bond \in Nat
    BY SplitTotal DEF IInv
  <2> HIDE DEF off, on
  <2>2. candidateInfo[c].book.counted - off = candidateInfo[c].book.bond + on
    BY <2>1
  <2> QED BY <2>2 DEF off, on
<1> QED BY <1>1 DEF PoolExact, RewardableExact, IInv

-----------------------------------------------------------------------------
(* The sum of what a delegator has asked for                               *)

\* As far as d is concerned asked and now are the same, except about c.
SameAskedBut(d, asked, now, C) ==
    \A c \in CandidateAccounts \ C :
        /\ <<c, d>> \in DOMAIN now <=> <<c, d>> \in DOMAIN asked
        /\ <<c, d>> \in DOMAIN asked => now[<<c, d>>] = asked[<<c, d>>]

LEMMA AskedFacts ==
    ASSUME NEW asked, DOMAIN asked \subseteq Pairs, \A p \in DOMAIN asked : asked[p].amount \in Nat,
           NEW d \in DelegatorAccounts
    PROVE  LET R == {<<c, d>> : c \in {k \in CandidateAccounts : <<k, d>> \in DOMAIN asked}}
               f == [p \in R |-> asked[p].amount]
           IN  /\ AskedBy(d, asked) = SumFunctionOnSet(f, R)
               /\ IsFiniteSet(R) /\ \A p \in R : f[p] \in Nat /\ f[p] \in Int
<1> DEFINE R == {<<c, d>> : c \in {k \in CandidateAccounts : <<k, d>> \in DOMAIN asked}}
           f == [p \in R |-> asked[p].amount]
<1>1. {q \in DOMAIN asked : q[2] = d} = R
  <2>1. ASSUME NEW q \in DOMAIN asked, q[2] = d PROVE q \in R
    <3>1. q = <<q[1], q[2]>> /\ q[1] \in CandidateAccounts
      BY DEF Pairs
    <3> QED BY <2>1, <3>1
  <2>2. ASSUME NEW c \in CandidateAccounts, <<c, d>> \in DOMAIN asked
        PROVE  <<c, d>> \in {q \in DOMAIN asked : q[2] = d}
    BY <2>2
  <2> QED BY <2>1, <2>2
<1>2. AskedBy(d, asked) = SumFunction(f)
  BY <1>1 DEF AskedBy
<1>3. DOMAIN f = R
  OBVIOUS
<1>4. \A p \in R : f[p] \in Nat
  OBVIOUS
<1>5. R \subseteq Pairs
  BY DEF Pairs
<1>6. IsFiniteSet(Pairs)
  BY AccountsAssumption, FS_Product DEF Pairs
<1> HIDE DEF R, f
<1>7. IsFiniteSet(R)
  BY <1>5, <1>6, FS_Subset
<1>8. AskedBy(d, asked) = SumFunctionOnSet(f, R)
  BY <1>2, <1>3, SumIs
<1>9. \A p \in R : f[p] \in Nat /\ f[p] \in Int
  BY <1>4
<1> QED BY Zenon, <1>7, <1>8, <1>9 DEF R, f

LEMMA AskedSame ==
    ASSUME NEW asked, DOMAIN asked \subseteq Pairs, \A p \in DOMAIN asked : asked[p].amount \in Nat,
           NEW now, DOMAIN now \subseteq Pairs, \A p \in DOMAIN now : now[p].amount \in Nat,
           NEW d \in DelegatorAccounts, SameAskedBut(d, asked, now, {})
    PROVE  AskedBy(d, now) = AskedBy(d, asked)
<1> DEFINE R == {<<c, d>> : c \in {k \in CandidateAccounts : <<k, d>> \in DOMAIN asked}}
           f == [p \in R |-> asked[p].amount]
           S == {<<c, d>> : c \in {k \in CandidateAccounts : <<k, d>> \in DOMAIN now}}
           g == [p \in S |-> now[p].amount]
<1>1. AskedBy(d, asked) = SumFunctionOnSet(f, R) /\ IsFiniteSet(R) /\ \A p \in R : f[p] \in Int
  BY AskedFacts
<1>2. AskedBy(d, now) = SumFunctionOnSet(g, S)
  BY AskedFacts
<1>3. R = S /\ \A p \in R : f[p] = g[p]
  BY DEF SameAskedBut
<1> HIDE DEF R, S, f, g
<1>4. SumFunctionOnSet(f, R) = SumFunctionOnSet(g, R)
  BY <1>1, <1>3, SumAgrees
<1> QED BY <1>1, <1>2, <1>3, <1>4

\* One request of d less.
LEMMA AskedLess ==
    ASSUME NEW asked, DOMAIN asked \subseteq Pairs, \A p \in DOMAIN asked : asked[p].amount \in Nat,
           NEW now, DOMAIN now \subseteq Pairs, \A p \in DOMAIN now : now[p].amount \in Nat,
           NEW d \in DelegatorAccounts, NEW c \in CandidateAccounts, SameAskedBut(d, asked, now, {c}),
           <<c, d>> \in DOMAIN asked, <<c, d>> \notin DOMAIN now
    PROVE  /\ AskedBy(d, asked) = asked[<<c, d>>].amount + AskedBy(d, now)
           /\ AskedBy(d, now) \in Nat /\ asked[<<c, d>>].amount \in Nat
<1> DEFINE R == {<<k, d>> : k \in {l \in CandidateAccounts : <<l, d>> \in DOMAIN asked}}
           f == [p \in R |-> asked[p].amount]
           S == {<<k, d>> : k \in {l \in CandidateAccounts : <<l, d>> \in DOMAIN now}}
           g == [p \in S |-> now[p].amount]
           q == <<c, d>>
<1>1. AskedBy(d, asked) = SumFunctionOnSet(f, R) /\ IsFiniteSet(R) /\ \A p \in R : f[p] \in Int
  BY AskedFacts
<1>2. AskedBy(d, now) = SumFunctionOnSet(g, S) /\ IsFiniteSet(S) /\ \A p \in S : g[p] \in Nat /\ g[p] \in Int
  BY AskedFacts
<1>3. q \in R /\ f[q] = asked[q].amount /\ asked[q].amount \in Nat
  OBVIOUS
<1>4. S = R \ {q}
  BY DEF SameAskedBut
<1>5. \A p \in S : f[p] = g[p]
  BY DEF SameAskedBut
<1> HIDE DEF R, S, f, g, q
<1>6. SumFunctionOnSet(f, R) = f[q] + SumFunctionOnSet(f, R \ {q})
  BY <1>1, <1>3, SumTakes
<1>7. SumFunctionOnSet(f, S) = SumFunctionOnSet(g, S)
  <2>1. \A p \in S : f[p] \in Int /\ f[p] = g[p]
    BY <1>2, <1>5
  <2> QED BY <1>2, <2>1, SumAgrees
<1>8. SumFunctionOnSet(g, S) \in Nat
  BY <1>2, SumNat
<1> QED BY <1>1, <1>2, <1>3, <1>4, <1>6, <1>7, <1>8 DEF q

-----------------------------------------------------------------------------
(* What a step does to a delegator                                         *)

\* The delegation of d to c, or its absence, stays.
SameStake(d, c) ==
    /\ Delegates(d, c)' <=> Delegates(d, c)
    /\ Delegates(d, c) => delegatorState'[d].delegations[c] = delegatorState[d].delegations[c]

\* The step does nothing to d, who may have got money.
Untouched(d) ==
    /\ d \in Delegators' <=> d \in Delegators
    /\ d \in Delegators => delegatorState'[d] = delegatorState[d]
    /\ SameAskedBut(d, requests, requests', {})
    /\ delegatorLock'[d] = delegatorLock[d]
    /\ balance'[d] \in Nat /\ balance[d] <= balance'[d]

LEMMA AskedNow ==
    ASSUME Staked, RequestsShaped', NEW d \in DelegatorAccounts
    PROVE  /\ SameAskedBut(d, requests, requests', {}) => AskedBy(d, requests') = AskedBy(d, requests)
           /\ \A c \in CandidateAccounts :
                 /\ SameAskedBut(d, requests, requests', {c})
                 /\ HasRequest(d, c) /\ <<c, d>> \notin DOMAIN requests'
                 => /\ AskedBy(d, requests) = requests[<<c, d>>].amount + AskedBy(d, requests')
                    /\ AskedBy(d, requests') \in Nat /\ requests[<<c, d>>].amount \in Nat
           /\ \A c \in CandidateAccounts :
                 /\ SameAskedBut(d, requests, requests', {c})
                 /\ ~HasRequest(d, c) /\ <<c, d>> \in DOMAIN requests'
                 => /\ AskedBy(d, requests') = requests'[<<c, d>>].amount + AskedBy(d, requests)
                    /\ AskedBy(d, requests) \in Nat /\ requests'[<<c, d>>].amount \in Nat
<1> DEFINE asked == requests
           now == requests'
<1>1. /\ DOMAIN asked \subseteq Pairs /\ \A p \in DOMAIN asked : asked[p].amount \in Nat
      /\ DOMAIN now \subseteq Pairs /\ \A p \in DOMAIN now : now[p].amount \in Nat
  BY DEF Staked, Shaped, RequestsShaped, Requests
<1>2. \A c \in CandidateAccounts : HasRequest(d, c) <=> <<c, d>> \in DOMAIN asked
  BY DEF HasRequest
<1> HIDE DEF asked, now
<1>3. SameAskedBut(d, asked, now, {}) => AskedBy(d, now) = AskedBy(d, asked)
  BY <1>1, AskedSame
<1>4. ASSUME NEW c \in CandidateAccounts, SameAskedBut(d, asked, now, {c}),
             <<c, d>> \in DOMAIN asked, <<c, d>> \notin DOMAIN now
      PROVE  /\ AskedBy(d, asked) = asked[<<c, d>>].amount + AskedBy(d, now)
             /\ AskedBy(d, now) \in Nat /\ asked[<<c, d>>].amount \in Nat
  BY <1>1, <1>4, AskedLess
<1>5. ASSUME NEW c \in CandidateAccounts, SameAskedBut(d, asked, now, {c}),
             <<c, d>> \notin DOMAIN asked, <<c, d>> \in DOMAIN now
      PROVE  /\ AskedBy(d, now) = now[<<c, d>>].amount + AskedBy(d, asked)
             /\ AskedBy(d, asked) \in Nat /\ now[<<c, d>>].amount \in Nat
  <2>1. SameAskedBut(d, now, asked, {c})
    BY <1>5 DEF SameAskedBut
  <2> QED BY <1>1, <1>5, <2>1, AskedLess
<1>6. /\ \A c \in CandidateAccounts :
           (SameAskedBut(d, asked, now, {c}) /\ HasRequest(d, c) /\ <<c, d>> \notin DOMAIN now)
           => /\ AskedBy(d, asked) = asked[<<c, d>>].amount + AskedBy(d, now)
              /\ AskedBy(d, now) \in Nat /\ asked[<<c, d>>].amount \in Nat
      /\ \A c \in CandidateAccounts :
           (SameAskedBut(d, asked, now, {c}) /\ ~HasRequest(d, c) /\ <<c, d>> \in DOMAIN now)
           => /\ AskedBy(d, now) = now[<<c, d>>].amount + AskedBy(d, asked)
              /\ AskedBy(d, asked) \in Nat /\ now[<<c, d>>].amount \in Nat
  BY <1>2, <1>4, <1>5
<1> QED BY <1>3, <1>6 DEF asked, now

LEMMA UntouchedSound ==
    ASSUME Staked, RequestsShaped', NEW d \in DelegatorAccounts, Untouched(d)
    PROVE  /\ DelegatorSound(d)'
           /\ \A c \in CandidateAccounts : SameStake(d, c)
<1>1. DelegatorSound(d)
  BY DEF Staked
<1>2. \A c \in CandidateAccounts : SameStake(d, c)
  BY DEF SameStake, Untouched, Delegates, Delegators
<1>3. AskedBy(d, requests') = AskedBy(d, requests)
  BY AskedNow DEF Untouched
<1>4. d \in Delegators' => /\ RecordFits(delegatorState'[d])
                           /\ DOMAIN delegatorState'[d].delegations # {}
                           /\ delegatorState'[d].lessTotal = AskedBy(d, requests')
  BY <1>1, <1>3 DEF DelegatorSound, Untouched
<1>5. ASSUME NEW c \in CandidateAccounts, HasRequest(d, c)'
      PROVE  Delegates(d, c)' /\ RequestFits(requests'[<<c, d>>], delegatorState'[d].delegations[c])
  <2>1. HasRequest(d, c) /\ requests'[<<c, d>>] = requests[<<c, d>>]
    BY <1>5 DEF Untouched, SameAskedBut, HasRequest
  <2>2. Delegates(d, c) /\ RequestFits(requests[<<c, d>>], delegatorState[d].delegations[c])
    BY <1>1, <2>1 DEF DelegatorSound
  <2> QED BY <1>2, <2>1, <2>2 DEF SameStake
<1>6. delegatorLock'[d] = IF d \in Delegators' THEN delegatorState'[d].total ELSE 0
  BY <1>1 DEF DelegatorSound, Untouched
<1>7. delegatorLock'[d] <= balance'[d]
  <2>1. delegatorLock[d] <= balance[d] /\ delegatorLock[d] \in Nat /\ balance[d] \in Nat
    BY <1>1 DEF DelegatorSound, Staked, Shaped, Accounts
  <2> QED BY <2>1 DEF Untouched
<1>8. DelegatorSound(d)'
  BY <1>4, <1>5, <1>6, <1>7 DEF DelegatorSound, RecordFits, AskedBy, RequestFits
<1> QED BY <1>2, <1>8

\* The step takes the delegation of d to c, with all that belongs to it.
Lost(d, c) ==
    /\ Delegates(d, c)
    /\ d \in Delegators' <=> ~OnlyDelegation(d)
    /\ d \in Delegators' => delegatorState'[d] = Remaining(d, c)
    /\ SameAskedBut(d, requests, requests', {c}) /\ <<c, d>> \notin DOMAIN requests'
    /\ delegatorLock'[d] = Remaining(d, c).total /\ balance'[d] = balance[d]

\* What is left of a record, for Staked.
LEMMA RemainingIs ==
    ASSUME Staked, NEW d \in DelegatorAccounts, NEW c \in CandidateAccounts, Delegates(d, c)
    PROVE  /\ LeftAs(Remaining(d, c), delegatorState[d], c)
           /\ OnlyDelegation(d) <=> DOMAIN Remaining(d, c).delegations = {}
           /\ Remaining(d, c).total = 0 <=> OnlyDelegation(d)
           /\ Remaining(d, c).total = delegatorLock[d] - delegatorState[d].delegations[c]
           /\ Remaining(d, c).lessTotal =
                 Monus(delegatorState[d].lessTotal, IF HasRequest(d, c) THEN requests[<<c, d>>].amount ELSE 0)
<1> DEFINE state == delegatorState[d]
           r == Remaining(d, c)
<1>1. RecordFits(state) /\ c \in DOMAIN state.delegations /\ d \in Delegators
  BY Listed
<1>2. /\ DOMAIN r = RecordFields
      /\ r.delegations = Minus(state.delegations, {c})
      /\ r.total = Monus(state.total, state.delegations[c])
      /\ r.lessTotal = Monus(state.lessTotal, IF HasRequest(d, c) THEN requests[<<c, d>>].amount ELSE 0)
  BY DEF Remaining, RecordFields
<1>3. delegatorLock[d] = state.total
  BY <1>1 DEF Staked, DelegatorSound
<1> HIDE DEF r, state
<1>4. /\ LeftAs(r, state, c)
      /\ Cardinality(DOMAIN state.delegations) = 1 <=> DOMAIN r.delegations = {}
      /\ r.total = 0 <=> DOMAIN r.delegations = {}
  BY <1>1, <1>2, RecordLoses
<1>5. OnlyDelegation(d) <=> Cardinality(DOMAIN state.delegations) = 1
  BY DEF OnlyDelegation, state
<1> QED BY <1>2, <1>3, <1>4, <1>5 DEF LeftAs, r, state

LEMMA LostSound ==
    ASSUME Staked, RequestsShaped', NEW d \in DelegatorAccounts, NEW c \in CandidateAccounts, Lost(d, c)
    PROVE  /\ DelegatorSound(d)'
           /\ ~Delegates(d, c)' /\ \A k \in CandidateAccounts \ {c} : SameStake(d, k)
           /\ delegatorLock'[d] = delegatorLock[d] - delegatorState[d].delegations[c]
<1> DEFINE state == delegatorState[d]
           r == Remaining(d, c)
<1>1. /\ DelegatorSound(d) /\ d \in Delegators
      /\ delegatorLock[d] \in Nat /\ balance[d] \in Nat
  BY DEF Staked, Shaped, Lost, Delegates, Accounts
<1>2. /\ LeftAs(r, state, c)
      /\ OnlyDelegation(d) <=> DOMAIN r.delegations = {}
      /\ r.total = 0 <=> OnlyDelegation(d)
      /\ r.total = delegatorLock[d] - state.delegations[c]
      /\ r.lessTotal = Monus(state.lessTotal, IF HasRequest(d, c) THEN requests[<<c, d>>].amount ELSE 0)
  BY RemainingIs DEF Lost
<1>3. state.lessTotal = AskedBy(d, requests)
  BY <1>1 DEF DelegatorSound
<1> HIDE DEF r
<1>4. r.lessTotal = AskedBy(d, requests')
  <2>1. CASE HasRequest(d, c)
    <3>1. /\ AskedBy(d, requests) = requests[<<c, d>>].amount + AskedBy(d, requests')
          /\ AskedBy(d, requests') \in Nat /\ requests[<<c, d>>].amount \in Nat
      BY <2>1, AskedNow DEF Lost
    <3>2. r.lessTotal = Monus(AskedBy(d, requests), requests[<<c, d>>].amount)
      BY <1>2, <1>3, <2>1
    <3> DEFINE a == AskedBy(d, requests)
               b == AskedBy(d, requests')
               z == requests[<<c, d>>].amount
    <3> HIDE DEF a, b, z
    <3>3. a = z + b /\ b \in Nat /\ z \in Nat
      BY <3>1 DEF a, b, z
    <3>4. Monus(a, z) = b
      BY <3>3 DEF Monus
    <3> QED BY <3>2, <3>4 DEF a, b, z
  <2>2. CASE ~HasRequest(d, c)
    <3>1. SameAskedBut(d, requests, requests', {})
      BY <2>2 DEF Lost, SameAskedBut, HasRequest
    <3>2. AskedBy(d, requests') = AskedBy(d, requests)
      BY <3>1, AskedNow
    <3> DEFINE a == AskedBy(d, requests)
    <3>3. r.lessTotal = Monus(a, 0)
      BY <1>2, <1>3, <2>2
    <3>4. a \in Nat
      <4>1. DOMAIN requests \subseteq Pairs /\ \A p \in DOMAIN requests : requests[p].amount \in Nat
        BY DEF Staked, Shaped, RequestsShaped, Requests
      <4> DEFINE asked == requests
                 R == {<<k, d>> : k \in {l \in CandidateAccounts : <<l, d>> \in DOMAIN asked}}
                 f == [p \in R |-> asked[p].amount]
      <4>2. AskedBy(d, asked) = SumFunctionOnSet(f, R) /\ IsFiniteSet(R) /\ \A p \in R : f[p] \in Nat
        BY <4>1, AskedFacts
      <4> HIDE DEF R, f
      <4> QED BY <4>2, SumNat
    <3> HIDE DEF a
    <3>5. Monus(a, 0) = a
      BY <3>4 DEF Monus
    <3> QED BY <3>2, <3>3, <3>5 DEF a
  <2> QED BY <2>1, <2>2
<1>5. /\ \A k \in CandidateAccounts : Delegates(d, k)' <=> (Delegates(d, k) /\ k # c)
      /\ \A k \in CandidateAccounts : Delegates(d, k)' =>
             delegatorState'[d].delegations[k] = state.delegations[k]
  <2>1. CASE OnlyDelegation(d)
    <3>1. d \notin Delegators' /\ DOMAIN state.delegations \subseteq {c}
      BY <1>2, <2>1 DEF Lost, LeftAs
    <3> QED BY <3>1 DEF Delegates
  <2>2. CASE ~OnlyDelegation(d)
    <3>1. d \in Delegators' /\ delegatorState'[d] = r
      BY <2>2 DEF Lost, r
    <3>2. /\ DOMAIN r.delegations = DOMAIN state.delegations \ {c}
          /\ \A k \in DOMAIN r.delegations : r.delegations[k] = state.delegations[k]
      BY <1>2 DEF LeftAs
    <3> QED BY <1>1, <3>1, <3>2 DEF Delegates
  <2> QED BY <2>1, <2>2
<1>6. ~Delegates(d, c)' /\ \A k \in CandidateAccounts \ {c} : SameStake(d, k)
  BY <1>5 DEF SameStake
<1>7. d \in Delegators' => /\ RecordFits(delegatorState'[d])
                           /\ DOMAIN delegatorState'[d].delegations # {}
                           /\ delegatorState'[d].lessTotal = AskedBy(d, requests')
  BY <1>2, <1>4 DEF Lost, LeftAs, r
<1>8. ASSUME NEW k \in CandidateAccounts, HasRequest(d, k)'
      PROVE  Delegates(d, k)' /\ RequestFits(requests'[<<k, d>>], delegatorState'[d].delegations[k])
  <2>1. k # c /\ HasRequest(d, k) /\ requests'[<<k, d>>] = requests[<<k, d>>]
    BY <1>8 DEF Lost, SameAskedBut, HasRequest
  <2>2. Delegates(d, k) /\ RequestFits(requests[<<k, d>>], state.delegations[k])
    BY <1>1, <2>1 DEF DelegatorSound
  <2> QED BY <1>6, <2>1, <2>2 DEF SameStake
<1>9. delegatorLock'[d] = IF d \in Delegators' THEN delegatorState'[d].total ELSE 0
  BY <1>2 DEF Lost, r
<1>10. delegatorLock'[d] = delegatorLock[d] - state.delegations[c]
  BY <1>2 DEF Lost, r
<1>11. delegatorLock'[d] <= balance'[d]
  <2>1. state.delegations[c] \in Nat
    BY Listed DEF Lost
  <2>2. delegatorLock[d] <= balance[d] /\ balance'[d] = balance[d]
    BY <1>1 DEF DelegatorSound, Lost
  <2> HIDE DEF state
  <2> QED BY <1>1, <1>10, <2>1, <2>2 DEF state
<1>12. DelegatorSound(d)'
  BY <1>7, <1>8, <1>9, <1>11 DEF DelegatorSound, RecordFits, AskedBy, RequestFits
<1> QED BY <1>6, <1>10, <1>12

\* The step leaves d with a delegation to c, old or new; nothing else of d is touched.
Holding(d, c) ==
    /\ Delegates(d, c)' /\ RecordFits(delegatorState'[d])
    /\ \A k \in CandidateAccounts \ {c} : SameStake(d, k)
    /\ SameAskedBut(d, requests, requests', {c})
    /\ <<c, d>> \in DOMAIN requests' =>
           RequestFits(requests'[<<c, d>>], delegatorState'[d].delegations[c])
    /\ delegatorState'[d].lessTotal = AskedBy(d, requests')
    /\ delegatorLock'[d] = delegatorState'[d].total /\ delegatorLock'[d] <= balance'[d]

LEMMA HoldingSound ==
    ASSUME Staked, NEW d \in DelegatorAccounts, NEW c \in CandidateAccounts, Holding(d, c)
    PROVE  DelegatorSound(d)'
<1>1. DelegatorSound(d)
  BY DEF Staked
<1>2. d \in Delegators' /\ c \in DOMAIN delegatorState'[d].delegations
  BY DEF Holding, Delegates
<1>3. ASSUME NEW k \in CandidateAccounts, HasRequest(d, k)'
      PROVE  Delegates(d, k)' /\ RequestFits(requests'[<<k, d>>], delegatorState'[d].delegations[k])
  <2>1. CASE k = c
    BY <1>3, <2>1 DEF Holding, HasRequest
  <2>2. CASE k # c
    <3>1. HasRequest(d, k) /\ requests'[<<k, d>>] = requests[<<k, d>>]
      BY <1>3, <2>2 DEF Holding, SameAskedBut, HasRequest
    <3>2. Delegates(d, k) /\ RequestFits(requests[<<k, d>>], delegatorState[d].delegations[k])
      BY <1>1, <3>1 DEF DelegatorSound
    <3>3. SameStake(d, k)
      BY <2>2 DEF Holding
    <3> QED BY <3>1, <3>2, <3>3 DEF SameStake
  <2> QED BY <2>1, <2>2
<1> QED BY <1>2, <1>3 DEF Holding, DelegatorSound, RecordFits, AskedBy, RequestFits

\* A record that has grown is the record of the same delegations to others.
LEMMA GrownHolds ==
    ASSUME NEW d, NEW c \in CandidateAccounts, NEW x, NEW state,
           d \in Delegators => state = delegatorState[d],
           d \notin Delegators => DOMAIN state.delegations = {},
           d \in Delegators', GrownTo(delegatorState'[d], state, c, x)
    PROVE  /\ Delegates(d, c)' /\ RecordFits(delegatorState'[d])
           /\ delegatorState'[d].delegations[c] = x
           /\ \A k \in CandidateAccounts \ {c} : SameStake(d, k)
BY DEF GrownTo, Delegates, SameStake

-----------------------------------------------------------------------------
(* What a step does to the delegations to a candidate                      *)

LEMMA HeldSame ==
    ASSUME NEW c, \A d \in DelegatorAccounts : SameStake(d, c)
    PROVE  HeldBy(c)' = HeldBy(c)
BY DEF HeldBy, SameStake

\* Those of L have lost theirs.
LEMMA HeldLess ==
    ASSUME NEW c, NEW L, \A d \in DelegatorAccounts \cap L : ~Delegates(d, c)',
           \A d \in DelegatorAccounts \ L : SameStake(d, c)
    PROVE  HeldBy(c)' = {e \in HeldBy(c) : e.owner \notin L}
BY DEF HeldBy, SameStake

\* The delegations to c when those of L are gone and d has one of x.
HeldAnew(c, L, d, x) ==
    {e \in HeldBy(c) : e.owner \notin L \cup {d}} \cup {[owner |-> d, amount |-> x]}

\* Those of L lose theirs and d has one of x.
LEMMA HeldMore ==
    ASSUME NEW c, NEW L, \A k \in DelegatorAccounts \cap L : ~Delegates(k, c)',
           NEW d \in DelegatorAccounts \ L, NEW x,
           Delegates(d, c)', delegatorState'[d].delegations[c] = x,
           \A k \in DelegatorAccounts \ (L \cup {d}) : SameStake(k, c)
    PROVE  HeldBy(c)' = HeldAnew(c, L, d, x)
<1> DEFINE N == {e \in HeldBy(c) : e.owner \notin L \cup {d}} \cup {[owner |-> d, amount |-> x]}
<1>1. ASSUME NEW e \in HeldBy(c)' PROVE e \in N
  <2>1. PICK k \in DelegatorAccounts :
           Delegates(k, c)' /\ e = [owner |-> k, amount |-> delegatorState'[k].delegations[c]]
    BY DEF HeldBy
  <2>2. CASE k = d
    BY <2>1, <2>2
  <2>3. CASE k # d
    <3>1. k \notin L \cup {d} /\ SameStake(k, c)
      BY <2>1, <2>3
    <3>2. Delegates(k, c) /\ e = [owner |-> k, amount |-> delegatorState[k].delegations[c]]
      BY <2>1, <3>1 DEF SameStake
    <3> QED BY <3>1, <3>2 DEF HeldBy
  <2> QED BY <2>2, <2>3
<1>2. ASSUME NEW e \in N PROVE e \in HeldBy(c)'
  <2>1. CASE e = [owner |-> d, amount |-> x]
    BY <2>1 DEF HeldBy
  <2>2. CASE e # [owner |-> d, amount |-> x]
    <3>1. e \in HeldBy(c) /\ e.owner \notin L \cup {d}
      BY <2>2
    <3>2. PICK k \in DelegatorAccounts :
             Delegates(k, c) /\ e = [owner |-> k, amount |-> delegatorState[k].delegations[c]]
      BY <3>1 DEF HeldBy
    <3>3. k \notin L \cup {d}
      BY <3>1, <3>2
    <3>4. SameStake(k, c)
      BY <3>3
    <3> QED BY <3>2, <3>4 DEF SameStake, HeldBy
  <2> QED BY <2>1, <2>2
<1>3. HeldBy(c)' = N
  BY <1>1, <1>2
<1> QED BY Zenon, <1>3 DEF HeldAnew

\* For a book that says who holds what.
LEMMA HeldUnique ==
    ASSUME NEW c, NEW d \in DelegatorAccounts, Delegates(d, c)
    PROVE  /\ {e \in HeldBy(c) : e.owner \notin {d}} = HeldBy(c) \ {EntryOf(d, c)}
           /\ {e \in HeldBy(c) : e.owner = d} = {EntryOf(d, c)}
<1>1. /\ \A e \in HeldBy(c) : e = EntryOf(e.owner, c)
      /\ EntryOf(d, c) \in HeldBy(c) /\ EntryOf(d, c).owner = d
  BY HeldFacts
<1> QED BY <1>1

-----------------------------------------------------------------------------
(* More on sums                                                            *)

\* What is zero does not count.
LEMMA SumZero ==
    ASSUME NEW S, IsFiniteSet(S), NEW R \in SUBSET S, NEW f, \A x \in S : f[x] \in Int,
           \A x \in S \ R : f[x] = 0
    PROVE  SumFunctionOnSet(f, S) = SumFunctionOnSet(f, R)
<1> DEFINE U == S \ R
           C == {T \in SUBSET U : SumFunctionOnSet(f, R \cup T) = SumFunctionOnSet(f, R)}
<1>1. IsFiniteSet(U) /\ IsFiniteSet(R) /\ \A x \in U : f[x] = 0 /\ x \notin R
  BY FS_Subset
<1>2. {} \in C
  <2>1. R \cup {} = R
    OBVIOUS
  <2> QED BY <2>1
<1>3. ASSUME NEW T \in SUBSET U, NEW x \in U \ T, T \in C PROVE T \cup {x} \in C
  <2> DEFINE V == R \cup T
  <2>1. IsFiniteSet(V) /\ x \notin V /\ \A y \in V \cup {x} : f[y] \in Int
    BY <1>1, FS_Subset, FS_Union
  <2>2. f[x] = 0 /\ R \cup (T \cup {x}) = V \cup {x} /\ SumFunctionOnSet(f, V) = SumFunctionOnSet(f, R)
    BY <1>1, <1>3
  <2> HIDE DEF V
  <2>3. SumFunctionOnSet(f, V \cup {x}) = f[x] + SumFunctionOnSet(f, V)
    BY <2>1, SumAdds
  <2>4. SumFunctionOnSet(f, V) \in Int
    BY <2>1, SumType
  <2>5. SumFunctionOnSet(f, V \cup {x}) = SumFunctionOnSet(f, R)
    BY <2>2, <2>3, <2>4
  <2> QED BY <1>3, <2>2, <2>5
<1> HIDE DEF C
<1>4. U \in C
  BY <1>1, <1>2, <1>3, SetInduction
<1>5. R \cup U = S
  OBVIOUS
<1> QED BY <1>4, <1>5 DEF C

\* The weight of delegations that are divided.
LEMMA WeightDivides ==
    ASSUME NEW A, NEW T \in SUBSET Entries(A), NEW B \in SUBSET Entries(A), IsFiniteSet(T), IsFiniteSet(B),
           \A e \in T : \A f \in B : e # f
    PROVE  Weight(T \cup B) = Weight(T) + Weight(B)
<1> DEFINE S == T \cup B
           h == [e \in S |-> e.amount]
           f == [e \in S |-> IF e \in T THEN e.amount ELSE 0]
           g == [e \in S |-> IF e \in B THEN e.amount ELSE 0]
           t == [e \in T |-> e.amount]
           b == [e \in B |-> e.amount]
<1>1. IsFiniteSet(S)
  BY FS_Union
<1>2. /\ \A e \in S : f[e] \in Int /\ g[e] \in Int /\ h[e] = f[e] + g[e]
      /\ \A e \in S \ T : f[e] = 0
      /\ \A e \in S \ B : g[e] = 0
      /\ \A e \in T : f[e] \in Int /\ f[e] = t[e]
      /\ \A e \in B : g[e] \in Int /\ g[e] = b[e]
      /\ T \in SUBSET S /\ B \in SUBSET S
  BY DEF Entries
<1>3. /\ Weight(S) = SumFunctionOnSet(h, S) /\ Weight(T) = SumFunctionOnSet(t, T)
      /\ Weight(B) = SumFunctionOnSet(b, B)
  BY Zenon DEF Weight
<1> HIDE DEF S, h, f, g, t, b
<1>4. SumFunctionOnSet(h, S) = SumFunctionOnSet(f, S) + SumFunctionOnSet(g, S)
  BY <1>1, <1>2, SumPlus
<1>5. SumFunctionOnSet(f, S) = SumFunctionOnSet(f, T)
  BY <1>1, <1>2, SumZero
<1>6. SumFunctionOnSet(g, S) = SumFunctionOnSet(g, B)
  BY <1>1, <1>2, SumZero
<1>7. SumFunctionOnSet(f, T) = SumFunctionOnSet(t, T) /\ SumFunctionOnSet(g, B) = SumFunctionOnSet(b, B)
  BY <1>2, SumAgrees
<1> QED BY <1>3, <1>4, <1>5, <1>6, <1>7 DEF S

\* A table in which one entry has changed.
Moves(f, g, x) == SumFunction(g) = (SumFunction(f) - f[x]) + g[x]

LEMMA SumMoves ==
    ASSUME NEW S, IsFiniteSet(S), NEW f, NEW g, DOMAIN f = S, DOMAIN g = S,
           \A y \in S : f[y] \in Nat /\ g[y] \in Nat, NEW x \in S, \A y \in S \ {x} : f[y] = g[y]
    PROVE  Moves(f, g, x) /\ SumFunction(f) \in Nat /\ SumFunction(g) \in Nat /\ f[x] <= SumFunction(f)
<1>1. SumFunction(f) = SumFunctionOnSet(f, S) /\ SumFunction(g) = SumFunctionOnSet(g, S)
  BY SumIs
<1>2. SumFunctionOnSet(f, S) \in Nat /\ SumFunctionOnSet(g, S) \in Nat /\ f[x] <= SumFunctionOnSet(f, S)
  BY SumNat, SumCovers
<1>3. SumShifts(f, g, S, x)
  <2>1. \A y \in S : f[y] \in Int /\ g[y] \in Int
    OBVIOUS
  <2> QED BY <2>1, SumChanges
<1>4. Moves(f, g, x)
  BY Zenon, <1>1, <1>3 DEF SumShifts, Moves
<1> QED BY <1>1, <1>2, <1>4

-----------------------------------------------------------------------------
(* What is locked                                                          *)

\* What is locked, by side.
LEMMA LockedFacts ==
    ASSUME Shaped
    PROVE  /\ SumFunction(collatorLock) \in Nat /\ SumFunction(delegatorLock) \in Nat
           /\ DOMAIN collatorLock = CandidateAccounts /\ DOMAIN delegatorLock = DelegatorAccounts
           /\ AllLocked = SumFunction(collatorLock) + SumFunction(delegatorLock)
<1>1. /\ DOMAIN collatorLock = CandidateAccounts /\ \A c \in CandidateAccounts : collatorLock[c] \in Nat
      /\ DOMAIN delegatorLock = DelegatorAccounts /\ \A d \in DelegatorAccounts : delegatorLock[d] \in Nat
  BY DEF Shaped
<1>2. IsFiniteSet(CandidateAccounts) /\ IsFiniteSet(DelegatorAccounts)
  BY AccountsAssumption
<1> QED BY <1>1, <1>2, SumIs, SumNat DEF AllLocked

\* One delegator's lock has changed.
LEMMA DelegatorLockMoves ==
    ASSUME Shaped, Shaped', NEW d \in DelegatorAccounts,
           \A k \in DelegatorAccounts \ {d} : delegatorLock'[k] = delegatorLock[k]
    PROVE  /\ Moves(delegatorLock, delegatorLock', d)
           /\ SumFunction(delegatorLock) \in Nat /\ SumFunction(delegatorLock') \in Nat
           /\ delegatorLock[d] \in Nat /\ delegatorLock'[d] \in Nat
           /\ delegatorLock[d] <= SumFunction(delegatorLock)
<1> DEFINE f == delegatorLock
           g == delegatorLock'
<1>1. /\ DOMAIN f = DelegatorAccounts /\ DOMAIN g = DelegatorAccounts
      /\ \A k \in DelegatorAccounts : f[k] \in Nat /\ g[k] \in Nat
      /\ \A k \in DelegatorAccounts \ {d} : f[k] = g[k]
      /\ IsFiniteSet(DelegatorAccounts)
  BY AccountsAssumption DEF Shaped
<1> HIDE DEF f, g
<1>2. Moves(f, g, d) /\ SumFunction(f) \in Nat /\ SumFunction(g) \in Nat /\ f[d] <= SumFunction(f)
  BY <1>1, SumMoves
<1> QED BY <1>1, <1>2 DEF f, g

LEMMA CollatorLockMoves ==
    ASSUME Shaped, Shaped', NEW c \in CandidateAccounts,
           \A k \in CandidateAccounts \ {c} : collatorLock'[k] = collatorLock[k]
    PROVE  /\ Moves(collatorLock, collatorLock', c)
           /\ SumFunction(collatorLock) \in Nat /\ SumFunction(collatorLock') \in Nat
           /\ collatorLock[c] \in Nat /\ collatorLock'[c] \in Nat
           /\ collatorLock[c] <= SumFunction(collatorLock)
<1> DEFINE f == collatorLock
           g == collatorLock'
<1>1. /\ DOMAIN f = CandidateAccounts /\ DOMAIN g = CandidateAccounts
      /\ \A k \in CandidateAccounts : f[k] \in Nat /\ g[k] \in Nat
      /\ \A k \in CandidateAccounts \ {c} : f[k] = g[k]
      /\ IsFiniteSet(CandidateAccounts)
  BY AccountsAssumption DEF Shaped
<1> HIDE DEF f, g
<1>2. Moves(f, g, c) /\ SumFunction(f) \in Nat /\ SumFunction(g) \in Nat /\ f[c] <= SumFunction(f)
  BY <1>1, SumMoves
<1> QED BY <1>1, <1>2 DEF f, g

-----------------------------------------------------------------------------
(* What a step does to a candidate's book                                  *)

LEMMA BookKept ==
    ASSUME Staked, NEW c \in CandidateAccounts, c \in Candidates' <=> c \in Candidates,
           c \in Candidates => candidateInfo'[c] = candidateInfo[c], HeldBy(c)' = HeldBy(c)
    PROVE  BookSound(c)'
<1>1. BookSound(c)
  BY DEF Staked
<1>2. IF c \in Candidates' THEN InfoFits(candidateInfo'[c], HeldBy(c)') ELSE HeldBy(c)' = {}
  BY <1>1 DEF BookSound
<1> HIDE DEF HeldBy
<1> QED BY <1>2 DEF BookSound, InfoFits, BookHolds, BookIs, TopIs, BottomIs

\* A delegation shrinks or ends in one of the ways DelegationsEndRightly allows.
EndsRightly ==
    \A c \in CandidateAccounts, d \in DelegatorAccounts :
          DelegationOf(d, c)' < DelegationOf(d, c) =>
              \/ HasRequest(d, c) /\ requests[<<c, d>>].when <= round
              \/ c \notin Candidates' /\ candidateInfo[c].leaveAt <= round
              \/ ~Delegates(d, c)' /\ KickedByLarger(d, c)

\* What is the same has not shrunk.
LEMMA SameStays ==
    ASSUME Staked, NEW c \in CandidateAccounts, NEW d \in DelegatorAccounts, SameStake(d, c)
    PROVE  ~(DelegationOf(d, c)' < DelegationOf(d, c))
<1>1. DelegationOf(d, c)' = DelegationOf(d, c)
  BY DEF SameStake, DelegationOf
<1>2. DelegationOf(d, c) \in Nat
  BY Listed DEF DelegationOf
<1> QED BY <1>1, <1>2

\* The delegators and their delegations are left alone, but for money they get.
LEMMA DelegatorsAside ==
    ASSUME Staked, UNCHANGED <<delegatorState, requests, delegatorLock>>,
           \A d \in DelegatorAccounts : balance'[d] \in Nat /\ balance[d] <= balance'[d]
    PROVE  /\ \A d \in DelegatorAccounts : DelegatorSound(d)'
           /\ \A c \in CandidateAccounts : HeldBy(c)' = HeldBy(c)
           /\ \A p : Delegates(p[2], p[1])' <=> Delegates(p[2], p[1])
           /\ Delegators' = Delegators /\ RequestsShaped'
           /\ EndsRightly
<1>1. Delegators' = Delegators /\ RequestsShaped'
  BY DEF Delegators, RequestsShaped, Staked, Shaped
<1>2. \A d \in DelegatorAccounts : Untouched(d)
  BY <1>1 DEF Untouched, SameAskedBut
<1>3. \A d \in DelegatorAccounts : DelegatorSound(d)' /\ \A c \in CandidateAccounts : SameStake(d, c)
  BY <1>1, <1>2, UntouchedSound
<1>4. \A c \in CandidateAccounts : HeldBy(c)' = HeldBy(c)
  BY <1>3, HeldSame
<1>5. EndsRightly
  BY <1>3, SameStays DEF EndsRightly
<1>6. \A p : Delegates(p[2], p[1])' <=> Delegates(p[2], p[1])
  BY DEF Delegates, Delegators
<1> QED BY <1>1, <1>3, <1>4, <1>5, <1>6

-----------------------------------------------------------------------------
(* Steps that touch the information and the lock of one candidate          *)

LEMMA CandidateStep ==
    ASSUME Staked, NEW c \in CandidateAccounts,
           UNCHANGED <<round, delegationVars, delegatorLock, balance>>,
           \A k \in CandidateAccounts \ {c} :
              /\ k \in Candidates' <=> k \in Candidates
              /\ k \in Candidates => candidateInfo'[k] = candidateInfo[k]
              /\ collatorLock'[k] = collatorLock[k],
           c \in Candidates', InfoFits(candidateInfo'[c], HeldBy(c)),
           collatorLock' \in [CandidateAccounts -> Nat], collatorLock'[c] <= balance[c],
           totalStaked' \in Nat,
           totalStaked' = 0 \/ totalStaked' + collatorLock[c] <= totalStaked + collatorLock'[c]
    PROVE  Staked' /\ EndsRightly
<1>1. UNCHANGED <<delegatorState, requests, autoCompound, delegatorLock, balance>>
  BY DEF delegationVars
<1>2. \A a \in Accounts : balance[a] \in Nat
  BY DEF Staked, Shaped
<1>3. \A d \in DelegatorAccounts : balance'[d] \in Nat /\ balance[d] <= balance'[d]
  BY <1>1, <1>2 DEF Accounts
<1>4. /\ \A d \in DelegatorAccounts : DelegatorSound(d)'
      /\ \A k \in CandidateAccounts : HeldBy(k)' = HeldBy(k)
      /\ \A p : Delegates(p[2], p[1])' <=> Delegates(p[2], p[1])
      /\ Delegators' = Delegators /\ RequestsShaped'
      /\ EndsRightly
  BY <1>1, <1>3, DelegatorsAside
<1>5. Shaped'
  <2>1. /\ round' \in 1 .. MaxRound /\ Delegators' \subseteq DelegatorAccounts
        /\ delegatorLock' \in [DelegatorAccounts -> Nat] /\ balance' \in [Accounts -> Nat]
    BY <1>1, <1>4 DEF Staked, Shaped
  <2>2. \A p \in DOMAIN autoCompound' :
          p \in Pairs /\ autoCompound'[p] \in 1 .. 100 /\ Delegates(p[2], p[1])'
    BY <1>1, <1>4 DEF Staked, Shaped
  <2> QED BY <1>4, <2>1, <2>2 DEF Shaped
<1>6. ASSUME NEW k \in CandidateAccounts PROVE BookSound(k)' /\ collatorLock'[k] <= balance'[k]
  <2>1. CASE k = c
    <3>1. InfoFits(candidateInfo'[c], HeldBy(c)')
      BY <1>4
    <3>2. BookSound(c)'
      <4> HIDE DEF HeldBy
      <4> QED BY <3>1 DEF BookSound, InfoFits, BookHolds, BookIs, TopIs, BottomIs
    <3> QED BY <2>1, <3>2, <1>1
  <2>2. CASE k # c
    <3>1. BookSound(k)'
      BY <1>4, <2>2, BookKept
    <3>2. collatorLock[k] <= balance[k]
      BY DEF Staked
    <3> QED BY <1>1, <2>2, <3>1, <3>2
  <2> QED BY <2>1, <2>2
<1>7. totalStaked' <= AllLocked'
  <2> DEFINE a == SumFunction(collatorLock)
             b == SumFunction(collatorLock')
             d == SumFunction(delegatorLock)
             x == collatorLock[c]
             y == collatorLock'[c]
             t == totalStaked
             u == totalStaked'
  <2>1. /\ b = (a - x) + y /\ a \in Nat /\ b \in Nat /\ x \in Nat /\ y \in Nat
    <3>1. Shaped
      BY DEF Staked
    <3>2. /\ Moves(collatorLock, collatorLock', c)
          /\ a \in Nat /\ b \in Nat /\ x \in Nat /\ y \in Nat
      BY <1>5, <3>1, CollatorLockMoves
    <3>3. b = (a - x) + y
      BY Zenon, <3>2 DEF Moves
    <3> QED BY <3>2, <3>3
  <2>2. AllLocked = a + d /\ d \in Nat
    BY LockedFacts DEF Staked
  <2>3. AllLocked' = b + d
    BY <1>1 DEF AllLocked
  <2>4. t \in Nat /\ t <= AllLocked
    BY DEF Staked, Shaped
  <2>5. u \in Nat /\ (u = 0 \/ u + x <= t + y)
    OBVIOUS
  <2> HIDE DEF a, b, d, x, y, t, u
  <2>6. t <= a + d
    BY <2>2, <2>4
  <2>7. u <= b + d
    BY <2>1, <2>2, <2>4, <2>5, <2>6
  <2> QED BY <2>3, <2>7 DEF u
<1> QED BY <1>4, <1>5, <1>6, <1>7 DEF Staked

\* What the step owes.
Kept == Staked' /\ EndsRightly

\* A candidate's information without its book does not matter to the delegations.
LEMMA InfoSame ==
    ASSUME Staked, IInv, NEW c \in Candidates, NEW info, DOMAIN info = Fields,
           info.book = candidateInfo[c].book,
           info.status \in {"active", "idle", "leaving"}, info.leaveAt \in Nat,
           \A r \in info.request : r.amount \in Nat /\ r.when \in Nat,
           candidateInfo' = [candidateInfo EXCEPT ![c] = info],
           UNCHANGED <<round, delegationVars, totalStaked, lockVars>>
    PROVE  Kept
<1>1. c \in CandidateAccounts
  BY DEF IInv
<1>2. InfoFits(candidateInfo[c], HeldBy(c))
  BY <1>1 DEF Staked, BookSound
<1>3. candidateInfo'[c] = info /\ DOMAIN candidateInfo' = Candidates
  BY DEF Candidates
<1>4. InfoFits(info, HeldBy(c))
  BY <1>2 DEF InfoFits
<1>5. \A k \in CandidateAccounts \ {c} :
         /\ k \in Candidates' <=> k \in Candidates
         /\ k \in Candidates => candidateInfo'[k] = candidateInfo[k]
         /\ collatorLock'[k] = collatorLock[k]
  BY DEF Candidates, lockVars
<1>6. /\ collatorLock' \in [CandidateAccounts -> Nat] /\ collatorLock'[c] <= balance[c]
      /\ totalStaked' \in Nat /\ totalStaked' + collatorLock[c] <= totalStaked + collatorLock'[c]
  <2>1. /\ collatorLock \in [CandidateAccounts -> Nat] /\ collatorLock[c] <= balance[c]
        /\ totalStaked \in Nat
    BY <1>1 DEF Staked, Shaped
  <2>2. collatorLock' = collatorLock /\ totalStaked' = totalStaked
    BY DEF lockVars
  <2>3. collatorLock[c] \in Nat
    BY <1>1, <2>1
  <2> QED BY <2>1, <2>2, <2>3
<1>7. UNCHANGED <<round, delegationVars, delegatorLock, balance>>
  BY DEF lockVars
<1> QED BY <1>1, <1>3, <1>4, <1>5, <1>6, <1>7, CandidateStep DEF Candidates, Kept

LEMMA JoinKeeps ==
    ASSUME Staked, IInv, NEW c \in CandidateAccounts, NEW bond \in Bonds, JoinCandidatesInner(c, bond)
    PROVE  Kept
<1> DEFINE info == [book |-> NewBook(bond), status |-> "active", leaveAt |-> 0, request |-> {}]
<1>1. /\ c \notin Candidates /\ bond \in Nat /\ CollatorStakable(c) >= bond
      /\ candidateInfo' = With(candidateInfo, c, info)
      /\ collatorLock' = [collatorLock EXCEPT ![c] = bond]
      /\ totalStaked' = totalStaked + bond
      /\ UNCHANGED <<round, delegationVars, delegatorLock, balance>>
  BY InputsAssumption DEF JoinCandidatesInner, MayJoin
<1>2. HeldBy(c) = {}
  BY <1>1 DEF Staked, BookSound
<1>3. BookHolds(NewBook(bond), {})
  <2>1. BookIs(NewBook(bond), DelegatorAccounts, {}, {}, 0)
    BY <1>1, NewBookIs
  <2> QED BY <2>1 DEF BookHolds
<1>4. InfoFits(info, HeldBy(c))
  BY <1>2, <1>3 DEF InfoFits, Fields
<1>5. candidateInfo'[c] = info /\ DOMAIN candidateInfo' = Candidates \cup {c}
  BY <1>1 DEF With, Candidates
<1>6. \A k \in CandidateAccounts \ {c} :
         /\ k \in Candidates' <=> k \in Candidates
         /\ k \in Candidates => candidateInfo'[k] = candidateInfo[k]
         /\ collatorLock'[k] = collatorLock[k]
  BY <1>1, <1>5 DEF Candidates, With, Staked, Shaped
<1>7. /\ collatorLock' \in [CandidateAccounts -> Nat] /\ collatorLock'[c] <= balance[c]
      /\ totalStaked' \in Nat /\ totalStaked' + collatorLock[c] <= totalStaked + collatorLock'[c]
  <2>1. collatorLock \in [CandidateAccounts -> Nat] /\ totalStaked \in Nat /\ balance[c] \in Nat
    BY DEF Staked, Shaped, Accounts
  <2>2. collatorLock[c] = 0
    BY <1>1 DEF IInv, SelfBondsLocked
  <2>3. collatorLock'[c] = bond /\ collatorLock' \in [CandidateAccounts -> Nat]
    BY <1>1, <2>1
  <2>4. bond <= balance[c]
    BY <1>1, <2>1 DEF CollatorStakable, Monus
  <2> QED BY <1>1, <2>1, <2>2, <2>3, <2>4
<1> HIDE DEF info
<1> QED BY <1>1, <1>4, <1>5, <1>6, <1>7, CandidateStep DEF Candidates, Kept

LEMMA RebondKeeps ==
    ASSUME Staked, IInv, NEW c \in Candidates, NEW delta \in Int, NEW request,
           \A r \in request : r.amount \in Nat /\ r.when \in Nat,
           candidateInfo[c].book.bond + delta \in Nat,
           candidateInfo[c].book.bond + delta <= balance[c],
           Rebond(c, delta, request)
    PROVE  Kept
<1> DEFINE b == candidateInfo[c].book
           book == [b EXCEPT !.bond = @ + delta, !.counted = @ + delta]
           info == [candidateInfo[c] EXCEPT !.book = book, !.request = request]
<1>1. c \in CandidateAccounts
  BY DEF IInv
<1>2. /\ candidateInfo' = [candidateInfo EXCEPT ![c].book = book, ![c].request = request]
      /\ collatorLock' = [collatorLock EXCEPT ![c] = book.bond]
      /\ totalStaked' = Monus(totalStaked, 0 - delta)
      /\ UNCHANGED <<round, delegationVars, delegatorLock, balance>>
  BY DEF Rebond
<1>3. PICK T, B, x : BookIs(b, DelegatorAccounts, T, B, x) /\ T \cup B = HeldBy(c)
  BY <1>1, BookOf
<1>4. BookIs(book, DelegatorAccounts, T, B, x) /\ book.bond = b.bond + delta
  <2> HIDE DEF b
  <2> QED BY <1>3, RebondIs DEF b
<1>5. DOMAIN candidateInfo[c] = Fields /\ InfoFits(candidateInfo[c], HeldBy(c))
  BY <1>1 DEF Staked, BookSound, InfoFits
<1> HIDE DEF book, b
<1>6. InfoFits(info, HeldBy(c))
  BY <1>3, <1>4, <1>5 DEF InfoFits, BookHolds, Fields
<1>7. candidateInfo'[c] = info /\ DOMAIN candidateInfo' = Candidates
  BY <1>2, <1>5 DEF Candidates, Fields
<1>8. \A k \in CandidateAccounts \ {c} :
         /\ k \in Candidates' <=> k \in Candidates
         /\ k \in Candidates => candidateInfo'[k] = candidateInfo[k]
         /\ collatorLock'[k] = collatorLock[k]
  BY <1>2, <1>7 DEF Candidates, Staked, Shaped
<1>9. /\ collatorLock' \in [CandidateAccounts -> Nat] /\ collatorLock'[c] <= balance[c]
      /\ totalStaked' \in Nat
      /\ totalStaked' = 0 \/ totalStaked' + collatorLock[c] <= totalStaked + collatorLock'[c]
  <2>1. collatorLock \in [CandidateAccounts -> Nat] /\ totalStaked \in Nat /\ balance[c] \in Nat
    BY <1>1 DEF Staked, Shaped, Accounts
  <2>2. collatorLock[c] = b.bond /\ b.bond \in Nat
    BY <1>1 DEF IInv, SelfBondsLocked, InfoSound, b
  <2>3. book.bond \in Nat /\ book.bond <= balance[c]
    BY <1>4 DEF b
  <2>4. collatorLock'[c] = book.bond /\ collatorLock' \in [CandidateAccounts -> Nat]
    BY <1>1, <1>2, <2>1, <2>3
  <2>5. /\ totalStaked' \in Nat
        /\ totalStaked' = 0 \/ totalStaked' = totalStaked + delta
    BY <1>2, <2>1 DEF Monus
  <2>6. totalStaked' = 0 \/ totalStaked' + b.bond <= totalStaked + (b.bond + delta)
    BY <2>1, <2>2, <2>5
  <2> QED BY <1>4, <2>2, <2>3, <2>4, <2>5, <2>6
<1> HIDE DEF info
<1> QED BY <1>1, <1>2, <1>6, <1>7, <1>8, <1>9, CandidateStep DEF Candidates, Kept

LEMMA QuietCandidateKeeps ==
    ASSUME Staked, IInv, NEW c \in CandidateAccounts, CandidateCall(c), ~ExecuteLeaveCandidates(c)
    PROVE  Kept
<1>0. /\ round \in Nat /\ totalStaked \in Nat /\ balance[c] \in Nat
      /\ c \in Candidates => /\ InfoFits(candidateInfo[c], HeldBy(c)) /\ InfoSound(candidateInfo[c])
                             /\ DOMAIN candidateInfo[c] = Fields
                             /\ candidateInfo[c].book.bond \in Nat
  BY DEF Staked, Shaped, Accounts, BookSound, IInv, InfoSound
<1>1. ASSUME NEW bond \in Bonds, JoinCandidates(c, bond) \/ ForceJoinCandidates(c, bond) PROVE Kept
  BY <1>1, JoinKeeps DEF JoinCandidates, ForceJoinCandidates
<1>2. ASSUME NEW more \in Bonds, CandidateBondMore(c, more) PROVE Kept
  <2>1. c \in Candidates /\ more \in Nat /\ Rebond(c, more, candidateInfo[c].request)
        /\ CollatorStakable(c) >= more
    BY <1>2, InputsAssumption DEF CandidateBondMore
  <2> DEFINE bond == candidateInfo[c].book.bond
  <2>2. bond + more \in Nat
    BY <1>0, <2>1
  <2>3. bond + more <= balance[c]
    <3>1. Monus(balance[c], bond) >= more
      BY <2>1 DEF CollatorStakable
    <3>2. collatorLock[c] = bond /\ collatorLock[c] <= balance[c] /\ bond \in Nat
      BY <1>0, <2>1 DEF IInv, SelfBondsLocked, Staked
    <3> HIDE DEF bond
    <3> QED BY <1>0, <2>1, <3>1, <3>2 DEF Monus
  <2>4. \A r \in candidateInfo[c].request : r.amount \in Nat /\ r.when \in Nat
    BY <1>0, <2>1 DEF InfoFits
  <2> QED BY <2>1, <2>2, <2>3, <2>4, RebondKeeps
<1>3. ASSUME ExecuteCandidateBondLess(c) PROVE Kept
  <2>1. PICK request \in candidateInfo[c].request : Rebond(c, 0 - request.amount, {})
    BY <1>3 DEF ExecuteCandidateBondLess
  <2>2. c \in Candidates
    BY <1>3 DEF ExecuteCandidateBondLess
  <2> DEFINE bond == candidateInfo[c].book.bond
             delta == 0 - request.amount
  <2>3. /\ request.amount \in Nat /\ bond - request.amount >= MinCandidateStk
        /\ bond \in Nat /\ collatorLock[c] = bond /\ collatorLock[c] <= balance[c]
    BY <1>0, <2>2 DEF InfoSound, BondLessFits, IInv, SelfBondsLocked, Staked
  <2>4. delta \in Int /\ bond + delta \in Nat /\ bond + delta <= balance[c]
    <3> HIDE DEF bond
    <3> QED BY <1>0, <2>3, MinimaAssumption
  <2>5. Rebond(c, delta, {})
    BY <2>1
  <2> HIDE DEF delta
  <2> QED BY <2>2, <2>4, <2>5, RebondKeeps
<1>4. ASSUME NEW less \in Bonds, ScheduleCandidateBondLess(c, less) PROVE Kept
  <2> DEFINE request == {[amount |-> less, when |-> round + CandidateBondLessDelay]}
             info == [candidateInfo[c] EXCEPT !.request = request]
  <2>1. /\ c \in Candidates /\ less \in Nat
        /\ candidateInfo' = [candidateInfo EXCEPT ![c] = info]
        /\ UNCHANGED <<round, delegationVars, totalStaked, lockVars>>
    BY <1>4, InputsAssumption DEF ScheduleCandidateBondLess
  <2>2. \A r \in request : r.amount \in Nat /\ r.when \in Nat
    BY <1>0, <2>1, DelaysAssumption
  <2> HIDE DEF request
  <2>3. /\ DOMAIN info = Fields /\ info.book = candidateInfo[c].book /\ info.request = request
        /\ info.status = candidateInfo[c].status /\ info.leaveAt = candidateInfo[c].leaveAt
    BY <1>0, <2>1 DEF Fields
  <2> HIDE DEF info
  <2> QED BY <1>0, <2>1, <2>2, <2>3, InfoSame DEF InfoFits
<1>5. ASSUME CancelCandidateBondLess(c) PROVE Kept
  <2> DEFINE info == [candidateInfo[c] EXCEPT !.request = {}]
  <2>1. /\ c \in Candidates
        /\ candidateInfo' = [candidateInfo EXCEPT ![c] = info]
        /\ UNCHANGED <<round, delegationVars, totalStaked, lockVars>>
    BY <1>5 DEF CancelCandidateBondLess
  <2>3. /\ DOMAIN info = Fields /\ info.book = candidateInfo[c].book /\ info.request = {}
        /\ info.status = candidateInfo[c].status /\ info.leaveAt = candidateInfo[c].leaveAt
    BY <1>0, <2>1 DEF Fields
  <2> HIDE DEF info
  <2> QED BY <1>0, <2>1, <2>3, InfoSame DEF InfoFits
<1>6. ASSUME NEW status \in {"active", "idle", "leaving"}, NEW at \in Nat, c \in Candidates,
             candidateInfo' = [candidateInfo EXCEPT ![c].status = status, ![c].leaveAt = at],
             UNCHANGED <<round, delegationVars, totalStaked, lockVars>>
      PROVE  Kept
  <2> DEFINE info == [candidateInfo[c] EXCEPT !.status = status, !.leaveAt = at]
  <2>1. candidateInfo' = [candidateInfo EXCEPT ![c] = info]
    BY <1>6
  <2>2. /\ DOMAIN info = Fields /\ info.status = status /\ info.leaveAt = at
        /\ info.book = candidateInfo[c].book
        /\ info.request = candidateInfo[c].request
    BY <1>0, <1>6 DEF Fields
  <2> HIDE DEF info
  <2> QED BY <1>0, <1>6, <2>1, <2>2, InfoSame DEF InfoFits
<1>7. ASSUME ScheduleLeaveCandidates(c) PROVE Kept
  <2> DEFINE at == round + LeaveCandidatesDelay
             status == "leaving"
  <2>1. /\ c \in Candidates
        /\ candidateInfo' = [candidateInfo EXCEPT ![c].status = status, ![c].leaveAt = at]
        /\ UNCHANGED <<round, delegationVars, totalStaked, lockVars>>
    BY <1>7 DEF ScheduleLeaveCandidates
  <2>2. at \in Nat /\ status \in {"active", "idle", "leaving"}
    BY <1>0, DelaysAssumption
  <2> HIDE DEF at, status
  <2> QED BY <1>6, <2>1, <2>2
<1>8. ASSUME GoOffline(c) PROVE Kept
  <2> DEFINE info == [candidateInfo[c] EXCEPT !.status = "idle"]
  <2>1. /\ c \in Candidates
        /\ candidateInfo' = [candidateInfo EXCEPT ![c] = info]
        /\ UNCHANGED <<round, delegationVars, totalStaked, lockVars>>
    BY <1>8 DEF GoOffline
  <2>2. /\ DOMAIN info = Fields /\ info.status = "idle" /\ info.leaveAt = candidateInfo[c].leaveAt
        /\ info.book = candidateInfo[c].book
        /\ info.request = candidateInfo[c].request
    BY <1>0, <2>1 DEF Fields
  <2> HIDE DEF info
  <2> QED BY <1>0, <2>1, <2>2, InfoSame DEF InfoFits
<1>9. ASSUME CancelLeaveCandidates(c) \/ GoOnline(c) PROVE Kept
  <2> DEFINE at == 0
             status == "active"
  <2>1. /\ c \in Candidates
        /\ candidateInfo' = [candidateInfo EXCEPT ![c].status = status, ![c].leaveAt = at]
        /\ UNCHANGED <<round, delegationVars, totalStaked, lockVars>>
    BY <1>9 DEF CancelLeaveCandidates, GoOnline, GoOnlineInner
  <2>2. at \in Nat /\ status \in {"active", "idle", "leaving"}
    OBVIOUS
  <2> HIDE DEF at, status
  <2> QED BY <1>6, <2>1, <2>2
<1> QED BY <1>1, <1>2, <1>3, <1>4, <1>5, <1>7, <1>8, <1>9 DEF CandidateCall

-----------------------------------------------------------------------------
(* Steps of one delegator that takes nothing from another                  *)

LEMMA DelegatorStep ==
    ASSUME Staked, NEW d \in DelegatorAccounts, NEW c \in CandidateAccounts, Shaped',
           \A k \in DelegatorAccounts \ {d} : Untouched(k), Holding(d, c),
           UNCHANGED collatorLock, \A k \in CandidateAccounts : balance[k] <= balance'[k],
           \A k \in CandidateAccounts \ {c} :
              /\ k \in Candidates' <=> k \in Candidates
              /\ k \in Candidates => candidateInfo'[k] = candidateInfo[k],
           BookSound(c)',
           totalStaked' = 0 \/ totalStaked' + delegatorLock[d] <= totalStaked + delegatorLock'[d],
           DelegationOf(d, c)' < DelegationOf(d, c) => HasRequest(d, c) /\ requests[<<c, d>>].when <= round
    PROVE  Kept
<1>1. RequestsShaped' /\ Shaped
  BY DEF Shaped, Staked
<1>2. \A k \in DelegatorAccounts \ {d} :
         DelegatorSound(k)' /\ \A e \in CandidateAccounts : SameStake(k, e)
  BY <1>1, UntouchedSound
<1>3. DelegatorSound(d)' /\ \A e \in CandidateAccounts \ {c} : SameStake(d, e)
  BY HoldingSound DEF Holding
<1>4. \A k \in DelegatorAccounts : DelegatorSound(k)'
  BY <1>2, <1>3
<1>5. \A k \in CandidateAccounts \ {c} : HeldBy(k)' = HeldBy(k)
  BY <1>2, <1>3, HeldSame
<1>6. \A k \in CandidateAccounts : BookSound(k)'
  <2>1. \A k \in CandidateAccounts \ {c} : BookSound(k)'
    BY <1>5, BookKept
  <2> QED BY <2>1
<1>7. \A k \in CandidateAccounts : collatorLock'[k] <= balance'[k]
  <2> SUFFICES ASSUME NEW k \in CandidateAccounts PROVE collatorLock'[k] <= balance'[k]
    OBVIOUS
  <2>1. /\ collatorLock[k] <= balance[k] /\ collatorLock[k] \in Nat /\ balance[k] \in Nat
        /\ balance'[k] \in Nat /\ balance[k] <= balance'[k] /\ collatorLock'[k] = collatorLock[k]
    BY DEF Staked, Shaped, Accounts
  <2> QED BY <2>1
<1>8. totalStaked' <= AllLocked'
  <2> DEFINE a == SumFunction(delegatorLock)
             b == SumFunction(delegatorLock')
             s == SumFunction(collatorLock)
             x == delegatorLock[d]
             y == delegatorLock'[d]
             t == totalStaked
             u == totalStaked'
  <2>1. /\ b = (a - x) + y /\ a \in Nat /\ b \in Nat /\ x \in Nat /\ y \in Nat
    <3>1. \A k \in DelegatorAccounts \ {d} : delegatorLock'[k] = delegatorLock[k]
      BY DEF Untouched
    <3>2. /\ Moves(delegatorLock, delegatorLock', d)
          /\ a \in Nat /\ b \in Nat /\ x \in Nat /\ y \in Nat
      BY <1>1, <3>1, DelegatorLockMoves
    <3>3. b = (a - x) + y
      BY Zenon, <3>2 DEF Moves
    <3> QED BY <3>2, <3>3
  <2>2. AllLocked = s + a /\ s \in Nat
    BY <1>1, LockedFacts
  <2>3. AllLocked' = s + b
    BY DEF AllLocked
  <2>4. t \in Nat /\ t <= AllLocked
    BY DEF Staked, Shaped
  <2>5. u \in Nat /\ (u = 0 \/ u + x <= t + y)
    BY DEF Shaped
  <2> HIDE DEF a, b, s, x, y, t, u
  <2>6. t <= s + a
    BY <2>2, <2>4
  <2>7. u <= s + b
    BY <2>1, <2>2, <2>4, <2>5, <2>6
  <2> QED BY <2>3, <2>7 DEF u
<1>9. EndsRightly
  <2> SUFFICES ASSUME NEW e \in CandidateAccounts, NEW k \in DelegatorAccounts,
                      DelegationOf(k, e)' < DelegationOf(k, e)
               PROVE  HasRequest(k, e) /\ requests[<<e, k>>].when <= round
    BY DEF EndsRightly
  <2>1. ~SameStake(k, e)
    BY SameStays
  <2>2. k = d /\ e = c
    BY <1>2, <1>3, <2>1
  <2> QED BY <2>2
<1>10. Staked'
  BY <1>4, <1>6, <1>7, <1>8 DEF Staked
<1> QED BY <1>9, <1>10 DEF Kept

\* Nothing changes but the auto-compounding, a balance or the round.
LEMMA QuietStep ==
    ASSUME Staked, Shaped', UNCHANGED <<candidateInfo, delegatorState, requests, totalStaked>>,
           UNCHANGED <<collatorLock, delegatorLock>>,
           \A a \in Accounts : balance'[a] \in Nat /\ balance[a] <= balance'[a]
    PROVE  Kept
<1>1. /\ \A d \in DelegatorAccounts : DelegatorSound(d)'
      /\ \A c \in CandidateAccounts : HeldBy(c)' = HeldBy(c)
      /\ EndsRightly
  BY DelegatorsAside DEF Accounts
<1>2. \A c \in CandidateAccounts : BookSound(c)'
  BY <1>1, BookKept DEF Candidates
<1>3. \A k \in CandidateAccounts : collatorLock'[k] <= balance'[k]
  <2> SUFFICES ASSUME NEW k \in CandidateAccounts PROVE collatorLock'[k] <= balance'[k]
    OBVIOUS
  <2>1. /\ collatorLock[k] <= balance[k] /\ collatorLock[k] \in Nat /\ balance[k] \in Nat
        /\ balance'[k] \in Nat /\ balance[k] <= balance'[k] /\ collatorLock'[k] = collatorLock[k]
    BY DEF Staked, Shaped, Accounts
  <2> QED BY <2>1
<1>4. totalStaked' <= AllLocked'
  BY DEF Staked, AllLocked
<1> QED BY <1>1, <1>2, <1>3, <1>4 DEF Staked, Kept

LEMMA BalanceSame == ASSUME Staked, UNCHANGED balance
                     PROVE  \A a \in Accounts : balance'[a] \in Nat /\ balance[a] <= balance'[a]
BY DEF Staked, Shaped

LEMMA RoundKeeps ==
    ASSUME Staked, NextRound \/ UNCHANGED vars
    PROVE  Kept
<1>1. UNCHANGED <<candidateInfo, delegatorState, requests, autoCompound, totalStaked>>
  BY DEF NextRound, vars, delegationVars
<1>2. UNCHANGED <<collatorLock, delegatorLock, balance>>
  BY DEF NextRound, vars, lockVars
<1>3. round' \in 1 .. MaxRound
  <2>1. round \in 1 .. MaxRound /\ MaxRound \in Nat
    BY InputsAssumption DEF Staked, Shaped
  <2>2. round' = round \/ (round < MaxRound /\ round' = round + 1)
    BY DEF NextRound, vars
  <2> QED BY <2>1, <2>2
<1>4. Shaped'
  BY <1>1, <1>2, <1>3 DEF Staked, Shaped, RequestsShaped, Delegators, Delegates
<1> QED BY <1>1, <1>2, <1>4, QuietStep, BalanceSame

LEMMA SetAutoCompoundKeeps ==
    ASSUME Staked, NEW d \in DelegatorAccounts, NEW c \in CandidateAccounts,
           NEW percent \in {0} \cup Percents, SetAutoCompound(d, c, percent)
    PROVE  Kept
<1>1. UNCHANGED <<round, candidateInfo, delegatorState, requests, totalStaked>>
  BY DEF SetAutoCompound
<1>2. UNCHANGED <<collatorLock, delegatorLock, balance>>
  BY DEF SetAutoCompound, lockVars
<1>3. percent \in 0 .. 100 /\ Delegates(d, c)
  BY InputsAssumption DEF SetAutoCompound
<1>4. ASSUME NEW p \in DOMAIN autoCompound'
      PROVE  \/ p = <<c, d>> /\ percent # 0 /\ autoCompound'[p] = percent
             \/ p \in DOMAIN autoCompound /\ autoCompound'[p] = autoCompound[p]
  <2>1. CASE percent = 0
    <3>1. autoCompound' = Minus(autoCompound, {<<c, d>>})
      BY <2>1 DEF SetAutoCompound
    <3> QED BY <1>4, <3>1 DEF Minus, Restrict
  <2>2. CASE percent # 0
    <3>1. autoCompound' = With(autoCompound, <<c, d>>, percent)
      BY <2>2 DEF SetAutoCompound
    <3> QED BY <1>4, <2>2, <3>1 DEF With
  <2> QED BY <2>1, <2>2
<1>5. \A p \in DOMAIN autoCompound' :
         p \in Pairs /\ autoCompound'[p] \in 1 .. 100 /\ Delegates(p[2], p[1])
  <2>1. <<c, d>> \in Pairs
    BY DEF Pairs
  <2> QED BY <1>3, <1>4, <2>1 DEF Staked, Shaped
<1>6. Shaped'
  BY <1>1, <1>2, <1>5 DEF Staked, Shaped, RequestsShaped, Delegators, Delegates
<1> QED BY <1>1, <1>2, <1>6, QuietStep, BalanceSame

-----------------------------------------------------------------------------
(* Requests                                                                *)

\* Only the sum of what d has asked for, and its request to c, changes.
LEMMA AskingKeeps ==
    ASSUME Staked, NEW d \in DelegatorAccounts, NEW c \in CandidateAccounts, Delegates(d, c),
           NEW z, z = AskedBy(d, requests'),
           delegatorState' = [delegatorState EXCEPT ![d].lessTotal = z],
           RequestsShaped', \A k \in DelegatorAccounts \ {d} : SameAskedBut(k, requests, requests', {}),
           SameAskedBut(d, requests, requests', {c}),
           <<c, d>> \in DOMAIN requests' =>
               RequestFits(requests'[<<c, d>>], delegatorState[d].delegations[c]),
           UNCHANGED <<round, candidateInfo, candidatePool, autoCompound, totalStaked, lockVars>>
    PROVE  Kept
<1> DEFINE state == delegatorState[d]
           r == [state EXCEPT !.lessTotal = z]
<1>1. d \in Delegators /\ RecordFits(state) /\ DelegatorSound(d) /\ DOMAIN state = RecordFields
  BY DEF Staked, DelegatorSound, Delegates, RecordFits
<1>2. /\ Delegators' = Delegators /\ delegatorState'[d] = r
      /\ \A k \in Delegators \ {d} : delegatorState'[k] = delegatorState[k]
  BY <1>1 DEF Delegators
<1>3. /\ DOMAIN r = RecordFields /\ r.delegations = state.delegations
      /\ r.total = state.total /\ r.lessTotal = z
  BY <1>1 DEF RecordFields
<1> HIDE DEF r
<1>4. RecordFits(r)
  BY <1>1, <1>3 DEF RecordFits
<1>5. UNCHANGED <<round, candidateInfo, autoCompound, totalStaked, collatorLock, delegatorLock, balance>>
  BY DEF lockVars
<1>6. \A e, k : Delegates(k, e)' <=> Delegates(k, e)
  <2> SUFFICES ASSUME NEW e, NEW k PROVE Delegates(k, e)' <=> Delegates(k, e)
    OBVIOUS
  <2>1. CASE k = d
    BY <1>1, <1>2, <1>3, <2>1 DEF Delegates
  <2>2. CASE k # d
    BY <1>2, <2>2 DEF Delegates
  <2> QED BY <2>1, <2>2
<1>7. \A e, k : SameStake(k, e)
  <2> SUFFICES ASSUME NEW e, NEW k PROVE SameStake(k, e)
    OBVIOUS
  <2>1. CASE k = d
    BY <1>2, <1>3, <1>6, <2>1 DEF SameStake
  <2>2. CASE k # d
    BY <1>2, <1>6, <2>2 DEF SameStake, Delegates
  <2> QED BY <2>1, <2>2
<1>8. Shaped'
  <2>1. \A p \in DOMAIN autoCompound' :
          p \in Pairs /\ autoCompound'[p] \in 1 .. 100 /\ Delegates(p[2], p[1])'
    BY <1>5, <1>6 DEF Staked, Shaped
  <2> QED BY <1>2, <1>5, <2>1 DEF Staked, Shaped
<1>9. \A a \in Accounts : balance'[a] \in Nat /\ balance[a] <= balance'[a]
  BY <1>5, BalanceSame
<1>10. \A k \in DelegatorAccounts \ {d} : Untouched(k)
  BY <1>2, <1>5, <1>9 DEF Untouched, Accounts
<1>11. delegatorLock[d] = state.total /\ delegatorLock[d] <= balance[d] /\ delegatorLock[d] \in Nat
  BY <1>1 DEF DelegatorSound, Staked, Shaped
<1>12. Holding(d, c)
  BY <1>2, <1>3, <1>4, <1>5, <1>6, <1>7, <1>11 DEF Holding
<1>13. BookSound(c)'
  <2>1. HeldBy(c)' = HeldBy(c)
    BY <1>7, HeldSame
  <2> QED BY <1>5, <2>1, BookKept DEF Candidates
<1>14. \A k \in CandidateAccounts \ {c} :
          /\ k \in Candidates' <=> k \in Candidates
          /\ k \in Candidates => candidateInfo'[k] = candidateInfo[k]
  BY <1>5 DEF Candidates
<1>15. totalStaked' + delegatorLock[d] <= totalStaked + delegatorLock'[d]
  <2>1. totalStaked \in Nat
    BY DEF Staked, Shaped
  <2> QED BY <1>5, <1>11, <2>1
<1>16. ~(DelegationOf(d, c)' < DelegationOf(d, c))
  BY <1>7, SameStays
<1>17. \A k \in CandidateAccounts : balance[k] <= balance'[k]
  BY <1>9 DEF Accounts
<1> QED BY <1>5, <1>8, <1>10, <1>12, <1>13, <1>14, <1>15, <1>16, <1>17, DelegatorStep

LEMMA ScheduleKeeps ==
    ASSUME Staked, NEW d \in DelegatorAccounts, NEW c \in CandidateAccounts, Delegates(d, c),
           ~HasRequest(d, c), NEW action \in {"revoke", "decrease"}, NEW amount \in Nat, NEW delay \in Nat,
           IF action = "revoke" THEN amount = delegatorState[d].delegations[c]
           ELSE amount + MinDelegation <= delegatorState[d].delegations[c],
           Schedule(d, c, action, amount, delay)
    PROVE  Kept
<1> DEFINE new == [action |-> action, amount |-> amount, when |-> round + delay]
           p == <<c, d>>
           z == delegatorState[d].lessTotal + amount
<1>1. /\ requests' = With(requests, p, new)
      /\ delegatorState' = [delegatorState EXCEPT ![d].lessTotal = z]
      /\ UNCHANGED <<round, candidateInfo, candidatePool, autoCompound, totalStaked, lockVars>>
  BY DEF Schedule
<1>2. p \in Pairs /\ new \in Requests /\ new.amount = amount
  BY DEF Pairs, Requests, Staked, Shaped
<1>3. RequestFits(new, delegatorState[d].delegations[c])
  BY DEF RequestFits
<1> HIDE DEF new
<1>4. /\ DOMAIN requests' = DOMAIN requests \cup {p} /\ requests'[p] = new
      /\ \A q \in DOMAIN requests \ {p} : requests'[q] = requests[q]
  BY <1>1 DEF With
<1>5. RequestsShaped'
  BY <1>2, <1>4 DEF RequestsShaped, Staked, Shaped
<1>6. /\ \A k \in DelegatorAccounts \ {d} : SameAskedBut(k, requests, requests', {})
      /\ SameAskedBut(d, requests, requests', {c})
  BY <1>4 DEF SameAskedBut
<1>7. z = AskedBy(d, requests')
  <2>1. /\ AskedBy(d, requests') = requests'[p].amount + AskedBy(d, requests)
        /\ AskedBy(d, requests) \in Nat
    BY <1>4, <1>5, <1>6, AskedNow
  <2>2. delegatorState[d].lessTotal = AskedBy(d, requests)
    BY DEF Staked, DelegatorSound, Delegates
  <2> QED BY <1>2, <1>4, <2>1, <2>2
<1> HIDE DEF z
<1> QED BY <1>1, <1>3, <1>4, <1>5, <1>6, <1>7, AskingKeeps

LEMMA CancelKeeps ==
    ASSUME Staked, NEW d \in DelegatorAccounts, NEW c \in CandidateAccounts, CancelRequest(d, c)
    PROVE  Kept
<1> DEFINE p == <<c, d>>
           z == Monus(delegatorState[d].lessTotal, requests[p].amount)
<1>1. /\ requests' = Minus(requests, {p}) /\ HasRequest(d, c)
      /\ delegatorState' = [delegatorState EXCEPT ![d].lessTotal = z]
      /\ UNCHANGED <<round, candidateInfo, candidatePool, autoCompound, totalStaked, lockVars>>
  BY DEF CancelRequest
<1>2. Delegates(d, c)
  BY <1>1 DEF Staked, DelegatorSound
<1>4. /\ DOMAIN requests' = DOMAIN requests \ {p}
      /\ \A q \in DOMAIN requests \ {p} : requests'[q] = requests[q]
  BY <1>1 DEF Minus, Restrict
<1>5. RequestsShaped'
  BY <1>4 DEF RequestsShaped, Staked, Shaped
<1>6. /\ \A k \in DelegatorAccounts \ {d} : SameAskedBut(k, requests, requests', {})
      /\ SameAskedBut(d, requests, requests', {c}) /\ p \notin DOMAIN requests'
  BY <1>4 DEF SameAskedBut
<1>7. z = AskedBy(d, requests')
  <2> DEFINE a == AskedBy(d, requests)
             b == AskedBy(d, requests')
             y == requests[p].amount
  <2>1. a = y + b /\ b \in Nat /\ y \in Nat
    BY <1>1, <1>5, <1>6, AskedNow
  <2>2. z = Monus(a, y)
    BY <1>2 DEF Staked, DelegatorSound, Delegates
  <2> HIDE DEF a, b, y, z
  <2>3. Monus(a, y) = b
    BY <2>1 DEF Monus
  <2> QED BY <2>2, <2>3 DEF b
<1> HIDE DEF z
<1> QED BY <1>1, <1>2, <1>4, <1>5, <1>6, <1>7, AskingKeeps

LEMMA RequestsKeep ==
    ASSUME Staked, NEW d \in DelegatorAccounts, NEW c \in CandidateAccounts,
           \/ ScheduleRevoke(d, c) \/ CancelRequest(d, c)
           \/ \E less \in Amounts : ScheduleBondDecrease(d, c, less)
    PROVE  Kept
<1>1. ASSUME ScheduleRevoke(d, c) PROVE Kept
  <2> DEFINE action == "revoke"
             amount == delegatorState[d].delegations[c]
  <2>1. /\ Delegates(d, c) /\ ~HasRequest(d, c)
        /\ Schedule(d, c, action, amount, RevokeDelegationDelay)
    BY <1>1 DEF ScheduleRevoke
  <2>2. /\ amount \in Nat /\ RevokeDelegationDelay \in Nat /\ action \in {"revoke", "decrease"}
        /\ action = "revoke"
    BY <2>1, Listed, DelaysAssumption
  <2> HIDE DEF action
  <2> QED BY <2>1, <2>2, ScheduleKeeps
<1>2. ASSUME NEW less \in Amounts, ScheduleBondDecrease(d, c, less) PROVE Kept
  <2> DEFINE action == "decrease"
             x == delegatorState[d].delegations[c]
  <2>1. /\ Delegates(d, c) /\ ~HasRequest(d, c) /\ LeavesEnough(d, c, less)
        /\ Schedule(d, c, action, less, DelegationBondLessDelay)
    BY <1>2 DEF ScheduleBondDecrease
  <2>2. /\ x \in Nat /\ DelegationBondLessDelay \in Nat /\ action \in {"revoke", "decrease"}
        /\ action # "revoke" /\ less \in Nat
    BY <2>1, Listed, DelaysAssumption, InputsAssumption
  <2>3. less + MinDelegation <= x
    <3>1. x > less /\ x - less >= MinDelegation
      BY <2>1 DEF LeavesEnough
    <3> HIDE DEF x
    <3> QED BY <2>2, <3>1, MinimaAssumption
  <2> HIDE DEF action
  <2> QED BY <2>1, <2>2, <2>3, ScheduleKeeps
<1> QED BY <1>1, <1>2, CancelKeeps

-----------------------------------------------------------------------------
(* Delegations that grow or shrink                                         *)

LEMMA BookStored ==
    ASSUME Staked, IInv, NEW c \in Candidates, NEW book, StoreBook(c, book),
           BookHolds(book, HeldBy(c)')
    PROVE  /\ BookSound(c)' /\ Candidates' = Candidates
           /\ \A k \in CandidateAccounts \ {c} :
                 /\ k \in Candidates' <=> k \in Candidates
                 /\ k \in Candidates => candidateInfo'[k] = candidateInfo[k]
<1> DEFINE info == [candidateInfo[c] EXCEPT !.book = book]
<1>1. /\ c \in CandidateAccounts /\ InfoFits(candidateInfo[c], HeldBy(c))
      /\ DOMAIN candidateInfo[c] = Fields
  BY DEF IInv, Staked, BookSound, InfoFits
<1>2. /\ Candidates' = Candidates /\ candidateInfo'[c] = info
      /\ \A k \in Candidates \ {c} : candidateInfo'[k] = candidateInfo[k]
  BY DEF StoreBook, Candidates
<1>3. /\ DOMAIN info = Fields /\ info.book = book /\ info.status = candidateInfo[c].status
      /\ info.leaveAt = candidateInfo[c].leaveAt /\ info.request = candidateInfo[c].request
  BY <1>1 DEF Fields
<1> HIDE DEF info
<1>4. InfoFits(info, HeldBy(c)')
  <2> HIDE DEF HeldBy
  <2> QED BY <1>1, <1>3 DEF InfoFits
<1>5. BookSound(c)'
  <2> HIDE DEF HeldBy
  <2> QED BY <1>2, <1>4 DEF BookSound, InfoFits, BookHolds, BookIs, TopIs, BottomIs
<1> QED BY <1>2, <1>5

LEMMA StakeChanges ==
    ASSUME Staked, IInv, NEW d \in DelegatorAccounts, NEW c \in CandidateAccounts, Delegates(d, c),
           NEW r, NEW x \in Nat, NEW book,
           delegatorState' = [delegatorState EXCEPT ![d] = r], RecordFits(r),
           DOMAIN r.delegations = DOMAIN delegatorState[d].delegations, r.delegations[c] = x,
           \A k \in DOMAIN r.delegations \ {c} : r.delegations[k] = delegatorState[d].delegations[k],
           r.lessTotal = AskedBy(d, requests'),
           RequestsShaped', \A k \in DelegatorAccounts \ {d} : SameAskedBut(k, requests, requests', {}),
           SameAskedBut(d, requests, requests', {c}),
           <<c, d>> \in DOMAIN requests' => RequestFits(requests'[<<c, d>>], x),
           StoreBook(c, book),
           Became(book, candidateInfo[c].book, DelegatorAccounts,
                  (HeldBy(c) \ {EntryOf(d, c)}) \cup {Changed(EntryOf(d, c), x)}),
           delegatorLock' = [delegatorLock EXCEPT ![d] = r.total], r.total <= balance'[d],
           balance' \in [Accounts -> Nat], \A a \in Accounts : balance[a] <= balance'[a],
           UNCHANGED <<round, autoCompound, collatorLock>>, totalStaked' \in Nat,
           totalStaked' = 0 \/ totalStaked' + delegatorState[d].total <= totalStaked + r.total,
           x < delegatorState[d].delegations[c] => HasRequest(d, c) /\ requests[<<c, d>>].when <= round
    PROVE  Kept
<1> DEFINE state == delegatorState[d]
<1>1. d \in Delegators /\ c \in Candidates /\ RecordFits(state) /\ c \in DOMAIN state.delegations
  BY Listed
<1>2. /\ Delegators' = Delegators /\ delegatorState'[d] = r
      /\ \A k \in Delegators \ {d} : delegatorState'[k] = delegatorState[k]
  BY <1>1 DEF Delegators
<1>3. \A e, k : Delegates(k, e)' <=> Delegates(k, e)
  <2> SUFFICES ASSUME NEW e, NEW k PROVE Delegates(k, e)' <=> Delegates(k, e)
    OBVIOUS
  <2>1. CASE k = d
    BY <1>1, <1>2, <2>1 DEF Delegates
  <2>2. CASE k # d
    BY <1>2, <2>2 DEF Delegates
  <2> QED BY <2>1, <2>2
<1>4. r.total \in Nat
  BY RecordFacts
<1>5. /\ delegatorLock' \in [DelegatorAccounts -> Nat] /\ delegatorLock'[d] = r.total
      /\ \A k \in DelegatorAccounts \ {d} : delegatorLock'[k] = delegatorLock[k]
      /\ delegatorLock[d] = state.total
  <2>1. delegatorLock \in [DelegatorAccounts -> Nat] /\ delegatorLock[d] = state.total
    BY <1>1 DEF Staked, Shaped, DelegatorSound
  <2> QED BY <1>4, <2>1
<1>6. Shaped'
  <2>1. \A p \in DOMAIN autoCompound' :
          p \in Pairs /\ autoCompound'[p] \in 1 .. 100 /\ Delegates(p[2], p[1])'
    BY <1>3 DEF Staked, Shaped
  <2>2. Shaped
    BY DEF Staked
  <2> QED BY <1>2, <1>5, <2>1, <2>2 DEF Shaped
<1>7. \A k \in DelegatorAccounts \ {d} : Untouched(k)
  BY <1>2, <1>5 DEF Untouched, Accounts
<1>8. \A e, k : k # d \/ e # c => SameStake(k, e)
  <2> SUFFICES ASSUME NEW e, NEW k, k # d \/ e # c PROVE SameStake(k, e)
    OBVIOUS
  <2>1. CASE k = d
    BY <1>1, <1>2, <1>3, <2>1 DEF SameStake, Delegates
  <2>2. CASE k # d
    BY <1>2, <1>3, <2>2 DEF SameStake, Delegates
  <2> QED BY <2>1, <2>2
<1>9. Holding(d, c)
  BY <1>2, <1>3, <1>5, <1>8 DEF Holding
<1>10. BookHolds(book, HeldBy(c)')
  <2> DEFINE L == {}
  <2>1. HeldBy(c)' = {e \in HeldBy(c) : e.owner \notin L \cup {d}} \cup {[owner |-> d, amount |-> x]}
    <3>1. \A k \in DelegatorAccounts \cap L : ~Delegates(k, c)'
      OBVIOUS
    <3>2. d \in DelegatorAccounts \ L /\ Delegates(d, c)' /\ delegatorState'[d].delegations[c] = x
      BY <1>2, <1>3
    <3>3. \A k \in DelegatorAccounts \ (L \cup {d}) : SameStake(k, c)
      BY <1>8
    <3> HIDE DEF L
    <3> HIDE DEF HeldBy
    <3>4. HeldBy(c)' = HeldAnew(c, L, d, x)
      BY <3>1, <3>2, <3>3, HeldMore
    <3> QED BY <3>4 DEF HeldAnew
  <2>2. {e \in HeldBy(c) : e.owner \notin L \cup {d}} = HeldBy(c) \ {EntryOf(d, c)}
    <3>1. {e \in HeldBy(c) : e.owner \notin {d}} = HeldBy(c) \ {EntryOf(d, c)}
      BY HeldUnique
    <3>2. L \cup {d} = {d}
      OBVIOUS
    <3> HIDE DEF L, HeldBy
    <3> QED BY <3>1, <3>2
  <2>3. Changed(EntryOf(d, c), x) = [owner |-> d, amount |-> x]
    BY DEF Changed, EntryOf
  <2>4. HeldBy(c)' = (HeldBy(c) \ {EntryOf(d, c)}) \cup {Changed(EntryOf(d, c), x)}
    <3> HIDE DEF HeldBy
    <3> QED BY <2>1, <2>2, <2>3
  <2> HIDE DEF HeldBy
  <2> QED BY <2>4 DEF Became, BookHolds
<1>11. /\ BookSound(c)'
       /\ \A k \in CandidateAccounts \ {c} :
              /\ k \in Candidates' <=> k \in Candidates
              /\ k \in Candidates => candidateInfo'[k] = candidateInfo[k]
  BY <1>1, <1>10, BookStored
<1>12. DelegationOf(d, c)' < DelegationOf(d, c) => HasRequest(d, c) /\ requests[<<c, d>>].when <= round
  BY <1>2, <1>3 DEF DelegationOf
<1>13. totalStaked' = 0 \/ totalStaked' + delegatorLock[d] <= totalStaked + delegatorLock'[d]
  BY <1>5
<1>14. \A k \in CandidateAccounts : balance[k] <= balance'[k]
  BY DEF Accounts
<1> QED BY <1>6, <1>7, <1>9, <1>11, <1>12, <1>13, <1>14, DelegatorStep

LEMMA BookIncreases ==
    ASSUME Staked, NEW d \in DelegatorAccounts, NEW c \in CandidateAccounts, Delegates(d, c),
           NEW more \in Nat, NEW b, b = candidateInfo[c].book,
           NEW x, x = delegatorState[d].delegations[c]
    PROVE  /\ CanChange(b, d, x)
           /\ Became(IncreaseDelegation(b, d, x, more), b, DelegatorAccounts,
                     (HeldBy(c) \ {EntryOf(d, c)}) \cup {Changed(EntryOf(d, c), x + more)})
<1>1. c \in Candidates /\ EntryOf(d, c) \in HeldBy(c)
  BY Listed
<1>2. PICK T, B, y : BookIs(b, DelegatorAccounts, T, B, y) /\ T \cup B = HeldBy(c)
  BY <1>1, BookOf
<1>3. PICK e : e = EntryOf(d, c) /\ e \in T \cup B
  BY <1>1, <1>2
<1>4. e.owner = d /\ e.amount = x
  BY <1>3 DEF EntryOf
<1>5. /\ CanChange(b, e.owner, e.amount)
      /\ Became(IncreaseDelegation(b, e.owner, e.amount, more), b, DelegatorAccounts,
                ((T \cup B) \ {e}) \cup {Changed(e, e.amount + more)})
  BY <1>2, <1>3, IncreaseIs
<1>6. Became(IncreaseDelegation(b, d, x, more), b, DelegatorAccounts,
             (HeldBy(c) \ {e}) \cup {Changed(e, x + more)})
  BY Zenon, <1>2, <1>4, <1>5
<1> QED BY Zenon, <1>3, <1>4, <1>5, <1>6

LEMMA BookDecreases ==
    ASSUME Staked, NEW d \in DelegatorAccounts, NEW c \in CandidateAccounts, Delegates(d, c),
           NEW b, b = candidateInfo[c].book,
           NEW x, x = delegatorState[d].delegations[c], NEW less \in Nat, x - less \in Nat
    PROVE  Became(DecreaseDelegation(b, d, x, less), b, DelegatorAccounts,
                  (HeldBy(c) \ {EntryOf(d, c)}) \cup {Changed(EntryOf(d, c), x - less)})
<1>1. c \in Candidates /\ EntryOf(d, c) \in HeldBy(c)
  BY Listed
<1>2. PICK T, B, y : BookIs(b, DelegatorAccounts, T, B, y) /\ T \cup B = HeldBy(c)
  BY <1>1, BookOf
<1>3. PICK e : e = EntryOf(d, c) /\ e \in T \cup B
  BY <1>1, <1>2
<1>4. e.owner = d /\ e.amount = x
  BY <1>3 DEF EntryOf
<1>5. Became(DecreaseDelegation(b, e.owner, e.amount, less), b, DelegatorAccounts,
             ((T \cup B) \ {e}) \cup {Changed(e, e.amount - less)})
  BY <1>2, <1>3, <1>4, DecreaseIs
<1>6. Became(DecreaseDelegation(b, d, x, less), b, DelegatorAccounts,
             (HeldBy(c) \ {e}) \cup {Changed(e, x - less)})
  BY Zenon, <1>2, <1>4, <1>5
<1> QED BY Zenon, <1>3, <1>6

LEMMA BondMoreKeeps ==
    ASSUME Staked, IInv, NEW d \in DelegatorAccounts, NEW c \in CandidateAccounts, Delegates(d, c),
           ~RevokePending(d, c), NEW more \in Nat, BondMore(d, c, more),
           delegatorLock' = [delegatorLock EXCEPT ![d] = delegatorState[d].total + more],
           delegatorState[d].total + more <= balance'[d],
           balance' \in [Accounts -> Nat], \A a \in Accounts : balance[a] <= balance'[a],
           UNCHANGED <<round, requests, autoCompound, collatorLock>>
    PROVE  Kept
<1> DEFINE state == delegatorState[d]
           before == state.delegations[c]
           x == before + more
           r == Grown(state, c, more)
           b == candidateInfo[c].book
           book == IncreaseDelegation(b, d, before, more)
<1>1. /\ d \in Delegators /\ c \in Candidates /\ RecordFits(state) /\ c \in DOMAIN state.delegations
      /\ before \in Nat /\ before >= MinDelegation /\ state.total \in Nat
  BY Listed
<1>2. /\ StoreBook(c, book) /\ delegatorState' = [delegatorState EXCEPT ![d] = r]
      /\ totalStaked' = totalStaked + more
  BY DEF BondMore
<1>3. Became(book, b, DelegatorAccounts, (HeldBy(c) \ {EntryOf(d, c)}) \cup {Changed(EntryOf(d, c), x)})
  BY BookIncreases
<1>4. GrownTo(r, state, c, x) /\ r.total = state.total + more
  <2>1. more \in Int /\ before + more >= MinDelegation
    <3> HIDE DEF before
    <3> QED BY <1>1, MinimaAssumption
  <2>2. before = IF c \in DOMAIN state.delegations THEN state.delegations[c] ELSE 0
    BY <1>1
  <2> HIDE DEF state, before
  <2> QED BY <1>1, <2>1, <2>2, RecordGrows
<1>5. state.lessTotal = AskedBy(d, requests) /\ AskedBy(d, requests) = AskedBy(d, requests')
  BY <1>1 DEF Staked, DelegatorSound
<1>6. RequestsShaped' /\ \A k \in DelegatorAccounts : \A C : SameAskedBut(k, requests, requests', C)
  BY DEF Staked, Shaped, RequestsShaped, SameAskedBut
<1>7. <<c, d>> \in DOMAIN requests' => RequestFits(requests'[<<c, d>>], x)
  <2> SUFFICES ASSUME <<c, d>> \in DOMAIN requests PROVE RequestFits(requests[<<c, d>>], x)
    OBVIOUS
  <2> DEFINE q == requests[<<c, d>>]
  <2>1. RequestFits(q, before) /\ q.action # "revoke" /\ q.amount \in Nat
    BY DEF Staked, Shaped, RequestsShaped, Requests, DelegatorSound, HasRequest, RevokePending
  <2> HIDE DEF q, before
  <2>2. q.amount + MinDelegation <= before
    BY <2>1 DEF RequestFits
  <2>3. q.amount + MinDelegation <= x
    BY <1>1, <2>1, <2>2, MinimaAssumption
  <2> QED BY <2>1, <2>3 DEF RequestFits, q
<1>8. totalStaked' \in Nat /\ totalStaked' + state.total <= totalStaked + r.total
  <2>1. totalStaked \in Nat
    BY DEF Staked, Shaped
  <2> HIDE DEF state, r
  <2> QED BY <1>1, <1>2, <1>4, <2>1
<1>9. x \in Nat /\ ~(x < before)
  <2> HIDE DEF before
  <2> QED BY <1>1
<1> HIDE DEF r, book
<1>10. /\ RecordFits(r) /\ DOMAIN r.delegations = DOMAIN state.delegations /\ r.delegations[c] = x
       /\ \A k \in DOMAIN r.delegations \ {c} : r.delegations[k] = state.delegations[k]
       /\ r.lessTotal = AskedBy(d, requests')
  BY <1>1, <1>4, <1>5 DEF GrownTo
<1>11. delegatorLock' = [delegatorLock EXCEPT ![d] = r.total] /\ r.total <= balance'[d]
  BY <1>4
<1> HIDE DEF x
<1> QED BY <1>2, <1>3, <1>6, <1>7, <1>8, <1>9, <1>10, <1>11, StakeChanges

LEMMA DelegatorBondMoreKeeps ==
    ASSUME Staked, IInv, NEW d \in DelegatorAccounts, NEW c \in CandidateAccounts,
           NEW more \in Amounts, DelegatorBondMore(d, c, more)
    PROVE  Kept
<1> DEFINE total == delegatorState[d].total
<1>1. /\ Delegates(d, c) /\ ~RevokePending(d, c) /\ DelegatorStakable(d) >= more
      /\ BondMore(d, c, more)
      /\ delegatorLock' = [delegatorLock EXCEPT ![d] = total + more]
      /\ UNCHANGED <<round, requests, autoCompound, collatorLock, balance>>
  BY DEF DelegatorBondMore
<1>2. more \in Nat
  BY InputsAssumption
<1>3. balance \in [Accounts -> Nat] /\ balance[d] \in Nat /\ \A a \in Accounts : balance[a] <= balance'[a]
  BY <1>1 DEF Staked, Shaped, Accounts
<1>4. d \in Delegators /\ total \in Nat /\ total <= balance[d]
  BY <1>1, Listed DEF Staked, DelegatorSound
<1>5. Monus(balance[d], total) >= more
  BY <1>1, <1>4 DEF DelegatorStakable
<1>6. total + more <= balance[d]
  <2> HIDE DEF total
  <2> QED BY <1>2, <1>3, <1>4, <1>5 DEF Monus
<1>7. total + more <= balance'[d]
  BY <1>1, <1>6
<1> QED BY <1>1, <1>2, <1>3, <1>7, BondMoreKeeps

LEMMA MintKeeps ==
    ASSUME Staked, IInv, NEW d \in DelegatorAccounts, NEW c \in CandidateAccounts,
           NEW amount \in Rewards, NEW percent \in {0} \cup Percents, MintAndCompound(d, c, amount, percent)
    PROVE  Kept
<1> DEFINE more == CompoundAmount(percent, amount)
           total == delegatorState[d].total
           stops == \/ more = 0 \/ CompoundBlocked(d, c)
                    \/ Monus(balance[d] + amount, total) < more
<1>1. /\ balance' = [balance EXCEPT ![d] = @ + amount]
      /\ delegatorLock' = IF stops THEN delegatorLock ELSE [delegatorLock EXCEPT ![d] = total + more]
      /\ IF stops \/ ~FoundInBook(d, c)
         THEN UNCHANGED <<candidateInfo, candidatePool, delegatorState, totalStaked>>
         ELSE BondMore(d, c, more)
      /\ UNCHANGED <<round, requests, autoCompound, collatorLock>>
  BY DEF MintAndCompound
<1>2. amount \in Nat /\ percent \in 0 .. 100
  BY InputsAssumption
<1>3. more \in Nat
  <2>1. percent * amount \in Nat
    BY <1>2
  <2>2. ASSUME NEW n \in Nat PROVE (n + 99) \div 100 \in Nat
    OBVIOUS
  <2> QED BY <2>1, <2>2 DEF CompoundAmount
<1>4. /\ balance' \in [Accounts -> Nat] /\ balance[d] \in Nat /\ balance'[d] = balance[d] + amount
      /\ \A a \in Accounts : balance[a] <= balance'[a]
  <2>1. balance \in [Accounts -> Nat] /\ d \in Accounts
    BY DEF Staked, Shaped, Accounts
  <2>2. \A a \in Accounts : balance[a] \in Nat /\ balance'[a] = IF a = d THEN balance[d] + amount ELSE balance[a]
    BY <1>1, <2>1
  <2>3. \A a \in Accounts : balance'[a] \in Nat /\ balance[a] <= balance'[a]
    <3> SUFFICES ASSUME NEW a \in Accounts PROVE balance'[a] \in Nat /\ balance[a] <= balance'[a]
      OBVIOUS
    <3> QED BY <1>2, <2>1, <2>2
  <2>4. balance' \in [Accounts -> Nat]
    BY <1>1, <2>1, <2>3
  <2> QED BY <2>1, <2>2, <2>3, <2>4
<1>5. CASE stops
  <2>1. UNCHANGED <<candidateInfo, delegatorState, requests, totalStaked, round, autoCompound>>
    BY <1>1, <1>5
  <2>2. UNCHANGED <<collatorLock, delegatorLock>>
    BY <1>1, <1>5
  <2>3. Shaped'
    BY <1>4, <2>1, <2>2 DEF Staked, Shaped, RequestsShaped, Delegators, Delegates
  <2>4. \A a \in Accounts : balance'[a] \in Nat /\ balance[a] <= balance'[a]
    BY <1>4
  <2> QED BY <2>1, <2>2, <2>3, <2>4, QuietStep
<1>6. CASE ~stops
  <2>1. Delegates(d, c) /\ ~RevokePending(d, c) /\ more # 0 /\ ~(Monus(balance[d] + amount, total) < more)
    BY <1>6 DEF CompoundBlocked
  <2>2. c \in Candidates /\ total \in Nat
    BY <2>1, Listed
  <2>3. FoundInBook(d, c)
    <3> DEFINE b == candidateInfo[c].book
               x == delegatorState[d].delegations[c]
    <3>1. CanChange(b, d, x)
      BY <1>3, <2>1, BookIncreases
    <3> QED BY <2>2, <3>1 DEF FoundInBook
  <2>4. BondMore(d, c, more) /\ delegatorLock' = [delegatorLock EXCEPT ![d] = total + more]
    BY <1>1, <1>6, <2>3
  <2>5. total + more <= balance'[d]
    <3> DEFINE y == balance[d] + amount
    <3>1. y \in Nat /\ balance'[d] = y
      BY <1>2, <1>4
    <3>2. ~(Monus(y, total) < more)
      BY <2>1
    <3> HIDE DEF y, more, total
    <3>3. total + more <= y
      BY <1>3, <2>1, <2>2, <3>1, <3>2 DEF Monus
    <3> QED BY <3>1, <3>3
  <2> HIDE DEF more
  <2> QED BY <1>1, <1>3, <1>4, <2>1, <2>4, <2>5, BondMoreKeeps
<1> QED BY <1>5, <1>6

LEMMA ExecuteDecreaseKeeps ==
    ASSUME Staked, IInv, NEW d \in DelegatorAccounts, NEW c \in CandidateAccounts, ExecuteDecrease(d, c)
    PROVE  Kept
<1> DEFINE state == delegatorState[d]
           before == state.delegations[c]
           less == requests[<<c, d>>].amount
           x == before - less
           g == Grown(state, c, 0 - less)
           r == [g EXCEPT !.lessTotal = Monus(@, less)]
           b == candidateInfo[c].book
           book == DecreaseDelegation(b, d, before, less)
           p == <<c, d>>
<1>1. /\ HasRequest(d, c) /\ requests[p].action = "decrease" /\ requests[p].when <= round
      /\ StoreBook(c, book) /\ delegatorState' = [delegatorState EXCEPT ![d] = r]
      /\ delegatorLock' = [delegatorLock EXCEPT ![d] = Monus(state.total, less)]
      /\ totalStaked' = Monus(totalStaked, less)
      /\ requests' = Minus(requests, {p})
      /\ UNCHANGED <<round, autoCompound, collatorLock, balance>>
  BY DEF ExecuteDecrease, IsDue
<1>2. Delegates(d, c) /\ RequestFits(requests[p], before) /\ less \in Nat
  BY <1>1 DEF Staked, DelegatorSound, HasRequest, Shaped, RequestsShaped, Requests
<1>3. /\ d \in Delegators /\ c \in Candidates /\ RecordFits(state) /\ c \in DOMAIN state.delegations
      /\ before \in Nat /\ before <= state.total /\ state.total \in Nat
  BY <1>2, Listed
<1>4. x \in Nat /\ x >= MinDelegation /\ x <= before
  <2>1. less + MinDelegation <= before
    BY <1>1, <1>2 DEF RequestFits
  <2> HIDE DEF before, less
  <2> QED BY <1>2, <1>3, <2>1, MinimaAssumption
<1>5. Became(book, b, DelegatorAccounts, (HeldBy(c) \ {EntryOf(d, c)}) \cup {Changed(EntryOf(d, c), x)})
  BY <1>2, <1>4, BookDecreases
<1> DEFINE delta == 0 - less
<1>6. GrownTo(g, state, c, x) /\ g.total = state.total - less
  <2>1. delta \in Int /\ before + delta >= MinDelegation /\ before + delta = x
    <3> HIDE DEF before, less
    <3> QED BY <1>2, <1>3, <1>4
  <2>2. before = IF c \in DOMAIN state.delegations THEN state.delegations[c] ELSE 0
    BY <1>3
  <2>3. g = Grown(state, c, delta)
    OBVIOUS
  <2> HIDE DEF state, before, g, delta
  <2>4. /\ GrownTo(Grown(state, c, delta), state, c, before + delta)
        /\ Grown(state, c, delta).total = state.total + delta
    BY <1>3, <2>1, <2>2, RecordGrows
  <2>5. state.total + delta = state.total - less
    <3> HIDE DEF less
    <3> QED BY <1>2, <1>3 DEF delta
  <2> QED BY <2>1, <2>3, <2>4, <2>5
<1>7. /\ DOMAIN requests' = DOMAIN requests \ {p}
      /\ \A q \in DOMAIN requests \ {p} : requests'[q] = requests[q]
  BY <1>1 DEF Minus, Restrict
<1>8. /\ RequestsShaped' /\ p \notin DOMAIN requests'
      /\ \A k \in DelegatorAccounts \ {d} : SameAskedBut(k, requests, requests', {})
      /\ SameAskedBut(d, requests, requests', {c})
  BY <1>7 DEF SameAskedBut, RequestsShaped, Staked, Shaped
<1>9. Monus(state.lessTotal, less) = AskedBy(d, requests')
  <2> DEFINE s == AskedBy(d, requests)
             t == AskedBy(d, requests')
  <2>1. s = less + t /\ t \in Nat
    BY <1>1, <1>8, AskedNow
  <2>2. state.lessTotal = s
    BY <1>3 DEF Staked, DelegatorSound
  <2> HIDE DEF s, t, state, less
  <2>3. Monus(s, less) = t
    BY <1>2, <2>1 DEF Monus
  <2> QED BY <2>2, <2>3 DEF t
<1>10. RecordFits(g) /\ DOMAIN g = RecordFields /\ g.lessTotal = state.lessTotal
  BY <1>6 DEF GrownTo, RecordFits
<1> HIDE DEF g
<1>11. /\ DOMAIN r = RecordFields /\ r.delegations = g.delegations /\ r.total = g.total
       /\ r.lessTotal = Monus(state.lessTotal, less)
  BY <1>10 DEF RecordFields
<1> HIDE DEF r, book
<1>12. /\ RecordFits(r) /\ DOMAIN r.delegations = DOMAIN state.delegations /\ r.delegations[c] = x
       /\ \A k \in DOMAIN r.delegations \ {c} : r.delegations[k] = state.delegations[k]
       /\ r.lessTotal = AskedBy(d, requests')
  <2>1. RecordFits(r)
    BY <1>10, <1>11 DEF RecordFits
  <2> QED BY <1>3, <1>6, <1>9, <1>11, <2>1 DEF GrownTo
<1>13. /\ delegatorLock' = [delegatorLock EXCEPT ![d] = r.total]
       /\ r.total <= state.total /\ r.total \in Nat /\ state.total = r.total + less
  <2>1. less <= state.total /\ state.total - less \in Nat
    <3> HIDE DEF before, less, state
    <3> QED BY <1>2, <1>3, <1>4 DEF x
  <2>2. Monus(state.total, less) = state.total - less
    <3> HIDE DEF less, state
    <3> QED BY <2>1 DEF Monus
  <2>3. r.total = state.total - less
    BY <1>6, <1>11
  <2>4. state.total - less <= state.total /\ state.total = (state.total - less) + less
    <3> HIDE DEF less, state
    <3> QED BY <1>2, <1>3
  <2> QED BY <1>1, <2>1, <2>2, <2>3, <2>4
<1>14. r.total <= balance'[d]
  <2>1. state.total <= balance[d] /\ balance[d] \in Nat
    BY <1>3 DEF Staked, DelegatorSound, Shaped, Accounts
  <2> HIDE DEF state
  <2> QED BY <1>1, <1>3, <1>13, <2>1
<1>15. /\ totalStaked' \in Nat
       /\ totalStaked' = 0 \/ totalStaked' + state.total <= totalStaked + r.total
  <2>1. totalStaked \in Nat
    BY DEF Staked, Shaped
  <2> HIDE DEF state, less
  <2>2. totalStaked' \in Nat /\ (totalStaked' = 0 \/ totalStaked' = totalStaked - less)
    BY <1>1, <1>2, <2>1 DEF Monus
  <2> QED BY <1>2, <1>3, <1>13, <2>1, <2>2
<1>16. balance' \in [Accounts -> Nat] /\ \A a \in Accounts : balance[a] <= balance'[a]
  BY <1>1 DEF Staked, Shaped
<1> HIDE DEF x
<1> QED BY <1>1, <1>2, <1>4, <1>5, <1>8, <1>12, <1>13, <1>14, <1>15, <1>16, StakeChanges

-----------------------------------------------------------------------------
(* Delegations that end                                                    *)

LEMMA RequestsLost ==
    ASSUME Staked, NEW c \in CandidateAccounts, NEW M \in SUBSET DelegatorAccounts,
           requests' = RequestsWithout(c, M)
    PROVE  /\ RequestsShaped'
           /\ \A d \in M : <<c, d>> \notin DOMAIN requests' /\ SameAskedBut(d, requests, requests', {c})
           /\ \A d \in DelegatorAccounts :
                  d \notin M \/ ~HasRequest(d, c) => SameAskedBut(d, requests, requests', {})
<1>1. /\ DOMAIN requests' = DOMAIN requests \ ({c} \X M)
      /\ \A p \in DOMAIN requests' : requests'[p] = requests[p]
  BY DEF RequestsWithout, Minus, Restrict
<1>2. \A k, d : <<k, d>> \in {c} \X M <=> k = c /\ d \in M
  OBVIOUS
<1>3. RequestsShaped'
  BY <1>1 DEF RequestsShaped, Staked, Shaped
<1>4. \A d \in M : <<c, d>> \notin DOMAIN requests' /\ SameAskedBut(d, requests, requests', {c})
  BY <1>1, <1>2 DEF SameAskedBut
<1>5. \A d \in DelegatorAccounts :
         d \notin M \/ ~HasRequest(d, c) => SameAskedBut(d, requests, requests', {})
  BY <1>1, <1>2 DEF SameAskedBut, HasRequest
<1> QED BY <1>3, <1>4, <1>5

LEMMA CompoundsLost ==
    ASSUME Staked, NEW c \in CandidateAccounts, NEW M \in SUBSET DelegatorAccounts,
           \A k \in CandidateAccounts, d \in DelegatorAccounts :
              (k # c \/ d \notin M) /\ Delegates(d, k) => Delegates(d, k)'
    PROVE  \A p \in DOMAIN CompoundsWithout(c, M) :
              /\ p \in Pairs /\ CompoundsWithout(c, M)[p] \in 1 .. 100
              /\ Delegates(p[2], p[1])'
<1> DEFINE left == CompoundsWithout(c, M)
<1>1. /\ DOMAIN left = DOMAIN autoCompound \ ({c} \X M)
      /\ \A p \in DOMAIN left : left[p] = autoCompound[p]
  BY DEF CompoundsWithout, Minus, Restrict
<1> HIDE DEF left
<1>2. ASSUME NEW p \in DOMAIN left
      PROVE  p \in Pairs /\ left[p] \in 1 .. 100 /\ Delegates(p[2], p[1])'
  <2>1. p \in Pairs /\ left[p] \in 1 .. 100 /\ Delegates(p[2], p[1])
    BY <1>1 DEF Staked, Shaped
  <2>2. p[1] \in CandidateAccounts /\ p[2] \in DelegatorAccounts /\ p = <<p[1], p[2]>>
    BY <2>1 DEF Pairs
  <2>3. p[1] # c \/ p[2] \notin M
    <3>1. p \notin {c} \X M
      BY <1>1
    <3> QED BY <2>2, <3>1
  <2> QED BY <2>1, <2>2, <2>3
<1> QED BY <1>2 DEF left

\* The delegators of L lose their delegations to c, another may begin one.
Losing(c, L) ==
    /\ \A d \in DelegatorAccounts \cap L : Lost(d, c)
    /\ \A d \in DelegatorAccounts \ L : Untouched(d) \/ (Holding(d, c) /\ ~Delegates(d, c))

LEMMA LosingStakes ==
    ASSUME Staked, RequestsShaped', NEW c \in CandidateAccounts, NEW L \in SUBSET DelegatorAccounts, Losing(c, L)
    PROVE  /\ \A d \in DelegatorAccounts : DelegatorSound(d)'
           /\ \A d \in DelegatorAccounts, k \in CandidateAccounts \ {c} : SameStake(d, k)
           /\ \A d \in L : /\ ~Delegates(d, c)'
                           /\ delegatorLock'[d] = delegatorLock[d] - delegatorState[d].delegations[c]
           /\ \A d \in DelegatorAccounts \ L : Untouched(d) => SameStake(d, c)
           /\ \A d \in DelegatorAccounts, k \in CandidateAccounts :
                 (k # c \/ d \notin L) /\ Delegates(d, k) => Delegates(d, k)'
<1>1. ASSUME NEW d \in L
      PROVE  /\ DelegatorSound(d)'
             /\ ~Delegates(d, c)' /\ \A k \in CandidateAccounts \ {c} : SameStake(d, k)
             /\ delegatorLock'[d] = delegatorLock[d] - delegatorState[d].delegations[c]
  <2>1. d \in DelegatorAccounts /\ Lost(d, c)
    BY DEF Losing
  <2> QED BY <2>1, LostSound
<1>2. ASSUME NEW d \in DelegatorAccounts \ L, Untouched(d)
      PROVE  DelegatorSound(d)' /\ \A k \in CandidateAccounts : SameStake(d, k)
  BY <1>2, UntouchedSound
<1>3. ASSUME NEW d \in DelegatorAccounts \ L, Holding(d, c), ~Delegates(d, c)
      PROVE  DelegatorSound(d)' /\ \A k \in CandidateAccounts \ {c} : SameStake(d, k)
  BY <1>3, HoldingSound DEF Holding
<1>4. /\ \A d \in DelegatorAccounts : DelegatorSound(d)'
      /\ \A d \in DelegatorAccounts, k \in CandidateAccounts \ {c} : SameStake(d, k)
  BY <1>1, <1>2, <1>3 DEF Losing
<1>5. \A d \in DelegatorAccounts, k \in CandidateAccounts :
                 (k # c \/ d \notin L) /\ Delegates(d, k) => Delegates(d, k)'
  BY <1>2, <1>4 DEF Losing, SameStake
<1> QED BY <1>1, <1>2, <1>4, <1>5

LEMMA LoseStep ==
    ASSUME Staked, NEW c \in CandidateAccounts, NEW L \in SUBSET DelegatorAccounts, Losing(c, L), Shaped',
           BookSound(c)',
           \A k \in CandidateAccounts \ {c} :
              /\ k \in Candidates' <=> k \in Candidates
              /\ k \in Candidates => candidateInfo'[k] = candidateInfo[k],
           \A k \in CandidateAccounts : collatorLock'[k] = collatorLock[k] \/ collatorLock'[k] = 0,
           UNCHANGED balance, totalStaked' <= AllLocked',
           \A d \in L :
              \/ HasRequest(d, c) /\ requests[<<c, d>>].when <= round
              \/ c \notin Candidates' /\ candidateInfo[c].leaveAt <= round
              \/ ~Delegates(d, c)' /\ KickedByLarger(d, c)
    PROVE  Kept
<1>1. RequestsShaped'
  BY DEF Shaped
<1>2. /\ \A d \in DelegatorAccounts : DelegatorSound(d)'
      /\ \A d \in DelegatorAccounts, k \in CandidateAccounts \ {c} : SameStake(d, k)
      /\ \A d \in DelegatorAccounts \ L : Untouched(d) => SameStake(d, c)
  BY <1>1, LosingStakes
<1>3. \A k \in CandidateAccounts : BookSound(k)'
  <2>1. \A k \in CandidateAccounts \ {c} : HeldBy(k)' = HeldBy(k)
    BY <1>2, HeldSame
  <2>2. \A k \in CandidateAccounts \ {c} : BookSound(k)'
    BY <2>1, BookKept
  <2> QED BY <2>2
<1>4. \A k \in CandidateAccounts : collatorLock'[k] <= balance'[k]
  BY DEF Staked, Shaped, Accounts
<1>5. ASSUME NEW k \in CandidateAccounts, NEW d \in DelegatorAccounts,
             DelegationOf(d, k)' < DelegationOf(d, k)
      PROVE  k = c /\ d \in L
  <2>1. ~SameStake(d, k)
    BY <1>5, SameStays
  <2>2. k = c
    BY <1>2, <2>1
  <2>3. CASE d \notin L
    <3>1. Holding(d, c) /\ ~Delegates(d, c)
      BY <1>2, <2>1, <2>2, <2>3 DEF Losing
    <3>2. DelegationOf(d, c) = 0
      BY <3>1 DEF DelegationOf
    <3>3. DelegationOf(d, c)' = delegatorState'[d].delegations[c]
      BY <3>1 DEF DelegationOf, Holding
    <3>4. delegatorState'[d].delegations[c] \in Nat
      BY <3>1 DEF Holding, RecordFits, Delegates
    <3>5. DelegationOf(d, c)' < DelegationOf(d, c)
      BY <1>5, <2>2
    <3> QED BY <3>2, <3>3, <3>4, <3>5
  <2> QED BY <2>2, <2>3
<1>6. EndsRightly
  BY <1>5 DEF EndsRightly
<1> QED BY <1>2, <1>3, <1>4, <1>6 DEF Staked, Kept

LEMMA ExecuteRevokeKeeps ==
    ASSUME Staked, IInv, NEW d \in DelegatorAccounts, NEW c \in CandidateAccounts, ExecuteRevoke(d, c)
    PROVE  Kept
<1> DEFINE L == {d}
           amount == requests[<<c, d>>].amount
           b == candidateInfo[c].book
           book == RemoveDelegation(b, d, amount)
           left == IF OnlyDelegation(d) THEN {d} ELSE {}
<1>1. /\ RevokePending(d, c) /\ requests[<<c, d>>].when <= round
      /\ StoreBook(c, book) /\ totalStaked' = Monus(totalStaked, amount)
      /\ delegatorState' = StatesWithout(c, L, left)
      /\ delegatorLock' = LocksWithout(c, L)
      /\ requests' = RequestsWithout(c, L)
      /\ autoCompound' = CompoundsWithout(c, L)
      /\ UNCHANGED <<round, collatorLock, balance>>
  BY DEF ExecuteRevoke, IsDue
<1>2. HasRequest(d, c) /\ Delegates(d, c) /\ amount = delegatorState[d].delegations[c]
  BY <1>1 DEF RevokePending, Staked, DelegatorSound, RequestFits
<1>3. c \in Candidates /\ d \in Delegators /\ amount \in Nat /\ EntryOf(d, c) \in HeldBy(c)
  BY <1>2, Listed
<1>4. L \in SUBSET DelegatorAccounts
  OBVIOUS
<1>5. /\ RequestsShaped'
      /\ <<c, d>> \notin DOMAIN requests' /\ SameAskedBut(d, requests, requests', {c})
      /\ \A k \in DelegatorAccounts \ {d} : SameAskedBut(k, requests, requests', {})
  BY <1>1, <1>4, RequestsLost
<1>6. /\ Delegators' = Delegators \ left
      /\ \A k \in Delegators \ {d} : delegatorState'[k] = delegatorState[k]
      /\ d \in Delegators' => delegatorState'[d] = Remaining(d, c)
  BY <1>1 DEF StatesWithout, Delegators
<1>7. /\ DOMAIN delegatorLock' = DelegatorAccounts /\ delegatorLock'[d] = Remaining(d, c).total
      /\ \A k \in DelegatorAccounts \ {d} : delegatorLock'[k] = delegatorLock[k]
  BY <1>1 DEF LocksWithout
<1>8. Losing(c, L)
  <2>1. Lost(d, c)
    BY <1>1, <1>2, <1>3, <1>5, <1>6, <1>7 DEF Lost
  <2>2. ASSUME NEW k \in DelegatorAccounts \ L PROVE Untouched(k)
    <3>1. balance'[k] \in Nat /\ balance[k] <= balance'[k]
      BY <1>1, BalanceSame DEF Accounts
    <3> QED BY <1>5, <1>6, <1>7, <3>1 DEF Untouched
  <2> QED BY <2>1, <2>2 DEF Losing
<1>9. /\ ~Delegates(d, c)' /\ delegatorLock'[d] = delegatorLock[d] - amount
      /\ \A k \in DelegatorAccounts \ L : SameStake(k, c)
      /\ \A e \in DelegatorAccounts, k \in CandidateAccounts :
                 (k # c \/ e \notin L) /\ Delegates(e, k) => Delegates(e, k)'
  <2>1. \A k \in DelegatorAccounts \ L : Untouched(k)
    <3> SUFFICES ASSUME NEW k \in DelegatorAccounts \ L PROVE Untouched(k)
      OBVIOUS
    <3>1. balance'[k] \in Nat /\ balance[k] <= balance'[k]
      BY <1>1, BalanceSame DEF Accounts
    <3> QED BY <1>5, <1>6, <1>7, <3>1 DEF Untouched
  <2>2. d \in L
    OBVIOUS
  <2> HIDE DEF L
  <2> QED BY <1>2, <1>4, <1>5, <1>8, <2>1, <2>2, LosingStakes
<1>10. /\ delegatorLock' \in [DelegatorAccounts -> Nat]
       /\ delegatorLock[d] \in Nat /\ amount <= delegatorLock[d]
  <2>1. Remaining(d, c).total \in Nat
    BY <1>2, RemainingIs, RecordFacts DEF LeftAs
  <2>2. delegatorLock \in [DelegatorAccounts -> Nat]
    BY DEF Staked, Shaped
  <2>3. delegatorLock' \in [DelegatorAccounts -> Nat]
    BY <1>1, <2>1, <2>2 DEF LocksWithout
  <2>4. delegatorLock[d] \in Nat /\ delegatorLock[d] - amount \in Nat
    BY <1>7, <1>9, <2>1, <2>2
  <2> HIDE DEF amount
  <2> QED BY <1>3, <2>3, <2>4
<1>11. totalStaked \in Nat /\ totalStaked' \in Nat /\ (totalStaked' = 0 \/ totalStaked' = totalStaked - amount)
  <2>1. totalStaked \in Nat
    BY DEF Staked, Shaped
  <2> HIDE DEF amount
  <2> QED BY <1>1, <1>3, <2>1 DEF Monus
<1>12. Shaped'
  <2>1. \A p \in DOMAIN autoCompound' :
          p \in Pairs /\ autoCompound'[p] \in 1 .. 100 /\ Delegates(p[2], p[1])'
    <3> HIDE DEF L
    <3> QED BY <1>1, <1>4, <1>9, CompoundsLost
  <2>2. Shaped
    BY DEF Staked
  <2> QED BY <1>1, <1>5, <1>6, <1>10, <1>11, <2>1, <2>2 DEF Shaped
<1>13. BookHolds(book, HeldBy(c)')
  <2>1. HeldBy(c)' = HeldBy(c) \ {EntryOf(d, c)}
    <3>1. HeldBy(c)' = {e \in HeldBy(c) : e.owner \notin L}
      <4>1. \A k \in DelegatorAccounts \cap L : ~Delegates(k, c)'
        BY <1>9
      <4> HIDE DEF L, HeldBy
      <4> QED BY <1>9, <4>1, HeldLess
    <3>2. {e \in HeldBy(c) : e.owner \notin {d}} = HeldBy(c) \ {EntryOf(d, c)}
      BY <1>2, HeldUnique
    <3> HIDE DEF HeldBy
    <3> QED BY <3>1, <3>2
  <2>2. PICK T, B, x : BookIs(b, DelegatorAccounts, T, B, x) /\ T \cup B = HeldBy(c)
    BY <1>3, BookOf
  <2>3. PICK e : e = EntryOf(d, c) /\ e \in T \cup B
    BY <1>3, <2>2
  <2>4. e.owner = d /\ e.amount = amount
    BY <1>2, <2>3 DEF EntryOf
  <2> HIDE DEF b, HeldBy
  <2>5. Became(RemoveDelegation(b, e.owner, e.amount), b, DelegatorAccounts, (T \cup B) \ {e})
    BY <2>2, <2>3, RemoveIs
  <2>6. Became(book, b, DelegatorAccounts, HeldBy(c) \ {e})
    BY Zenon, <2>2, <2>4, <2>5 DEF book
  <2>7. Became(book, b, DelegatorAccounts, HeldBy(c)')
    BY Zenon, <2>1, <2>3, <2>6
  <2> HIDE DEF book
  <2> QED BY <2>7 DEF Became, BookHolds
<1>14. /\ BookSound(c)'
       /\ \A k \in CandidateAccounts \ {c} :
              /\ k \in Candidates' <=> k \in Candidates
              /\ k \in Candidates => candidateInfo'[k] = candidateInfo[k]
  <2> HIDE DEF book
  <2> QED BY <1>1, <1>3, <1>13, BookStored
<1>15. totalStaked' <= AllLocked'
  <2> DEFINE a == SumFunction(delegatorLock)
             f == SumFunction(delegatorLock')
             s == SumFunction(collatorLock)
             x == delegatorLock[d]
             y == delegatorLock'[d]
             t == totalStaked
             u == totalStaked'
  <2>1. f = (a - x) + y /\ a \in Nat /\ f \in Nat /\ x \in Nat /\ y \in Nat
    <3>1. Shaped
      BY DEF Staked
    <3>2. /\ Moves(delegatorLock, delegatorLock', d)
          /\ a \in Nat /\ f \in Nat /\ x \in Nat /\ y \in Nat
      BY <1>7, <1>12, <3>1, DelegatorLockMoves
    <3>3. f = (a - x) + y
      BY Zenon, <3>2 DEF Moves
    <3> QED BY <3>2, <3>3
  <2>2. AllLocked = s + a /\ s \in Nat
    BY LockedFacts DEF Staked
  <2>3. AllLocked' = s + f
    BY <1>1 DEF AllLocked
  <2>4. t \in Nat /\ t <= AllLocked
    BY DEF Staked, Shaped
  <2>5. u \in Nat /\ (u = 0 \/ u = t - amount) /\ y = x - amount /\ amount \in Nat
    BY <1>3, <1>9, <1>11
  <2> HIDE DEF a, f, s, x, y, t, u, amount
  <2>6. t <= s + a
    BY <2>2, <2>4
  <2>7. u <= s + f
    BY <2>1, <2>2, <2>4, <2>5, <2>6
  <2> QED BY <2>3, <2>7 DEF u
<1>16. \A e \in L : HasRequest(e, c) /\ requests[<<c, e>>].when <= round
  BY <1>1, <1>2
<1> HIDE DEF L
<1> QED BY <1>1, <1>4, <1>8, <1>12, <1>14, <1>15, <1>16, LoseStep

-----------------------------------------------------------------------------
(* A candidate that leaves                                                 *)

\* Whom the book of a leaving candidate returns the stake to.
LEMMA ReturnedIs ==
    ASSUME Staked, NEW c \in Candidates, c \in CandidateAccounts
    PROVE  ReturnedTo(candidateInfo[c].book) = {d \in DelegatorAccounts : Delegates(d, c)}
<1> DEFINE b == candidateInfo[c].book
<1>1. PICK T, B, x : BookIs(b, DelegatorAccounts, T, B, x) /\ T \cup B = HeldBy(c)
  BY BookOf
<1>2. TopIs(b, DelegatorAccounts, T) /\ BottomIs(b, DelegatorAccounts, B, x) /\ x \in Int
  BY <1>1, BookFacts
<1> HIDE DEF b
<1>3. \A who : InTop(b, who) <=> \E e \in T : e.owner = who
  BY <1>2, TopChanges
<1>4. \A who : InBottom(b, who) <=> \E e \in B : e.owner = who
  BY <1>2, BottomChanges
<1>5. \A who : who \in ReturnedTo(b) <=> \E e \in HeldBy(c) : e.owner = who
  BY <1>1, <1>3, <1>4 DEF ReturnedTo, InTop, InBottom
<1>6. \A who : who \in ReturnedTo(b) <=> who \in DelegatorAccounts /\ Delegates(who, c)
  BY <1>5, HeldFacts
<1> QED BY <1>6 DEF b

\* What the delegators lose with a candidate is what its lists hold.
LossIs(c, w, L) ==
    /\ SumFunctionOnSet(w, L) \in Nat
    /\ SumFunctionOnSet(w, L) <= candidateInfo[c].book.top.total + candidateInfo[c].book.bottom.total
    /\ candidateInfo[c].book.top.total + candidateInfo[c].book.bottom.total \in Nat

LEMMA LossCovered ==
    ASSUME Staked, NEW c \in Candidates, c \in CandidateAccounts,
           NEW L, L = {d \in DelegatorAccounts : Delegates(d, c)},
           NEW w, \A d \in L : w[d] = delegatorState[d].delegations[c]
    PROVE  LossIs(c, w, L)
<1> DEFINE b == candidateInfo[c].book
           H == HeldBy(c)
           m == [e \in H |-> e.owner]
           g == [e \in H |-> e.amount]
<1>1. PICK T, B, x : BookIs(b, DelegatorAccounts, T, B, x) /\ T \cup B = H
  BY BookOf
<1> HIDE DEF b
<1>2. /\ TopIs(b, DelegatorAccounts, T) /\ BottomIs(b, DelegatorAccounts, B, x) /\ x \in Nat
      /\ IsFiniteSet(T) /\ IsFiniteSet(B)
      /\ T \in SUBSET Entries(DelegatorAccounts) /\ B \in SUBSET Entries(DelegatorAccounts)
      /\ \A e \in T : \A f \in B : e # f
  BY <1>1, BookFacts
<1>3. b.top.total = Weight(T) + 0 /\ b.bottom.total = Weight(B) + x
  BY <1>2 DEF TopIs, BottomIs, Holds
<1>4. Weight(T) \in Nat /\ Weight(B) \in Nat
  BY <1>2, WeightNat
<1>5. Weight(T \cup B) = Weight(T) + Weight(B)
  BY <1>2, WeightDivides
<1>6. IsFiniteSet(H)
  <2> HIDE DEF H
  <2> QED BY <1>1, <1>2, FS_Union
<1>7. /\ \A e \in H : m[e] \in L /\ g[e] = w[m[e]]
      /\ \A d \in L : w[d] \in Int /\ \E e \in H : d = m[e]
      /\ \A e, f \in H : m[e] = m[f] => e = f
  <2>1. ASSUME NEW e \in H PROVE m[e] \in L /\ g[e] = w[m[e]] /\ e = EntryOf(m[e], c)
    BY <2>1, HeldFacts
  <2>2. ASSUME NEW d \in L PROVE w[d] \in Int /\ \E e \in H : d = m[e]
    <3>1. EntryOf(d, c) \in H /\ EntryOf(d, c).owner = d
      BY HeldFacts
    <3>2. delegatorState[d].delegations[c] \in Nat
      BY Listed
    <3> QED BY <3>1, <3>2
  <2> HIDE DEF H, m, g
  <2>3. \A e, f \in H : m[e] = m[f] => e = f
    BY <2>1
  <2> QED BY <2>1, <2>2, <2>3
<1>8. Weight(H) = SumFunctionOnSet(g, H)
  BY DEF Weight
<1> HIDE DEF H, m, g
<1>9. SumFunctionOnSet(g, H) = SumFunctionOnSet(w, L)
  BY <1>6, <1>7, SumRenamed
<1>10. SumFunctionOnSet(w, L) = Weight(T) + Weight(B)
  BY <1>1, <1>5, <1>8, <1>9
<1> QED BY <1>2, <1>3, <1>4, <1>10 DEF LossIs, b

LEMMA LeaveKeeps ==
    ASSUME Staked, IInv, NEW c \in CandidateAccounts, ExecuteLeaveCandidates(c)
    PROVE  Kept
<1> DEFINE b == candidateInfo[c].book
           L == ReturnedTo(b)
           left == {d \in L : Remaining(d, c).total = 0}
           gone == b.bond + b.top.total + b.bottom.total
<1>1. /\ c \in Candidates /\ candidateInfo[c].leaveAt <= round
      /\ delegatorState' = StatesWithout(c, L, left)
      /\ delegatorLock' = LocksWithout(c, L)
      /\ totalStaked' = Monus(totalStaked, gone)
      /\ requests' = RequestsWithout(c, DelegatorAccounts)
      /\ autoCompound' = CompoundsWithout(c, DelegatorAccounts)
      /\ candidateInfo' = Minus(candidateInfo, {c})
      /\ collatorLock' = [collatorLock EXCEPT ![c] = 0]
      /\ UNCHANGED <<round, candidatePool, balance>>
  BY DEF ExecuteLeaveCandidates, DueToLeave
<1>2. L = {d \in DelegatorAccounts : Delegates(d, c)}
  BY <1>1, ReturnedIs
<1>3. L \in SUBSET DelegatorAccounts /\ \A d \in DelegatorAccounts : d \in L <=> Delegates(d, c)
  BY <1>2
<1> HIDE DEF L
<1>4. /\ RequestsShaped'
      /\ \A d \in L : <<c, d>> \notin DOMAIN requests' /\ SameAskedBut(d, requests, requests', {c})
      /\ \A d \in DelegatorAccounts \ L : SameAskedBut(d, requests, requests', {})
  <2>1. \A d \in DelegatorAccounts \ L : ~HasRequest(d, c)
    BY <1>3 DEF Staked, DelegatorSound
  <2> DEFINE M == DelegatorAccounts
  <2>2. M \in SUBSET DelegatorAccounts /\ requests' = RequestsWithout(c, M)
    BY <1>1
  <2>3. /\ RequestsShaped'
        /\ \A d \in M : <<c, d>> \notin DOMAIN requests' /\ SameAskedBut(d, requests, requests', {c})
        /\ \A d \in DelegatorAccounts :
                  d \notin M \/ ~HasRequest(d, c) => SameAskedBut(d, requests, requests', {})
    <3> HIDE DEF M
    <3> QED BY <2>2, RequestsLost
  <2> QED BY <1>3, <2>1, <2>3
<1>5. \A d \in L : /\ d \in left <=> OnlyDelegation(d)
                   /\ Remaining(d, c).total \in Nat
                   /\ delegatorState[d].delegations[c] \in Nat /\ d \in Delegators
  <2> SUFFICES ASSUME NEW d \in L
               PROVE  /\ d \in left <=> OnlyDelegation(d)
                      /\ Remaining(d, c).total \in Nat
                      /\ delegatorState[d].delegations[c] \in Nat /\ d \in Delegators
    OBVIOUS
  <2>1. d \in DelegatorAccounts /\ Delegates(d, c)
    BY <1>3
  <2>2. Remaining(d, c).total = 0 <=> OnlyDelegation(d)
    BY <2>1, RemainingIs
  <2>3. Remaining(d, c).total \in Nat
    BY <2>1, RemainingIs, RecordFacts DEF LeftAs
  <2> QED BY <2>1, <2>2, <2>3, Listed
<1>6. left \subseteq L
  OBVIOUS
<1> HIDE DEF left
<1>7. /\ Delegators' = Delegators \ left
      /\ \A d \in Delegators \ L : delegatorState'[d] = delegatorState[d]
      /\ \A d \in Delegators' \cap L : delegatorState'[d] = Remaining(d, c)
  BY <1>1, <1>6 DEF StatesWithout, Delegators
<1>8. /\ DOMAIN delegatorLock' = DelegatorAccounts
      /\ \A d \in L : delegatorLock'[d] = Remaining(d, c).total
      /\ \A d \in DelegatorAccounts \ L : delegatorLock'[d] = delegatorLock[d]
  BY <1>1, <1>3 DEF LocksWithout
<1>9. \A d \in DelegatorAccounts \ L : Untouched(d)
  <2> SUFFICES ASSUME NEW d \in DelegatorAccounts \ L PROVE Untouched(d)
    OBVIOUS
  <2>1. balance'[d] \in Nat /\ balance[d] <= balance'[d]
    BY <1>1, BalanceSame DEF Accounts
  <2> QED BY <1>4, <1>6, <1>7, <1>8, <2>1 DEF Untouched
<1>10. Losing(c, L)
  <2>1. ASSUME NEW d \in DelegatorAccounts \cap L PROVE Lost(d, c)
    BY <1>1, <1>3, <1>4, <1>5, <1>7, <1>8 DEF Lost
  <2> QED BY <1>9, <2>1 DEF Losing
<1>11. /\ \A d \in L : /\ ~Delegates(d, c)'
                       /\ delegatorLock'[d] = delegatorLock[d] - delegatorState[d].delegations[c]
       /\ \A d \in DelegatorAccounts \ L : SameStake(d, c)
       /\ \A d \in DelegatorAccounts, k \in CandidateAccounts :
                 (k # c \/ d \notin L) /\ Delegates(d, k) => Delegates(d, k)'
  BY <1>3, <1>4, <1>9, <1>10, LosingStakes
<1>12. /\ delegatorLock' \in [DelegatorAccounts -> Nat] /\ delegatorLock \in [DelegatorAccounts -> Nat]
       /\ collatorLock \in [CandidateAccounts -> Nat] /\ collatorLock' \in [CandidateAccounts -> Nat]
  <2>1. /\ delegatorLock \in [DelegatorAccounts -> Nat] /\ collatorLock \in [CandidateAccounts -> Nat]
    BY DEF Staked, Shaped
  <2>2. delegatorLock' \in [DelegatorAccounts -> Nat]
    BY <1>1, <1>3, <1>5, <2>1 DEF LocksWithout
  <2>3. collatorLock' \in [CandidateAccounts -> Nat]
    BY <1>1, <2>1
  <2> QED BY <2>1, <2>2, <2>3
<1>13. HeldBy(c)' = {}
  <2>1. \A d \in DelegatorAccounts : ~Delegates(d, c)'
    BY <1>3, <1>11 DEF SameStake
  <2> QED BY <2>1 DEF HeldBy
<1>14. /\ c \notin Candidates' /\ BookSound(c)'
       /\ \A k \in CandidateAccounts \ {c} :
              /\ k \in Candidates' <=> k \in Candidates
              /\ k \in Candidates => candidateInfo'[k] = candidateInfo[k]
  <2>1. DOMAIN candidateInfo' = Candidates \ {c} /\ \A k \in Candidates \ {c} : candidateInfo'[k] = candidateInfo[k]
    BY <1>1 DEF Minus, Restrict, Candidates
  <2>2. Candidates' = Candidates \ {c}
    BY <2>1 DEF Candidates
  <2>3. BookSound(c)'
    <3> HIDE DEF HeldBy
    <3> QED BY <1>13, <2>2 DEF BookSound
  <2> QED BY <2>1, <2>2, <2>3
<1> DEFINE w == [d \in DelegatorAccounts |-> IF d \in L THEN delegatorState[d].delegations[c] ELSE 0]
           lists == b.top.total + b.bottom.total
           loss == SumFunctionOnSet(w, L)
<1>15. loss \in Nat /\ loss <= lists /\ lists \in Nat
  <2>1. \A d \in L : w[d] = delegatorState[d].delegations[c]
    BY <1>3
  <2> HIDE DEF w
  <2>2. LossIs(c, w, L)
    BY <1>1, <1>2, <2>1, LossCovered
  <2> QED BY <2>2 DEF LossIs
<1>16. b.bond \in Nat /\ collatorLock[c] = b.bond /\ gone = b.bond + lists
  <2>1. b.bond \in Nat /\ collatorLock[c] = b.bond
    BY <1>1 DEF IInv, SelfBondsLocked, InfoSound
  <2>2. PICK T, B, x : BookIs(b, DelegatorAccounts, T, B, x) /\ T \cup B = HeldBy(c)
    BY <1>1, BookOf
  <2> HIDE DEF b
  <2>3. /\ TopIs(b, DelegatorAccounts, T) /\ BottomIs(b, DelegatorAccounts, B, x) /\ x \in Nat /\ x \in Int
    BY <2>2, BookFacts
  <2>4. b.top.total = Weight(T) + 0 /\ b.bottom.total = Weight(B) + x /\ Weight(T) \in Nat /\ Weight(B) \in Nat
    <3>1. Weight(T) \in Nat
      BY <2>3, TopFacts
    <3>2. Weight(B) \in Nat
      BY <2>3, BottomFacts
    <3>3. b.top.total = Weight(T) + 0 /\ b.bottom.total = Weight(B) + x
      BY <2>3 DEF TopIs, BottomIs, Holds
    <3> QED BY <3>1, <3>2, <3>3
  <2>5. b.bond + b.top.total + b.bottom.total = b.bond + (b.top.total + b.bottom.total)
    BY <2>1, <2>3, <2>4
  <2> QED BY <2>1, <2>5
<1>17. SumFunction(delegatorLock) = SumFunction(delegatorLock') + loss
  <2> DEFINE S == DelegatorAccounts
             f == delegatorLock'
             h == delegatorLock
  <2>1. IsFiniteSet(S) /\ L \in SUBSET S /\ DOMAIN f = S /\ DOMAIN h = S
    BY <1>3, <1>12, AccountsAssumption
  <2>2. \A d \in S : f[d] \in Int /\ w[d] \in Int /\ h[d] = f[d] + w[d]
    <3> SUFFICES ASSUME NEW d \in S PROVE f[d] \in Int /\ w[d] \in Int /\ h[d] = f[d] + w[d]
      OBVIOUS
    <3>1. f[d] \in Nat /\ h[d] \in Nat
      BY <1>12
    <3>2. CASE d \in L
      <4>1. w[d] = delegatorState[d].delegations[c] /\ w[d] \in Nat
        BY <1>5, <3>2
      <4>2. f[d] = h[d] - w[d]
        BY <1>11, <3>2, <4>1
      <4> HIDE DEF f, h, w
      <4> QED BY <3>1, <4>1, <4>2
    <3>3. CASE d \notin L
      <4>1. w[d] = 0 /\ f[d] = h[d]
        BY <1>8, <3>3
      <4> HIDE DEF f, h, w
      <4> QED BY <3>1, <4>1
    <3> QED BY <3>2, <3>3
  <2>3. \A d \in S \ L : w[d] = 0
    OBVIOUS
  <2> HIDE DEF S, f, h, w
  <2>4. SumFunctionOnSet(h, S) = SumFunctionOnSet(f, S) + SumFunctionOnSet(w, S)
    BY <2>1, <2>2, SumPlus
  <2>5. SumFunctionOnSet(w, S) = loss
    BY <2>1, <2>2, <2>3, SumZero
  <2>6. SumFunction(h) = SumFunctionOnSet(h, S) /\ SumFunction(f) = SumFunctionOnSet(f, S)
    BY <2>1, SumIs
  <2> QED BY <2>4, <2>5, <2>6 DEF f, h
<1>18. totalStaked \in Nat /\ totalStaked' \in Nat /\ (totalStaked' = 0 \/ totalStaked' = totalStaked - gone)
  <2>1. totalStaked \in Nat
    BY DEF Staked, Shaped
  <2> HIDE DEF gone, lists, b
  <2>2. gone \in Nat
    BY <1>15, <1>16
  <2> QED BY <1>1, <2>1, <2>2 DEF Monus
<1>19. Shaped'
  <2>1. \A p \in DOMAIN autoCompound' :
          p \in Pairs /\ autoCompound'[p] \in 1 .. 100 /\ Delegates(p[2], p[1])'
    <3> DEFINE M == DelegatorAccounts
    <3>1. M \in SUBSET DelegatorAccounts /\ autoCompound' = CompoundsWithout(c, M)
      BY <1>1
    <3>2. \A k \in CandidateAccounts, d \in DelegatorAccounts :
              (k # c \/ d \notin M) /\ Delegates(d, k) => Delegates(d, k)'
      BY <1>11
    <3> HIDE DEF M
    <3> QED BY <3>1, <3>2, CompoundsLost
  <2>2. Shaped
    BY DEF Staked
  <2> QED BY <1>1, <1>4, <1>7, <1>12, <1>18, <2>1, <2>2 DEF Shaped
<1>20. /\ \A k \in CandidateAccounts : collatorLock'[k] = collatorLock[k] \/ collatorLock'[k] = 0
       /\ \A k \in CandidateAccounts \ {c} : collatorLock'[k] = collatorLock[k]
       /\ collatorLock'[c] = 0
  BY <1>1, <1>12
<1>21. totalStaked' <= AllLocked'
  <2> DEFINE a == SumFunction(delegatorLock)
             f == SumFunction(delegatorLock')
             s == SumFunction(collatorLock)
             v == SumFunction(collatorLock')
             x == collatorLock[c]
             y == collatorLock'[c]
             t == totalStaked
             u == totalStaked'
  <2>1. v = (s - x) + y /\ s \in Nat /\ v \in Nat /\ x \in Nat /\ y = 0
    <3>1. Shaped
      BY DEF Staked
    <3>2. /\ Moves(collatorLock, collatorLock', c)
          /\ s \in Nat /\ v \in Nat /\ x \in Nat
      BY <1>19, <1>20, <3>1, CollatorLockMoves
    <3>3. v = (s - x) + y
      BY Zenon, <3>2 DEF Moves
    <3> QED BY <1>20, <3>2, <3>3
  <2>2. AllLocked = s + a /\ a \in Nat
    BY LockedFacts DEF Staked
  <2>3. f \in Nat
    <3> DEFINE g == delegatorLock'
    <3>1. DOMAIN g = DelegatorAccounts /\ \A d \in DelegatorAccounts : g[d] \in Nat
      BY <1>12
    <3> HIDE DEF g
    <3>2. SumFunction(g) \in Nat
      BY <3>1, SumIs, SumNat, AccountsAssumption
    <3> QED BY <3>2 DEF g
  <2>4. AllLocked' = v + f
    BY DEF AllLocked
  <2>5. t \in Nat /\ t <= AllLocked
    BY DEF Staked, Shaped
  <2>6. a = f + loss /\ x = b.bond
    BY <1>16, <1>17
  <2>7. u \in Nat /\ (u = 0 \/ u = t - gone)
    BY <1>18
  <2> HIDE DEF a, f, s, v, x, y, t, u, loss, lists, gone, b, w
  <2>8. t <= s + a
    BY <2>2, <2>5
  <2>9. u <= v + f
    BY <1>15, <1>16, <2>1, <2>2, <2>3, <2>5, <2>6, <2>7, <2>8
  <2> QED BY <2>4, <2>9 DEF u
<1>22. UNCHANGED balance
  BY <1>1
<1> QED BY <1>1, <1>3, <1>10, <1>14, <1>19, <1>20, <1>21, <1>22, LoseStep

-----------------------------------------------------------------------------
(* A new delegation                                                        *)

\* The record a new delegation is added to.
OwnOf(d) == IF d \in Delegators THEN delegatorState[d] ELSE NoDelegations

LEMMA OwnFacts ==
    ASSUME Staked, NEW d \in DelegatorAccounts
    PROVE  /\ RecordFits(OwnOf(d)) /\ OwnOf(d).total \in Nat
           /\ OwnOf(d).lessTotal = AskedBy(d, requests)
           /\ delegatorLock[d] = OwnOf(d).total /\ OwnOf(d).total <= balance[d]
           /\ d \notin Delegators => DOMAIN OwnOf(d).delegations = {}
<1>1. DelegatorSound(d)
  BY DEF Staked
<1>2. CASE d \in Delegators
  BY <1>1, <1>2, RecordFacts DEF OwnOf, DelegatorSound
<1>3. CASE d \notin Delegators
  <2>1. OwnOf(d) = NoDelegations /\ delegatorLock[d] = 0 /\ 0 <= balance[d]
    BY <1>1, <1>3 DEF OwnOf, DelegatorSound
  <2>2. /\ DOMAIN NoDelegations = RecordFields /\ DOMAIN NoDelegations.delegations = {}
        /\ NoDelegations.total = 0 /\ NoDelegations.lessTotal = 0
    BY DEF NoDelegations, RecordFields
  <2>3. RecordFits(NoDelegations)
    <3> DEFINE f == NoDelegations.delegations
    <3>1. SumFunction(f) = 0
      <4>1. DOMAIN f = {}
        BY <2>2
      <4> HIDE DEF f
      <4> QED BY <4>1, SumIs, SumEmpty
    <3> QED BY <2>2, <3>1 DEF RecordFits
  <2>4. AskedBy(d, requests) = 0
    <3> DEFINE asked == requests
               R == {<<c, d>> : c \in {k \in CandidateAccounts : <<k, d>> \in DOMAIN asked}}
               f == [p \in R |-> asked[p].amount]
    <3>1. DOMAIN asked \subseteq Pairs /\ \A p \in DOMAIN asked : asked[p].amount \in Nat
      BY DEF Staked, Shaped, RequestsShaped, Requests
    <3>2. AskedBy(d, asked) = SumFunctionOnSet(f, R)
      BY <3>1, AskedFacts
    <3>3. R = {}
      BY <1>1, <1>3 DEF DelegatorSound, HasRequest, Delegates
    <3> HIDE DEF R, f
    <3> QED BY <3>2, <3>3, SumEmpty
  <2> QED BY <2>1, <2>2, <2>3, <2>4
<1> QED BY <1>2, <1>3

\* The book, when d comes and those of K, one at most, are pushed out.
MakesRoom(c, book, new, K) ==
    /\ BookHolds(book, (HeldBy(c) \ K) \cup {new})
    /\ K \subseteq HeldBy(c) /\ Kicked(candidateInfo[c].book) = {f.owner : f \in K}
    /\ \/ K = {} /\ LessTotalStaked(candidateInfo[c].book) = 0
       \/ \E f \in K : /\ K = {f} /\ f.amount < new.amount
                       /\ LessTotalStaked(candidateInfo[c].book) = f.amount

LEMMA BookTakes ==
    ASSUME Staked, NEW c \in Candidates, c \in CandidateAccounts, NEW d \in DelegatorAccounts,
           ~Delegates(d, c), NEW new \in Entries(DelegatorAccounts), new.owner = d,
           NEW b, b = candidateInfo[c].book, Accepts(b, new)
    PROVE  \E K : MakesRoom(c, AddDelegation(b, new), new, K)
<1>1. PICK T, B, x : BookIs(b, DelegatorAccounts, T, B, x) /\ T \cup B = HeldBy(c)
  BY BookOf
<1>2. \A y \in T \cup B : y.owner # new.owner
  BY <1>1, HeldFacts
<1>3. PICK K : Took(AddDelegation(b, new), b, DelegatorAccounts, T, B, x, new, K)
  BY <1>1, <1>2, AddIs
<1>4. MakesRoom(c, AddDelegation(b, new), new, K)
  <2>1. BookHolds(AddDelegation(b, new), (HeldBy(c) \ K) \cup {new})
    BY <1>1, <1>3 DEF Took, BookHolds
  <2>2. K \subseteq HeldBy(c)
    BY <1>1, <1>3 DEF Took
  <2> QED BY <1>3, <2>1, <2>2 DEF Took, MakesRoom
<1> QED BY <1>4

\* One lock is lowered and another raised.
LEMMA LocksTrade ==
    ASSUME Shaped, Shaped', NEW k \in DelegatorAccounts, NEW d \in DelegatorAccounts, k # d,
           \A e \in DelegatorAccounts \ {k, d} : delegatorLock'[e] = delegatorLock[e],
           NEW x \in Nat, delegatorLock'[k] = delegatorLock[k] - x,
           NEW y \in Nat, delegatorLock'[d] = delegatorLock[d] + y
    PROVE  /\ SumFunction(delegatorLock') + x = SumFunction(delegatorLock) + y
           /\ SumFunction(delegatorLock) \in Nat /\ SumFunction(delegatorLock') \in Nat
<1> DEFINE S == DelegatorAccounts
           f == delegatorLock
           g == delegatorLock'
           m == [f EXCEPT ![k] = g[k]]
<1>1. /\ IsFiniteSet(S) /\ DOMAIN f = S /\ DOMAIN g = S /\ DOMAIN m = S
      /\ \A e \in S : f[e] \in Nat /\ g[e] \in Nat
      /\ k \in S /\ d \in S
  BY AccountsAssumption DEF Shaped
<1>2. /\ m[k] = g[k] /\ m[d] = f[d] /\ \A e \in S \ {k} : m[e] = f[e]
      /\ \A e \in S \ {d} : m[e] = g[e]
  BY <1>1
<1>3. \A e \in S : m[e] \in Nat
  BY <1>1, <1>2
<1>4. g[k] = f[k] - x /\ g[d] = f[d] + y
  OBVIOUS
<1> HIDE DEF S, f, g, m
<1>5. Moves(f, m, k) /\ SumFunction(f) \in Nat /\ SumFunction(m) \in Nat
  BY <1>1, <1>2, <1>3, SumMoves
<1>6. Moves(m, g, d) /\ SumFunction(g) \in Nat
  BY <1>1, <1>2, <1>3, SumMoves
<1> DEFINE a == SumFunction(f)
           b == SumFunction(m)
           c == SumFunction(g)
<1>7. b = (a - f[k]) + g[k] /\ c = (b - f[d]) + g[d]
  BY Zenon, <1>2, <1>5, <1>6 DEF Moves
<1>8. a \in Nat /\ b \in Nat /\ c \in Nat /\ f[k] \in Nat /\ f[d] \in Nat
  BY <1>1, <1>5, <1>6
<1> HIDE DEF a, b, c
<1>9. c + x = a + y
  BY <1>4, <1>7, <1>8
<1> QED BY <1>8, <1>9 DEF a, c, f, g

LEMMA LocksRise ==
    ASSUME Shaped, Shaped', NEW d \in DelegatorAccounts,
           \A e \in DelegatorAccounts \ {d} : delegatorLock'[e] = delegatorLock[e],
           NEW y \in Nat, delegatorLock'[d] = delegatorLock[d] + y
    PROVE  /\ SumFunction(delegatorLock') = SumFunction(delegatorLock) + y
           /\ SumFunction(delegatorLock) \in Nat
<1> DEFINE a == SumFunction(delegatorLock)
           b == SumFunction(delegatorLock')
           u == delegatorLock[d]
           v == delegatorLock'[d]
<1>1. Moves(delegatorLock, delegatorLock', d) /\ a \in Nat /\ b \in Nat /\ u \in Nat
  BY DelegatorLockMoves
<1>2. b = (a - u) + v
  BY Zenon, <1>1 DEF Moves
<1>3. v = u + y
  OBVIOUS
<1> HIDE DEF a, b, u, v
<1>4. b = a + y
  BY <1>1, <1>2, <1>3
<1> QED BY <1>1, <1>4 DEF a, b

LEMMA DelegateKeeps ==
    ASSUME Staked, IInv, NEW d \in DelegatorAccounts, NEW c \in CandidateAccounts,
           NEW amount \in Amounts, NEW percent \in {0} \cup Percents, Delegate(d, c, amount, percent)
    PROVE  Kept
<1> DEFINE b == candidateInfo[c].book
           new == [owner |-> d, amount |-> amount]
           book == AddDelegation(b, new)
           own == OwnOf(d)
           L == Kicked(b)
           left == {k \in L : OnlyDelegation(k)}
           r == Grown(own, c, amount)
           p == <<c, d>>
<1>1. /\ c \in Candidates /\ ~Delegates(d, c) /\ amount >= MinDelegation
      /\ DelegatorStakable(d) >= amount /\ Accepts(b, new)
      /\ StoreBook(c, book)
      /\ delegatorState' = With(StatesWithout(c, L, left), d, r)
      /\ delegatorLock' = [LocksWithout(c, L) EXCEPT ![d] = own.total + amount]
      /\ requests' = RequestsWithout(c, L)
      /\ autoCompound' = IF percent = 0 THEN CompoundsWithout(c, L)
                         ELSE With(CompoundsWithout(c, L), p, percent)
      /\ totalStaked' = totalStaked + Monus(amount, LessTotalStaked(b))
      /\ UNCHANGED <<round, collatorLock, balance>>
  BY DEF Delegate, OwnOf
<1>2. amount \in Nat /\ percent \in 0 .. 100
  BY InputsAssumption
<1>3. PICK K : MakesRoom(c, book, new, K)
  <2>1. new \in Entries(DelegatorAccounts) /\ new.owner = d
    BY <1>2 DEF Entries
  <2> HIDE DEF new, b
  <2>2. Accepts(b, new) /\ b = candidateInfo[c].book
    BY <1>1 DEF b
  <2> QED BY <1>1, <2>1, <2>2, BookTakes
<1>4. /\ K \subseteq HeldBy(c) /\ L = {f.owner : f \in K}
      /\ L \in SUBSET DelegatorAccounts /\ d \notin L /\ \A k \in L : Delegates(k, c) /\ EntryOf(k, c) \in K
  <2>1. K \subseteq HeldBy(c) /\ L = {f.owner : f \in K}
    BY <1>3 DEF MakesRoom
  <2> HIDE DEF L
  <2>2. \A f \in K : /\ f.owner \in DelegatorAccounts /\ Delegates(f.owner, c)
                     /\ f = EntryOf(f.owner, c)
    BY <2>1, HeldFacts
  <2> QED BY <1>1, <2>1, <2>2
<1> HIDE DEF L, new, b, book
<1>5. /\ RequestsShaped'
      /\ \A k \in L : <<c, k>> \notin DOMAIN requests' /\ SameAskedBut(k, requests, requests', {c})
      /\ \A k \in DelegatorAccounts \ L : SameAskedBut(k, requests, requests', {})
  BY <1>1, <1>4, RequestsLost
<1>6. left \subseteq L
  OBVIOUS
<1>7. \A k \in L : k \in left <=> OnlyDelegation(k)
  OBVIOUS
<1> HIDE DEF left, r
<1>8. /\ Delegators' = (Delegators \ left) \cup {d} /\ delegatorState'[d] = r
      /\ \A k \in Delegators \ (L \cup {d}) : delegatorState'[k] = delegatorState[k]
      /\ \A k \in Delegators' \cap L : delegatorState'[k] = Remaining(k, c)
  <2>1. DOMAIN StatesWithout(c, L, left) = Delegators \ left
    BY DEF StatesWithout
  <2>2. \A k \in Delegators \ left : StatesWithout(c, L, left)[k] =
            IF k \in L THEN Remaining(k, c) ELSE delegatorState[k]
    BY DEF StatesWithout
  <2>3. Delegators' = (Delegators \ left) \cup {d} /\ delegatorState'[d] = r
    BY <1>1, <2>1 DEF With, Delegators
  <2>4. \A k \in Delegators \ left : k # d => delegatorState'[k] = StatesWithout(c, L, left)[k]
    BY <1>1, <2>1 DEF With
  <2> QED BY <1>4, <1>6, <2>2, <2>3, <2>4
<1>9. /\ RecordFits(own) /\ own.total \in Nat /\ own.lessTotal = AskedBy(d, requests)
      /\ delegatorLock[d] = own.total /\ own.total <= balance[d]
      /\ d \in Delegators => own = delegatorState[d]
      /\ d \notin Delegators => DOMAIN own.delegations = {}
      /\ c \notin DOMAIN own.delegations
  <2>1. c \notin DOMAIN own.delegations
    BY <1>1, OwnFacts DEF OwnOf, Delegates
  <2> QED BY <2>1, OwnFacts DEF OwnOf
<1> HIDE DEF own
<1>10. GrownTo(r, own, c, amount) /\ r.total = own.total + amount
  <2> DEFINE before == 0
  <2>1. /\ amount \in Int /\ before \in Nat /\ before + amount = amount /\ before + amount >= MinDelegation
        /\ before = IF c \in DOMAIN own.delegations THEN own.delegations[c] ELSE 0
    BY <1>1, <1>2, <1>9
  <2> HIDE DEF before
  <2>2. /\ GrownTo(Grown(own, c, amount), own, c, before + amount)
        /\ Grown(own, c, amount).total = own.total + amount
    BY <1>9, <2>1, RecordGrows
  <2> QED BY <2>1, <2>2 DEF r
<1>11. /\ Delegates(d, c)' /\ RecordFits(delegatorState'[d])
       /\ delegatorState'[d].delegations[c] = amount
       /\ \A k \in CandidateAccounts \ {c} : SameStake(d, k)
  <2>1. d \in Delegators' /\ GrownTo(delegatorState'[d], own, c, amount)
    BY <1>8, <1>10
  <2> QED BY <1>9, <2>1, GrownHolds
<1>12. /\ DOMAIN delegatorLock' = DelegatorAccounts /\ delegatorLock'[d] = own.total + amount
       /\ \A k \in L : delegatorLock'[k] = Remaining(k, c).total
       /\ \A k \in DelegatorAccounts \ (L \cup {d}) : delegatorLock'[k] = delegatorLock[k]
  <2>1. /\ DOMAIN LocksWithout(c, L) = DelegatorAccounts
        /\ \A k \in DelegatorAccounts : LocksWithout(c, L)[k] =
              IF k \in L THEN Remaining(k, c).total ELSE delegatorLock[k]
    BY DEF LocksWithout
  <2> QED BY <1>1, <1>4, <2>1
<1>13. own.total + amount <= balance[d] /\ own.total + amount \in Nat /\ balance[d] \in Nat
  <2>1. Monus(balance[d], own.total) >= amount
    BY <1>1 DEF DelegatorStakable, own, OwnOf, NoDelegations
  <2>2. balance[d] \in Nat
    BY DEF Staked, Shaped, Accounts
  <2> QED BY <1>2, <1>9, <2>1, <2>2 DEF Monus
<1>14. Holding(d, c)
  <2>1. AskedBy(d, requests') = AskedBy(d, requests) /\ SameAskedBut(d, requests, requests', {c})
    <3>1. SameAskedBut(d, requests, requests', {})
      BY <1>4, <1>5
    <3> QED BY <1>5, <3>1, AskedNow DEF SameAskedBut
  <2>2. p \notin DOMAIN requests'
    <3>1. ~HasRequest(d, c)
      BY <1>1 DEF Staked, DelegatorSound
    <3> QED BY <1>1, <3>1 DEF HasRequest, RequestsWithout, Minus, Restrict
  <2>3. delegatorState'[d].lessTotal = AskedBy(d, requests')
    BY <1>8, <1>9, <1>10, <2>1 DEF GrownTo
  <2>4. delegatorLock'[d] = delegatorState'[d].total /\ delegatorLock'[d] <= balance'[d]
    BY <1>1, <1>8, <1>10, <1>12, <1>13
  <2> QED BY <1>11, <2>1, <2>2, <2>3, <2>4 DEF Holding
<1>15. \A k \in DelegatorAccounts \ (L \cup {d}) : Untouched(k)
  <2> SUFFICES ASSUME NEW k \in DelegatorAccounts \ (L \cup {d}) PROVE Untouched(k)
    OBVIOUS
  <2>1. balance'[k] \in Nat /\ balance[k] <= balance'[k]
    BY <1>1, BalanceSame DEF Accounts
  <2> QED BY <1>5, <1>6, <1>8, <1>12, <2>1 DEF Untouched
<1>16. Losing(c, L)
  <2>1. ASSUME NEW k \in DelegatorAccounts \cap L PROVE Lost(k, c)
    <3>1. Delegates(k, c) /\ k \in Delegators /\ k # d
      BY <1>4 DEF Delegates
    <3> QED BY <1>1, <1>5, <1>7, <1>8, <1>12, <3>1 DEF Lost
  <2> QED BY <1>1, <1>14, <1>15, <2>1 DEF Losing
<1>17. /\ \A k \in L : /\ ~Delegates(k, c)'
                       /\ delegatorLock'[k] = delegatorLock[k] - delegatorState[k].delegations[c]
       /\ \A k \in DelegatorAccounts \ (L \cup {d}) : SameStake(k, c)
       /\ \A k \in DelegatorAccounts, e \in CandidateAccounts :
                 (e # c \/ k \notin L) /\ Delegates(k, e) => Delegates(k, e)'
  BY <1>4, <1>5, <1>15, <1>16, LosingStakes
<1>18. HeldBy(c)' = (HeldBy(c) \ K) \cup {new}
  <2>1. HeldBy(c)' = {e \in HeldBy(c) : e.owner \notin L \cup {d}} \cup {[owner |-> d, amount |-> amount]}
    <3>1. \A k \in DelegatorAccounts \cap L : ~Delegates(k, c)'
      BY <1>17
    <3>2. \A k \in DelegatorAccounts \ (L \cup {d}) : SameStake(k, c)
      BY <1>17
    <3>3. d \in DelegatorAccounts \ L
      BY <1>4
    <3>4. Delegates(d, c)' /\ delegatorState'[d].delegations[c] = amount
      BY <1>11
    <3> HIDE DEF HeldBy
    <3>5. HeldBy(c)' = HeldAnew(c, L, d, amount)
      BY <3>1, <3>2, <3>3, <3>4, HeldMore
    <3> QED BY <3>5 DEF HeldAnew
  <2>2. \A e \in HeldBy(c) : e.owner # d /\ (e.owner \in L <=> e \in K)
    <3> SUFFICES ASSUME NEW e \in HeldBy(c) PROVE e.owner # d /\ (e.owner \in L <=> e \in K)
      OBVIOUS
    <3>1. Delegates(e.owner, c) /\ e = EntryOf(e.owner, c)
      BY HeldFacts
    <3> QED BY <1>1, <1>4, <3>1
  <2> HIDE DEF HeldBy
  <2> QED BY <2>1, <2>2 DEF new
<1>19. /\ BookSound(c)'
       /\ \A k \in CandidateAccounts \ {c} :
              /\ k \in Candidates' <=> k \in Candidates
              /\ k \in Candidates => candidateInfo'[k] = candidateInfo[k]
  <2>1. BookHolds(book, HeldBy(c)')
    <3> HIDE DEF HeldBy
    <3> QED BY <1>3, <1>18 DEF MakesRoom
  <2> QED BY <1>1, <2>1, BookStored
<1>20. /\ delegatorLock' \in [DelegatorAccounts -> Nat]
  <2>1. delegatorLock \in [DelegatorAccounts -> Nat]
    BY DEF Staked, Shaped
  <2>2. \A k \in L : Remaining(k, c).total \in Nat
    BY <1>4, RemainingIs, RecordFacts DEF LeftAs
  <2>3. \A k \in DelegatorAccounts : delegatorLock'[k] \in Nat
    BY <1>12, <1>13, <2>1, <2>2
  <2>4. delegatorLock' = [k \in DelegatorAccounts |-> delegatorLock'[k]]
    BY <1>1 DEF LocksWithout
  <2> QED BY <2>3, <2>4
<1>21. /\ LessTotalStaked(b) \in Nat /\ totalStaked \in Nat /\ totalStaked' \in Nat
       /\ totalStaked' = totalStaked + Monus(amount, LessTotalStaked(b))
       /\ \/ L = {} /\ LessTotalStaked(b) = 0
          \/ \E k \in L : /\ L = {k} /\ delegatorState[k].delegations[c] < amount
                          /\ LessTotalStaked(b) = delegatorState[k].delegations[c]
  <2>1. \/ K = {} /\ LessTotalStaked(b) = 0
        \/ \E f \in K : /\ K = {f} /\ f.amount < amount /\ LessTotalStaked(b) = f.amount
    BY <1>3 DEF MakesRoom, new, b
  <2>2. totalStaked \in Nat
    BY DEF Staked, Shaped
  <2>3. \/ L = {} /\ LessTotalStaked(b) = 0
        \/ \E k \in L : /\ L = {k} /\ delegatorState[k].delegations[c] < amount
                        /\ LessTotalStaked(b) = delegatorState[k].delegations[c]
    <3>1. CASE K = {} /\ LessTotalStaked(b) = 0
      BY <1>4, <3>1
    <3>2. ASSUME NEW f \in K, K = {f}, f.amount < amount, LessTotalStaked(b) = f.amount
          PROVE  \E k \in L : /\ L = {k} /\ delegatorState[k].delegations[c] < amount
                              /\ LessTotalStaked(b) = delegatorState[k].delegations[c]
      <4>1. f.owner \in L /\ L = {f.owner}
        BY <1>4, <3>2
      <4>2. f.amount = delegatorState[f.owner].delegations[c]
        BY <1>4, HeldFacts
      <4> QED BY <3>2, <4>1, <4>2
    <3> QED BY <2>1, <3>1, <3>2
  <2>4. LessTotalStaked(b) \in Nat
    BY <1>4, <2>3, Listed
  <2> DEFINE z == LessTotalStaked(b)
  <2> HIDE DEF z
  <2>5. totalStaked' \in Nat /\ totalStaked' = totalStaked + Monus(amount, LessTotalStaked(b))
    <3>1. totalStaked' = totalStaked + Monus(amount, z)
      BY <1>1 DEF z
    <3>2. Monus(amount, z) \in Nat
      BY <1>2, <2>4 DEF Monus, z
    <3> QED BY <2>2, <3>1, <3>2 DEF z
  <2> QED BY <2>2, <2>3, <2>4, <2>5
<1>22. \A q \in DOMAIN autoCompound' :
          q \in Pairs /\ autoCompound'[q] \in 1 .. 100 /\ Delegates(q[2], q[1])'
  <2>1. \A q \in DOMAIN CompoundsWithout(c, L) :
           /\ q \in Pairs /\ CompoundsWithout(c, L)[q] \in 1 .. 100
           /\ Delegates(q[2], q[1])'
    BY <1>4, <1>17, CompoundsLost
  <2>2. CASE percent = 0
    BY <1>1, <2>1, <2>2
  <2>3. CASE percent # 0
    <3> DEFINE F == CompoundsWithout(c, L)
    <3> HIDE DEF F
    <3>1. autoCompound' = With(F, p, percent)
      BY <1>1, <2>3 DEF F
    <3>2. /\ DOMAIN autoCompound' = DOMAIN F \cup {p} /\ autoCompound'[p] = percent
          /\ \A q \in DOMAIN F \ {p} : autoCompound'[q] = F[q]
      BY <3>1 DEF With
    <3>3. p \in Pairs /\ percent \in 1 .. 100 /\ p[1] = c /\ p[2] = d
      BY <1>2, <2>3 DEF Pairs
    <3>4. \A q \in DOMAIN F : q \in Pairs /\ F[q] \in 1 .. 100 /\ Delegates(q[2], q[1])'
      BY <2>1 DEF F
    <3> HIDE DEF p
    <3>5. Delegates(p[2], p[1])'
      BY <1>11, <3>3
    <3> QED BY <3>2, <3>3, <3>4, <3>5
  <2> QED BY <2>2, <2>3
<1>23. Shaped'
  <2>1. Shaped
    BY DEF Staked
  <2>2. Delegators' \subseteq DelegatorAccounts
    BY <1>8, <2>1 DEF Shaped
  <2> QED BY <1>1, <1>5, <1>20, <1>21, <1>22, <2>1, <2>2 DEF Shaped
<1>24. totalStaked' <= AllLocked'
  <2> DEFINE a == SumFunction(delegatorLock)
             f == SumFunction(delegatorLock')
             s == SumFunction(collatorLock)
             t == totalStaked
             u == totalStaked'
             z == LessTotalStaked(b)
  <2>1. Shaped /\ delegatorLock'[d] = delegatorLock[d] + amount
    BY <1>9, <1>12 DEF Staked
  <2>2. AllLocked = s + a /\ s \in Nat /\ a \in Nat
    BY <2>1, LockedFacts
  <2>3. AllLocked' = s + f
    BY <1>1 DEF AllLocked
  <2>4. t \in Nat /\ t <= AllLocked
    BY DEF Staked, Shaped
  <2>5. f \in Nat /\ f + z = a + amount /\ u = t + (amount - z) /\ z \in Nat
    <3>1. CASE L = {} /\ z = 0
      <4>1. f = a + amount
        BY <1>2, <1>12, <1>23, <2>1, <3>1, LocksRise
      <4>2. u = t + Monus(amount, z) /\ Monus(amount, z) = amount
        BY <1>2, <1>21, <3>1 DEF Monus
      <4> HIDE DEF a, f, t, u, z
      <4> QED BY <1>2, <2>2, <3>1, <4>1, <4>2
    <3>2. ASSUME NEW k \in L, L = {k}, delegatorState[k].delegations[c] < amount,
                 z = delegatorState[k].delegations[c]
          PROVE  f \in Nat /\ f + z = a + amount /\ u = t + (amount - z) /\ z \in Nat
      <4>1. /\ k \in DelegatorAccounts /\ k # d /\ z \in Nat /\ delegatorLock'[k] = delegatorLock[k] - z
            /\ \A e \in DelegatorAccounts \ {k, d} : delegatorLock'[e] = delegatorLock[e]
        BY <1>4, <1>12, <1>17, <1>21, <3>2
      <4>2. u = t + Monus(amount, z) /\ Monus(amount, z) = amount - z
        BY <1>2, <1>21, <3>2 DEF Monus
      <4> HIDE DEF z
      <4>3. f + z = a + amount /\ f \in Nat
        BY <1>2, <1>23, <2>1, <4>1, LocksTrade
      <4> QED BY <4>1, <4>2, <4>3
    <3> QED BY <1>21, <3>1, <3>2
  <2> HIDE DEF a, f, s, t, u, z
  <2>6. t <= s + a
    BY <2>2, <2>4
  <2>7. u <= s + f
    BY <1>2, <2>2, <2>4, <2>5, <2>6
  <2> QED BY <2>3, <2>7 DEF u
<1>25. ASSUME NEW k \in L PROVE ~Delegates(k, c)' /\ KickedByLarger(k, c)
  <2>1. L = {k} /\ delegatorState[k].delegations[c] < amount /\ delegatorState[k].delegations[c] \in Nat
    <3>1. delegatorState[k].delegations[c] \in Nat
      BY <1>4, Listed
    <3> QED BY <1>21, <3>1
  <2>2. Kicked(candidateInfo[c].book) = {k}
    BY <2>1 DEF L, b
  <2>3. /\ ~Delegates(d, c) /\ Delegates(d, c)'
        /\ delegatorState'[d].delegations[c] > delegatorState[k].delegations[c]
    BY <1>1, <1>2, <1>11, <2>1
  <2> QED BY <1>17, <2>2, <2>3 DEF KickedByLarger
<1> QED BY <1>1, <1>4, <1>16, <1>19, <1>23, <1>24, <1>25, LoseStep

-----------------------------------------------------------------------------
(* Every step                                                              *)

LEMMA DelegatorCallKeeps ==
    ASSUME Staked, IInv, NEW d \in DelegatorAccounts, NEW c \in CandidateAccounts, DelegatorCall(d, c)
    PROVE  Kept
<1>1. ASSUME NEW amount \in Amounts, NEW percent \in {0} \cup Percents, Delegate(d, c, amount, percent)
      PROVE  Kept
  BY <1>1, DelegateKeeps
<1>2. ASSUME NEW amount \in Amounts, DelegatorBondMore(d, c, amount) PROVE Kept
  BY <1>2, DelegatorBondMoreKeeps
<1>3. ASSUME \/ ScheduleRevoke(d, c) \/ CancelRequest(d, c)
             \/ \E less \in Amounts : ScheduleBondDecrease(d, c, less)
      PROVE  Kept
  BY <1>3, RequestsKeep
<1>4. ASSUME NEW percent \in {0} \cup Percents, SetAutoCompound(d, c, percent) PROVE Kept
  BY <1>4, SetAutoCompoundKeeps
<1>5. ASSUME NEW reward \in Rewards, NEW percent \in {0} \cup Percents,
             MintAndCompound(d, c, reward, percent)
      PROVE  Kept
  BY <1>5, MintKeeps
<1>6. ASSUME ExecuteRevoke(d, c) PROVE Kept
  BY <1>6, ExecuteRevokeKeeps
<1>7. ASSUME ExecuteDecrease(d, c) PROVE Kept
  BY <1>7, ExecuteDecreaseKeeps
<1> QED BY <1>1, <1>2, <1>3, <1>4, <1>5, <1>6, <1>7 DEF DelegatorCall

LEMMA StepKeeps == ASSUME Staked, IInv, [Next]_vars PROVE Kept
<1>1. CASE NextRound \/ UNCHANGED vars
  BY <1>1, RoundKeeps
<1>2. ASSUME NEW c \in CandidateAccounts, CandidateCall(c) PROVE Kept
  <2>1. CASE ExecuteLeaveCandidates(c)
    BY <2>1, LeaveKeeps
  <2>2. CASE ~ExecuteLeaveCandidates(c)
    BY <1>2, <2>2, QuietCandidateKeeps
  <2> QED BY <2>1, <2>2
<1>3. ASSUME NEW d \in DelegatorAccounts, NEW c \in CandidateAccounts, DelegatorCall(d, c) PROVE Kept
  BY <1>3, DelegatorCallKeeps
<1> QED BY <1>1, <1>2, <1>3 DEF Next

LEMMA InitKeeps == Init => Staked
<1> SUFFICES ASSUME Init PROVE Staked
  OBVIOUS
<1>1. Delegators = {} /\ Candidates = {} /\ DOMAIN requests = {} /\ DOMAIN autoCompound = {}
  BY DEF Init, Delegators, Candidates
<1>2. Shaped
  <2>1. round \in 1 .. MaxRound
    BY InputsAssumption DEF Init
  <2>2. /\ collatorLock \in [CandidateAccounts -> Nat] /\ delegatorLock \in [DelegatorAccounts -> Nat]
        /\ balance \in [Accounts -> Nat] /\ totalStaked \in Nat
    BY InputsAssumption DEF Init
  <2> QED BY <1>1, <2>1, <2>2 DEF Shaped, RequestsShaped
<1>3. ASSUME NEW c \in CandidateAccounts PROVE BookSound(c) /\ collatorLock[c] <= balance[c]
  <2>1. HeldBy(c) = {}
    BY <1>1 DEF HeldBy, Delegates
  <2>2. collatorLock[c] = 0 /\ balance[c] \in Nat
    BY <1>2 DEF Init, Shaped, Accounts
  <2> QED BY <1>1, <2>1, <2>2 DEF BookSound
<1>4. ASSUME NEW d \in DelegatorAccounts PROVE DelegatorSound(d)
  <2>1. delegatorLock[d] = 0 /\ balance[d] \in Nat
    BY <1>2 DEF Init, Shaped, Accounts
  <2> QED BY <1>1, <2>1 DEF DelegatorSound, HasRequest
<1>5. totalStaked <= AllLocked
  <2>1. AllLocked = SumFunction(collatorLock) + SumFunction(delegatorLock)
        /\ SumFunction(collatorLock) \in Nat /\ SumFunction(delegatorLock) \in Nat
    BY <1>2, LockedFacts DEF AllLocked
  <2>2. totalStaked = 0
    BY DEF Init
  <2> QED BY <2>1, <2>2
<1> QED BY <1>2, <1>3, <1>4, <1>5 DEF Staked

LEMMA StaysStaked == Spec => [](Staked /\ IInv)
<1>1. Init => Staked /\ IInv
  BY InitKeeps, InitSound
<1>2. Staked /\ IInv /\ [Next]_vars => (Staked /\ IInv)'
  BY StepKeeps, StepSound DEF Kept, Sound
<1> QED BY <1>1, <1>2, PTL DEF Spec

LEMMA WhatFollows ==
    ASSUME Staked, IInv
    PROVE  /\ TypeOK /\ BooksExact /\ BothSidesAgree /\ NothingOutlives /\ RequestsLive
           /\ DueRequestsSucceed /\ PoolExact /\ TotalNotOverstated
<1>1. Candidates \subseteq CandidateAccounts /\ SelfBondsLocked
  BY DEF IInv
<1>2. TotalNotOverstated
  BY DEF Staked, TotalNotOverstated
<1> QED BY <1>1, <1>2, TypeFollows, BooksFollow, AgreementFollows, LocksFollow, RequestsFollow,
           DueFollow, PoolFollow

-----------------------------------------------------------------------------

\* For any accounts, amounts, delays, list sizes and order of calls: every variable holds
\* values of its shape; the total, the records and the locks never go below zero.
THEOREM TypeCorrect == Spec => []TypeOK
BY StaysStaked, WhatFollows, PTL

\* For lists of any length: after any bumps, promotions, kicks, increases and decreases both
\* lists of a candidate are sorted, disjoint and divided at the right amount, the metadata
\* says what they say, and the binary search finds the place after all equals.
THEOREM BooksStayExact == Spec => []BooksExact
BY StaysStaked, WhatFollows, PTL

\* For any number of candidates and delegators: what the delegators' records say and what the
\* candidates' books say is the same, whichever side a call starts from, so that the expects
\* of add_bottom_delegation and execute_leave_candidates hold.
THEOREM BothSidesStayInAgreement == Spec => []BothSidesAgree
BY StaysStaked, WhatFollows, PTL

\* For any order of calls: what is locked is what is staked and no more than the account has,
\* and no auto-compounding entry is left of a delegation that was kicked, revoked or
\* returned by a leaving candidate.
THEOREM NothingEverOutlives == Spec => []NothingOutlives
BY StaysStaked, WhatFollows, PTL

\* For any order of calls: every request has its delegation and fits it, although
\* delegations grow and are kicked while it waits, and lessTotal is the sum of the requests.
THEOREM RequestsStayLive == Spec => []RequestsLive
BY StaysStaked, WhatFollows, PTL

\* For any order of calls: a request that is due can be executed, although what it was
\* checked against was the state of the round it was made in.
THEOREM DueRequestsAlwaysSucceed == Spec => []DueRequestsSucceed
BY StaysStaked, WhatFollows, PTL

\* For any books: the pool follows them, and what a book counts, less what is being
\* withdrawn, is what a snapshot rewards.
THEOREM PoolStaysExact == Spec => []PoolExact
BY StaysStaked, WhatFollows, PTL

\* For any order of calls: Total claims no more than is locked, although a kick takes the
\* bottom's lowest amount from it and a departure the stored totals of the lists.
THEOREM TotalNeverOverstated == Spec => []TotalNotOverstated
BY StaysStaked, WhatFollows, PTL

\* For any order of calls: a delegation shrinks or ends when its own request is due, when its
\* candidate leaves after the delay or when a larger delegation takes its place, and no call
\* of anyone else touches it.
THEOREM DelegationsEndOnlyRightly == Spec => DelegationsEndRightly
<1>1. Staked /\ IInv /\ [Next]_vars =>
          [\A c \in CandidateAccounts, d \in DelegatorAccounts :
              DelegationOf(d, c)' < DelegationOf(d, c) =>
                  \/ HasRequest(d, c) /\ requests[<<c, d>>].when <= round
                  \/ c \notin Candidates' /\ candidateInfo[c].leaveAt <= round
                  \/ ~Delegates(d, c)' /\ KickedByLarger(d, c)]_vars
  BY StepKeeps DEF Kept, EndsRightly
<1> QED BY <1>1, StaysStaked, PTL DEF Spec, DelegationsEndRightly

-----------------------------------------------------------------------------
(* What a collator and its delegators are paid                             *)

LEMMA SnapshotOf ==
    ASSUME Staked, NEW c \in Candidates, c \in CandidateAccounts
    PROVE  /\ Snapshot(CollatorSnapshot(c))
           /\ DOMAIN CollatorSnapshot(c).delegations = Owners(candidateInfo[c].book.top)
           /\ \A d \in DOMAIN CollatorSnapshot(c).delegations :
                 /\ CollatorSnapshot(c).delegations[d] = Rewardable(c, d)
                 /\ RevokePending(d, c) => Rewardable(c, d) = 0
<1> DEFINE owners == Owners(candidateInfo[c].book.top)
           off == SumFunction([d \in owners |-> Uncounted(c, d)])
           r == [d \in owners |-> Rewardable(c, d)]
           on == SumFunction(r)
           counted == candidateInfo[c].book.counted
           bond == candidateInfo[c].book.bond
           snapshot == [bond |-> bond, delegations |-> r, total |-> Monus(counted, off)]
<1>1. /\ IsFiniteSet(owners) /\ off \in Nat /\ on \in Nat /\ counted = bond + (off + on) /\ bond \in Nat
      /\ \A d \in owners : /\ Rewardable(c, d) \in Nat
                           /\ RevokePending(d, c) => Rewardable(c, d) = 0
  BY SplitTotal
<1>2. CollatorSnapshot(c) = snapshot
  BY DEF CollatorSnapshot
<1>3. DOMAIN r = owners /\ \A d \in owners : r[d] = Rewardable(c, d)
  OBVIOUS
<1> HIDE DEF r, owners, off, counted, bond
<1>4. Monus(counted, off) = bond + on
  <2> HIDE DEF on
  <2> QED BY <1>1 DEF Monus
<1>5. Snapshot(snapshot)
  BY <1>1, <1>3, <1>4 DEF Snapshot
<1>6. snapshot.delegations = r
  OBVIOUS
<1> HIDE DEF snapshot
<1> QED BY <1>1, <1>2, <1>3, <1>5, <1>6 DEF owners

LEMMA RewardsFollow == ASSUME Staked, IInv PROVE RewardsShared
<1> SUFFICES ASSUME NEW c \in Candidates, NEW payout \in Payouts, NEW pts \in 1 .. 3
             PROVE  LET snapshot == CollatorSnapshot(c)
                        owners   == DOMAIN snapshot.delegations
                        pct      == FromRational(pts, 3)
                        due      == AmountDue(payout, pct, snapshot)
                        commission == CommissionOf(payout, pct, snapshot)
                        reward(d) == DelegatorReward(payout, pct, snapshot, d)
                        paid     == CollatorReward(payout, pct, snapshot)
                                      + SumFunction([d \in owners |-> reward(d)])
                        parts    == Cardinality(owners) + 1
                    IN  /\ 2 * paid <= 2 * MaxOfTwo(Times(pct, payout.reward), commission) + parts
                        /\ snapshot.total # 0 \/ Alone(snapshot) =>
                              2 * Accuracy * (paid - commission)
                                  >= 2 * Accuracy * due - parts * (2 * due + Accuracy)
                        /\ \A d, e \in owners :
                              Rewardable(c, d) <= Rewardable(c, e) => reward(d) <= reward(e)
                        /\ \A d \in owners : RevokePending(d, c) => reward(d) = 0
  BY Zenon DEF RewardsShared
<1> DEFINE snapshot == CollatorSnapshot(c)
           owners   == DOMAIN snapshot.delegations
           pct      == FromRational(pts, 3)
           due      == AmountDue(payout, pct, snapshot)
           commission == CommissionOf(payout, pct, snapshot)
           reward(d) == DelegatorReward(payout, pct, snapshot, d)
           earned   == SumFunction([d \in owners |-> reward(d)])
           paid     == CollatorReward(payout, pct, snapshot) + earned
           parts    == Cardinality(owners) + 1
           most == MaxOfTwo(Times(pct, payout.reward), commission)
<1>1. /\ Snapshot(snapshot)
      /\ \A d \in owners : /\ snapshot.delegations[d] = Rewardable(c, d)
                           /\ RevokePending(d, c) => Rewardable(c, d) = 0
  BY SnapshotOf DEF IInv
<1> HIDE DEF snapshot
<1>2. payout \in [issuance : Nat, reward : Nat, commission : Nat] /\ pct \in Nat
  BY PayoutsAssumption, PartsOfRatio, AccuracyAssumption
<1> HIDE DEF pct
<1>3. /\ due \in Nat /\ commission \in Nat /\ due + commission = most
      /\ Alone(snapshot) => commission = 0
  BY <1>2, Rewarded
<1>4. \A d \in owners : reward(d) = ShareOf(snapshot.delegations[d], due, snapshot)
  BY DEF DelegatorReward
<1>5. SharedNear(snapshot, due)
  <2> HIDE DEF due
  <2> QED BY <1>1, <1>3, SharesNearDue
<1>6. earned = SumFunction(SharesOf(snapshot, due))
  <2>1. [d \in owners |-> reward(d)] = SharesOf(snapshot, due)
    BY DEF SharesOf, DelegatorReward
  <2> QED BY <2>1
<1>7. IsFiniteSet(owners) /\ Cardinality(owners) \in Nat /\ Accuracy \in Nat \ {0}
  BY <1>1, FS_CardinalityType, AccuracyAssumption DEF Snapshot
<1>8. /\ snapshot.total \in Nat
      /\ \A d \in owners : snapshot.delegations[d] \in 0 .. snapshot.total
  BY <1>1, SnapshotFacts
<1>9. /\ paid \in Nat /\ 2 * (paid - commission) <= 2 * due + parts
      /\ snapshot.total # 0 \/ Alone(snapshot) =>
            2 * (Accuracy * due) <= 2 * (Accuracy * (paid - commission)) + parts * (2 * due + Accuracy)
  <2>1. CASE Alone(snapshot)
    <3>1. owners = {} /\ CollatorReward(payout, pct, snapshot) = due
      BY <2>1 DEF Alone, CollatorReward
    <3>2. earned = 0
      <4>1. DOMAIN [d \in owners |-> reward(d)] = {}
        BY <3>1
      <4> QED BY <4>1, SumIs, SumEmpty
    <3> HIDE DEF due, commission, earned, owners
    <3>3. paid = due /\ paid - commission = due /\ parts \in Nat
      BY <1>3, <1>7, <2>1, <3>1, <3>2
    <3> HIDE DEF paid, parts
    <3>4. 2 * due <= 2 * due + parts /\ parts * (2 * due + Accuracy) \in Nat
      BY <1>3, <1>7, <3>3, ProductNat
    <3>5. Accuracy * due \in Nat
      BY <1>3, <1>7, ProductNat
    <3> QED BY <1>3, <3>3, <3>4, <3>5
  <2>2. CASE ~Alone(snapshot)
    <3> DEFINE all == AllShares(snapshot, due)
    <3>1. CollatorReward(payout, pct, snapshot) = ShareOf(snapshot.bond, due, snapshot) + commission
      BY <2>2 DEF CollatorReward
    <3>2. all = ShareOf(snapshot.bond, due, snapshot) + earned
      BY <1>6 DEF AllShares
    <3>3. ShareOf(snapshot.bond, due, snapshot) \in Nat /\ earned \in Nat
      BY <1>5, <1>6 DEF SharedNear
    <3>4. /\ all \in Nat /\ 2 * all <= 2 * due + parts
          /\ snapshot.total # 0 =>
                2 * (Accuracy * due) <= 2 * (Accuracy * all) + parts * (2 * due + Accuracy)
      BY <1>5 DEF SharedNear
    <3> HIDE DEF all, due, commission, earned, owners, parts
    <3>5. paid - commission = all /\ paid \in Nat
      BY <1>3, <3>1, <3>2, <3>3, <3>4
    <3> HIDE DEF paid
    <3> QED BY <2>2, <3>4, <3>5
  <2> QED BY <2>1, <2>2
<1>10. 2 * paid <= 2 * most + parts
  <2> HIDE DEF due, commission, paid, parts, most
  <2>1. parts \in Nat
    BY <1>7 DEF parts
  <2> QED BY <1>3, <1>9, <2>1
<1>11. snapshot.total # 0 \/ Alone(snapshot) =>
          2 * Accuracy * (paid - commission) >= 2 * Accuracy * due - parts * (2 * due + Accuracy)
  <2> HIDE DEF due, commission, paid, parts, owners
  <2>0. parts \in Nat /\ paid - commission \in Int
    BY <1>3, <1>7, <1>9 DEF parts
  <2>1. /\ 2 * Accuracy * (paid - commission) = 2 * (Accuracy * (paid - commission))
        /\ 2 * Accuracy * due = 2 * (Accuracy * due)
    BY <1>3, <1>7, <2>0
  <2> DEFINE l == 2 * (Accuracy * due)
             r == 2 * (Accuracy * (paid - commission))
             o == parts * (2 * due + Accuracy)
  <2>2. l \in Int /\ r \in Int /\ o \in Int
    BY <1>3, <1>7, <2>0
  <2>3. snapshot.total # 0 \/ Alone(snapshot) => l <= r + o
    BY <1>9
  <2>4. l <= r + o => r >= l - o
    <3> HIDE DEF l, r, o
    <3> QED BY <2>2
  <2> QED BY <2>1, <2>3, <2>4
<1>12. ASSUME NEW d \in owners, NEW e \in owners, Rewardable(c, d) <= Rewardable(c, e)
       PROVE  reward(d) <= reward(e)
  <2>1. CASE snapshot.total = 0
    <3>1. snapshot.delegations[d] = 0 /\ snapshot.delegations[e] = 0
      BY <1>8, <2>1
    <3>2. reward(d) = 0 /\ reward(e) = 0
      BY <1>3, <1>4, <2>1, <3>1, NothingCounted
    <3> QED BY <3>2
  <2>2. CASE snapshot.total # 0
    BY <1>1, <1>2, <1>8, <1>12, <2>2, MoreStakeNotLess
  <2> QED BY <2>1, <2>2
<1>13. ASSUME NEW d \in owners, RevokePending(d, c) PROVE reward(d) = 0
  <2>1. snapshot.delegations[d] = 0
    BY <1>1, <1>13
  <2>2. CASE snapshot.total = 0
    BY <1>3, <1>4, <2>1, <2>2, NothingCounted
  <2>3. CASE snapshot.total # 0
    BY <1>3, <1>4, <1>8, <2>1, <2>3, ShareWithinDue
  <2> QED BY <2>2, <2>3
<1> QED BY Zenon, <1>10, <1>11, <1>12, <1>13 DEF snapshot, pct

\* For any snapshot, payout, commission and accuracy of the shares: a collator and its
\* delegators together are paid what is due to them within the rounding of each share,
\* in the order of their stakes, and a delegation being revoked earns nothing.
THEOREM RewardsAreShared == Spec => []RewardsShared
BY StaysStaked, RewardsFollow, PTL

=============================================================================
