--------------------------- MODULE DelegationBook ---------------------------
(***************************************************************************)
(* The book a candidate keeps of its delegations: a top list that counts   *)
(* for election and reward, a bottom list that waits, and metadata copied  *)
(* from both so that most calls need not read them.                        *)
(*                                                                         *)
(* Every operator maps a book to the book the code stores. The metadata is *)
(* used where the code uses it, even where the list itself would tell.     *)
(*                                                                         *)
(* X_how is X with a plausible mistake, for the runs to notice.            *)
(***************************************************************************)
EXTENDS Integers, FiniteSets, SequencesExt

CONSTANTS
    MaxTop,      \* MaxTopDelegationsPerCandidate
    MaxBottom    \* MaxBottomDelegationsPerCandidate

ASSUME BookAssumption == MaxTop \in Nat \ {0} /\ MaxBottom \in Nat \ {0}

-----------------------------------------------------------------------------
(* A list of delegations, greatest first, with its stored total.           *)

EmptyList == [delegations |-> <<>>, total |-> 0]

\* First come first served: behind every delegation of the same amount.
InsertSorted(seq, d) ==
    InsertAt(seq, Cardinality({i \in DOMAIN seq : seq[i].amount >= d.amount}) + 1, d)

\* The code's way to the same place: the last element, or a binary search that
\* may stop at any element of the amount looked for, then a walk past its equals.
InsertSearched(seq, d, found) ==
    IF seq # <<>> /\ Last(seq).amount = d.amount THEN Append(seq, d)
    ELSE IF found \in DOMAIN seq /\ seq[found].amount = d.amount
    THEN LET past == {i \in found..Len(seq) : seq[i].amount # d.amount}
         IN  IF past = {} THEN Append(seq, d)
             ELSE InsertAt(seq, CHOOSE i \in past : \A j \in past : i <= j, d)
    ELSE InsertAt(seq, found + 1, d)

\* Where the search may stop: any match, or where a match would have to be.
SearchResults(seq, d) ==
    LET equal == {i \in DOMAIN seq : seq[i].amount = d.amount}
    IN  IF equal # {} THEN equal
        ELSE {Cardinality({i \in DOMAIN seq : seq[i].amount > d.amount})}

Insert(list, d) ==
    [delegations |-> InsertSorted(list.delegations, d), total |-> list.total + d.amount]

\* a stable sort, greatest first
SortGreatestToLeast(seq) ==
    LET Place(i) == Cardinality({j \in DOMAIN seq :
                       \/ seq[j].amount > seq[i].amount
                       \/ seq[j].amount = seq[i].amount /\ j <= i})
    IN  [k \in DOMAIN seq |-> seq[CHOOSE i \in DOMAIN seq : Place(i) = k]]

Owners(list) == {d.owner : d \in ToSet(list.delegations)}

AmountOf(list, who) ==
    (CHOOSE d \in ToSet(list.delegations) : d.owner = who).amount

\* nobody has two delegations in a list: the filter by owner drops one
Without(list, who) ==
    LET place == CHOOSE i \in DOMAIN list.delegations : list.delegations[i].owner = who
    IN  [delegations |-> RemoveAt(list.delegations, place),
         total |-> list.total - list.delegations[place].amount]

WithoutLast(list) ==
    [delegations |-> Front(list.delegations),
     total |-> list.total - Last(list.delegations).amount]

WithoutFirst(list) ==
    [delegations |-> Tail(list.delegations),
     total |-> list.total - Head(list.delegations).amount]

\* change the amount of one delegation by delta and sort again
Adjusted(list, who, delta) ==
    LET changed == [i \in DOMAIN list.delegations |->
                      IF list.delegations[i].owner = who
                      THEN [list.delegations[i] EXCEPT !.amount = @ + delta]
                      ELSE list.delegations[i]]
    IN  [delegations |-> SortGreatestToLeast(changed), total |-> list.total + delta]

Lowest(list) ==
    IF list.delegations = <<>> THEN 0 ELSE Last(list.delegations).amount

Highest(list) ==
    IF list.delegations = <<>> THEN 0 ELSE Head(list.delegations).amount

Capacity(list, limit) ==
    IF Len(list.delegations) >= limit THEN "full"
    ELSE IF list.delegations = <<>> THEN "empty" ELSE "partial"

-----------------------------------------------------------------------------
(* The book.                                                               *)

NewBook(bond) ==
    [bond |-> bond, count |-> 0, counted |-> bond,
     lowestTop |-> 0, highestBottom |-> 0, lowestBottom |-> 0,
     topCapacity |-> "empty", bottomCapacity |-> "empty",
     top |-> EmptyList, bottom |-> EmptyList]

ResetTopData(b, list) ==
    [b EXCEPT !.top = list,
              !.lowestTop = Lowest(list),
              !.topCapacity = Capacity(list, MaxTop),
              !.counted = b.bond + list.total]

ResetBottomData(b, list) ==
    [b EXCEPT !.bottom = list,
              !.lowestBottom = Lowest(list),
              !.highestBottom = Highest(list),
              !.bottomCapacity = Capacity(list, MaxBottom)]

AddBottomDelegation(b, d, bumpedFromTop) ==
    LET full == Len(b.bottom.delegations) = MaxBottom
        kept == IF full THEN WithoutLast(b.bottom) ELSE b.bottom
    IN  ResetBottomData([b EXCEPT !.count = IF full \/ bumpedFromTop THEN @ ELSE @ + 1],
                        Insert(kept, d))

AddTopDelegation(b, d) ==
    LET bumps == Len(b.top.delegations) = MaxTop
        kicks == bumps /\ b.bottomCapacity = "full"
        rest == IF bumps THEN AddBottomDelegation(b, Last(b.top.delegations), TRUE) ELSE b
        kept == IF bumps THEN WithoutLast(b.top) ELSE b.top
    IN  ResetTopData([rest EXCEPT !.count = IF kicks THEN @ ELSE @ + 1], Insert(kept, d))

GoesToTop(b, d) == b.topCapacity # "full" \/ b.lowestTop < d.amount

\* A delegation the full book refuses is one that beats nobody.
Accepts(b, d) ==
    GoesToTop(b, d) \/ b.bottomCapacity # "full" \/ d.amount > b.lowestBottom

AddDelegation(b, d) ==
    IF GoesToTop(b, d) THEN AddTopDelegation(b, d) ELSE AddBottomDelegation(b, d, FALSE)

\* whom a new delegation pushes out of a full book
Kicked(b) ==
    IF b.topCapacity = "full" /\ Len(b.bottom.delegations) = MaxBottom
    THEN {Last(b.bottom.delegations).owner} ELSE {}

LessTotalStaked_never(b) == 0

LessTotalStaked(b) ==
    IF b.topCapacity = "full" /\ b.bottomCapacity = "full" THEN b.lowestBottom ELSE 0

-----------------------------------------------------------------------------
(* Where a delegation of a known amount is looked for. The amounts cannot  *)
(* tell when the lowest of the top equals the highest of the bottom: then  *)
(* the bottom is tried after the top.                                      *)

InTop(b, who) == who \in Owners(b.top)
InBottom(b, who) == who \in Owners(b.bottom)
Ambiguous(b) == b.lowestTop = b.highestBottom

InBottomToChange(b, who, bond) ==
    /\ bond < b.lowestTop \/ (Ambiguous(b) /\ ~InTop(b, who))
    /\ InBottom(b, who)

InTopToChange(b, who, bond) == bond >= b.lowestTop /\ InTop(b, who)

InTopToRemove(b, who, amount) ==
    (b.topCapacity # "full" \/ amount >= b.lowestTop) /\ InTop(b, who)

InBottomToRemove(b, who, amount) ==
    b.topCapacity = "full" /\ InBottomToChange(b, who, amount)

RemoveTopDelegation(b, who) ==
    LET left == [b EXCEPT !.count = @ - 1]
        top == Without(b.top, who)
    IN  IF b.bottomCapacity = "empty" THEN ResetTopData(left, top)
        ELSE ResetTopData(ResetBottomData(left, WithoutFirst(b.bottom)),
                          Insert(top, Head(b.bottom.delegations)))

RemoveBottomDelegation(b, who) ==
    ResetBottomData([b EXCEPT !.count = @ - 1], Without(b.bottom, who))

CanRemove(b, who, amount) ==
    InTopToRemove(b, who, amount) \/ InBottomToRemove(b, who, amount)

RemoveDelegation(b, who, amount) ==
    IF InTopToRemove(b, who, amount) THEN RemoveTopDelegation(b, who)
                                     ELSE RemoveBottomDelegation(b, who)

CanChange(b, who, bond) == InTopToChange(b, who, bond) \/ InBottomToChange(b, who, bond)

IncreaseTopDelegation(b, who, more) == ResetTopData(b, Adjusted(b.top, who, more))

\* above the lowest of the top it changes places with it
IncreaseBottomDelegation(b, who, bond, more) ==
    LET raised == [owner |-> who, amount |-> AmountOf(b.bottom, who) + more]
        bottom == [Without(b.bottom, who) EXCEPT !.total = b.bottom.total - bond]
        topIsFull == Capacity(b.top, MaxTop) = "full"
    IN  IF bond + more <= b.lowestTop
        THEN ResetBottomData(b, Adjusted(b.bottom, who, more))
        ELSE ResetBottomData(
                ResetTopData(b, Insert(IF topIsFull THEN WithoutLast(b.top) ELSE b.top, raised)),
                IF topIsFull THEN Insert(bottom, Last(b.top.delegations)) ELSE bottom)

IncreaseDelegation(b, who, bond, more) ==
    IF InTopToChange(b, who, bond) THEN IncreaseTopDelegation(b, who, more)
                                   ELSE IncreaseBottomDelegation(b, who, bond, more)

\* below the highest of the bottom it changes places with it
DecreaseTopDelegation_stays(b, who, bond, less) ==
    ResetTopData(b, Adjusted(b.top, who, 0 - less))

DecreaseTopDelegation(b, who, bond, less) ==
    IF bond - less < b.highestBottom /\ b.topCapacity = "full" /\ b.bottomCapacity # "empty"
    THEN LET lowered == [owner |-> who, amount |-> AmountOf(b.top, who) - less]
         IN  ResetTopData(
                ResetBottomData(b, Insert(WithoutFirst(b.bottom), lowered)),
                Insert(Without(b.top, who), Head(b.bottom.delegations)))
    ELSE ResetTopData(b, Adjusted(b.top, who, 0 - less))

\* the stored total of the bottom list is left as it was
DecreaseBottomDelegation(b, who, less) ==
    ResetBottomData(b, [Adjusted(b.bottom, who, 0 - less) EXCEPT !.total = b.bottom.total])

DecreaseDelegation(b, who, bond, less) ==
    IF InTopToChange(b, who, bond) THEN DecreaseTopDelegation(b, who, bond, less)
                                   ELSE DecreaseBottomDelegation(b, who, less)

-----------------------------------------------------------------------------
(* What a book should be.                                                  *)

Sorted(list) ==
    \A i, j \in DOMAIN list.delegations :
        i < j => list.delegations[i].amount >= list.delegations[j].amount

SumOf(list) ==
    SumFunction([i \in DOMAIN list.delegations |-> list.delegations[i].amount])

\* Both lists are sorted and within their limits, nobody is in both or twice, and
\* nobody waits in the bottom while the top has room or a smaller delegation.
BookOrdered(b) ==
    /\ Sorted(b.top) /\ Sorted(b.bottom)
    /\ Len(b.top.delegations) <= MaxTop /\ Len(b.bottom.delegations) <= MaxBottom
    /\ Cardinality(Owners(b.top) \cup Owners(b.bottom))
          = Len(b.top.delegations) + Len(b.bottom.delegations)
    /\ b.bottom.delegations # <<>> => Len(b.top.delegations) = MaxTop
    /\ b.bottom.delegations # <<>> => Lowest(b.top) >= Highest(b.bottom)

\* The metadata says what the lists say.
MetadataExact(b) ==
    /\ b.count = Len(b.top.delegations) + Len(b.bottom.delegations)
    /\ b.lowestTop = Lowest(b.top)
    /\ b.highestBottom = Highest(b.bottom) /\ b.lowestBottom = Lowest(b.bottom)
    /\ b.topCapacity = Capacity(b.top, MaxTop)
    /\ b.bottomCapacity = Capacity(b.bottom, MaxBottom)
    /\ b.top.total = SumOf(b.top)
    /\ b.counted = b.bond + SumOf(b.top)

=============================================================================
