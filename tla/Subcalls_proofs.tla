-------------------------- MODULE Subcalls_proofs --------------------------
(***************************************************************************)
(* Proofs about Subcalls, for any costs, limits, lists and nesting: the    *)
(* gas put aside for a log suffices; permits are spent once, with the      *)
(* calls they were signed for; what is logged is what came of a call; a    *)
(* batch keeps what its mode promises; nobody's name is used but by leave. *)
(*                                                                         *)
(* What makes it inductive is that the world of every frame, not only the  *)
(* current one, is in order: any of them may come back.  A frame may rely  *)
(* on the world it comes back to because paths tell what is in it: nothing *)
(* at or below the call it makes is there until the call ends.             *)
(***************************************************************************)
EXTENDS Subcalls, SequenceTheorems, TLAPS

Callers == {"sender", "signer", "contract"}
Kept == [path : Seq(Nat), target : Targets, caller : Callers]
WorldStates ==
    [kept : SUBSET Kept, logs : SUBSET [path : Seq(Nat), ok : BOOLEAN],
     nonce : Nat, spent : Seq([permit : Permits, at : Nat])]
Frames ==
    [target : Targets, kind : {"batch", "permit", "code"}, gas : Nat, caller : Callers,
     made : Nat, path : Seq(Nat), before : WorldStates]
Answers == [outcome : {"succeed", "revert", "error", "fatal"}, gas : Nat]

Typed ==
    /\ stack \in Seq(Frames)
    /\ answer \in {<<>>} \cup {<<a>> : a \in Answers}
    /\ world \in WorldStates
    /\ now \in Nat

\* A batch that waits for a call, or for a look at its answer, has put the gas aside.
LogsReserved ==
    \A i \in 1 .. Len(stack) :
        stack[i].kind = "batch" /\ (i < Len(stack) \/ answer # <<>>) => stack[i].gas >= LogCost

\* How the frames hang together.
Chained ==
    /\ \A i \in 1 .. Len(stack) : stack[i].kind = stack[i].target.kind
    /\ \A i \in 1 .. Len(stack) : stack[i].kind = "permit" =>
          stack[i].made = (IF i = Len(stack) /\ answer = <<>> THEN 0 ELSE 1)
    /\ \A i \in 2 .. Len(stack) : stack[i].path = Append(stack[i - 1].path, stack[i - 1].made)

\* The worlds on the stack: the one in which the frame above the i-th began, or the current one.
WorldAt(i) == IF i = Len(stack) THEN world ELSE stack[i + 1].before

KeptPermits(w) == {c.target.permit : c \in {d \in w.kept : d.target.kind = "permit"}}
PermitsUpTo(i) ==
    {stack[j].target.permit : j \in {k \in 1 .. i : stack[k].kind = "permit" /\ stack[k].made = 1}}

\* In every world, what was spent at t is what is kept or under way below, and a dispatch
\* that is kept has its call.
Accounted(w, underWay, t) ==
    /\ InOrder(w)
    /\ \A n \in 1 .. Len(w.spent) : w.spent[n].at <= t
    /\ SpentAt(w, t) = KeptPermits(w) \cup underWay
    /\ \A d \in w.kept : d.target.kind = "permit" =>
          \E c \in w.kept : c.path = Append(d.path, 1)

WorldsAccounted == \A i \in 0 .. Len(stack) : Accounted(WorldAt(i), PermitsUpTo(i), now)

\* A dispatch that is told its call succeeded finds it kept.
AnswerHonest ==
    stack # <<>> /\ answer # <<>> /\ answer[1].outcome = "succeed" /\ Top.kind = "permit" =>
        \E c \in world.kept : c.path = Append(Top.path, 1)

IInv == Typed /\ LogsReserved /\ Chained /\ WorldsAccounted /\ AnswerHonest

-----------------------------------------------------------------------------
(* The stack                                                               *)

LEMMA ElementOf ==
    ASSUME NEW S, NEW s \in Seq(S), NEW m \in 1 .. Len(s)
    PROVE  s[m] \in S
OBVIOUS

LEMMA Firsts ==
    ASSUME NEW S, NEW s, NEW n \in Nat, \A i \in 1 .. n : s[i] \in S
    PROVE  /\ SubSeq(s, 1, n) \in Seq(S)
           /\ Len(SubSeq(s, 1, n)) = n
           /\ \A i \in 1 .. n : SubSeq(s, 1, n)[i] = s[i]
<1>1. SubSeq(s, 1, n) \in Seq(S) /\ Len(SubSeq(s, 1, n)) = n
  OBVIOUS
<1>2. \A i \in 1 .. n : SubSeq(s, 1, n)[i] = s[i]
  OBVIOUS
<1> QED BY <1>1, <1>2

LEMMA FrontOfAny ==
    ASSUME NEW S, NEW s \in Seq(S), s # <<>>
    PROVE  /\ Len(s) \in Nat \ {0} /\ s[Len(s)] \in S
           /\ Front(s) \in Seq(S)
           /\ Len(Front(s)) = Len(s) - 1
           /\ \A i \in 1 .. Len(s) - 1 : Front(s)[i] = s[i]
<1> DEFINE n == Len(s) - 1
<1>1. Len(s) \in Nat \ {0} /\ s[Len(s)] \in S
  OBVIOUS
<1>2. n \in Nat /\ \A i \in 1 .. n : s[i] \in S
  BY <1>1
<1>3. Front(s) = SubSeq(s, 1, n)
  BY DEF Front
<1> HIDE DEF n
<1>4. Front(s) \in Seq(S) /\ Len(Front(s)) = n /\ \A i \in 1 .. n : Front(s)[i] = s[i]
  BY <1>2, <1>3, Firsts
<1> QED BY <1>1, <1>4 DEF n

LEMMA FrontOf ==
    ASSUME stack \in Seq(Frames), stack # <<>>
    PROVE  /\ Len(stack) \in Nat \ {0} /\ Top \in Frames
           /\ Front(stack) \in Seq(Frames)
           /\ Len(Front(stack)) = Len(stack) - 1
           /\ \A i \in 1 .. Len(stack) - 1 : Front(stack)[i] = stack[i]
BY FrontOfAny DEF Top

\* A frame is put on top.
LEMMA Pushed ==
    ASSUME NEW s \in Seq(Frames), NEW g \in Frames
    PROVE  LET t == Append(s, g) IN
           /\ t \in Seq(Frames) /\ Len(t) = Len(s) + 1 /\ t # <<>>
           /\ t[Len(s) + 1] = g
           /\ \A i \in 1 .. Len(s) : t[i] = s[i]
OBVIOUS

\* The top frame is replaced.
LEMMA Replaced ==
    ASSUME stack \in Seq(Frames), stack # <<>>, NEW f \in Frames
    PROVE  LET s == Append(Front(stack), f) IN
           /\ s \in Seq(Frames) /\ Len(s) = Len(stack) /\ s # <<>>
           /\ s[Len(stack)] = f
           /\ \A i \in 1 .. Len(stack) - 1 : s[i] = stack[i]
<1>1. PICK n \in Nat : n = Len(stack) - 1
  BY FrontOf
<1>2. PICK t \in Seq(Frames) : t = Front(stack)
  BY FrontOf
<1>3. Len(t) = n /\ \A i \in 1 .. n : t[i] = stack[i]
  BY <1>1, <1>2, FrontOf
<1>4. /\ Append(t, f) \in Seq(Frames) /\ Len(Append(t, f)) = n + 1 /\ Append(t, f) # <<>>
      /\ Append(t, f)[n + 1] = f
      /\ \A i \in 1 .. n : Append(t, f)[i] = t[i]
  BY <1>2, <1>3, Pushed
<1>5. Len(stack) = n + 1
  BY <1>1, FrontOf
<1> QED BY <1>1, <1>2, <1>3, <1>4, <1>5

\* Worlds that differ in their logs are accounted for alike.
LEMMA LogsAside ==
    ASSUME NEW w, NEW v, NEW underWay, NEW t, Accounted(w, underWay, t),
           v.kept = w.kept, v.spent = w.spent, v.nonce = w.nonce
    PROVE  Accounted(v, underWay, t)
BY DEF Accounted, InOrder, SpentAt, KeptPermits

-----------------------------------------------------------------------------
(* The three things that happen to the stack: the top frame goes on, ends, *)
(* or calls.                                                               *)

LEMMA GoOnKeeps ==
    ASSUME IInv, stack # <<>>, Top.kind # "permit",
           NEW gas \in Nat, NEW made \in Nat, GoOn(gas, made),
           world' \in WorldStates, world'.kept = world.kept, world'.spent = world.spent,
           world'.nonce = world.nonce, UNCHANGED now
    PROVE  IInv'
<1> DEFINE f == [Top EXCEPT !.gas = gas, !.made = made]
           n == Len(stack)
<1>1. n \in Nat \ {0} /\ Top \in Frames /\ stack \in Seq(Frames) /\ Top = stack[n]
  BY FrontOf DEF IInv, Typed, Top
<1>2. f \in Frames /\ f.kind = Top.kind /\ f.target = Top.target /\ f.path = Top.path
      /\ f.before = Top.before /\ f.made = made /\ f.gas = gas
  BY <1>1 DEF Frames
<1>3. /\ stack' = Append(Front(stack), f) /\ answer' = <<>>
  BY DEF GoOn
<1>4. /\ stack' \in Seq(Frames) /\ Len(stack') = n /\ stack' # <<>>
      /\ stack'[n] = f
      /\ \A i \in 1 .. n - 1 : stack'[i] = stack[i]
  <2> HIDE DEF f
  <2> QED BY <1>1, <1>2, <1>3, Replaced
<1> HIDE DEF f, n
<1>5. Typed'
  BY <1>3, <1>4 DEF IInv, Typed
<1>6. LogsReserved'
  BY <1>1, <1>3, <1>4 DEF IInv, LogsReserved, n
<1>7. Chained'
  <2>1. \A i \in 1 .. n : stack'[i].kind = stack'[i].target.kind
    <3>1. \A i \in 1 .. n : stack[i].kind = stack[i].target.kind
      BY DEF IInv, Chained, n
    <3> TAKE i \in 1 .. n
    <3>2. CASE i = n
      BY <1>1, <1>2, <1>4, <3>1, <3>2
    <3>3. CASE i # n
      <4>1. i \in 1 .. n - 1
        BY <1>1, <3>3
      <4> QED BY <1>4, <3>1, <4>1
    <3> QED BY <3>2, <3>3
  <2>2. \A i \in 1 .. n : stack'[i].kind = "permit" =>
          stack'[i].made = (IF i = n THEN 0 ELSE 1)
    <3> SUFFICES ASSUME NEW i \in 1 .. n, stack'[i].kind = "permit"
                 PROVE  stack'[i].made = (IF i = n THEN 0 ELSE 1)
      OBVIOUS
    <3>1. i # n /\ i \in 1 .. n - 1
      BY <1>1, <1>2, <1>4
    <3>2. stack[i].kind = "permit" /\ stack'[i] = stack[i]
      BY <3>1, <1>4
    <3> QED BY <3>1, <3>2 DEF IInv, Chained, n
  <2>3. \A i \in 2 .. n : stack'[i].path = Append(stack'[i - 1].path, stack'[i - 1].made)
    <3> TAKE i \in 2 .. n
    <3>1. stack'[i].path = stack[i].path /\ stack'[i - 1] = stack[i - 1]
      BY <1>1, <1>2, <1>4
    <3> QED BY <3>1 DEF IInv, Chained, n
  <2> QED BY <1>3, <1>4, <2>1, <2>2, <2>3 DEF Chained
<1>8. WorldsAccounted'
  <2> SUFFICES ASSUME NEW i \in 0 .. n
               PROVE  Accounted(WorldAt(i)', PermitsUpTo(i)', now)
    BY <1>4 DEF WorldsAccounted
  <2>1. Accounted(WorldAt(i), PermitsUpTo(i), now)
    BY DEF IInv, WorldsAccounted, n
  <2>2. PermitsUpTo(i)' = PermitsUpTo(i)
    <3>1. \A k \in 1 .. i : k # n => stack'[k] = stack[k]
      BY <1>1, <1>4
    <3>2. stack'[n].kind # "permit" /\ stack[n].kind # "permit"
      BY <1>1, <1>2, <1>4
    <3> QED BY <3>1, <3>2 DEF PermitsUpTo
  <2>3. CASE i = n
    BY <2>1, <2>2, <2>3, <1>4, LogsAside DEF WorldAt, n
  <2>4. CASE i # n
    <3>1. WorldAt(i)' = stack'[i + 1].before /\ WorldAt(i) = stack[i + 1].before
      BY <2>4, <1>4 DEF WorldAt, n
    <3>2. stack'[i + 1].before = stack[i + 1].before
      BY <2>4, <1>1, <1>2, <1>4
    <3> QED BY <3>1, <3>2, <2>1, <2>2
  <2> QED BY <2>3, <2>4
<1>9. AnswerHonest'
  BY <1>3 DEF AnswerHonest
<1> QED BY <1>5, <1>6, <1>7, <1>8, <1>9 DEF IInv

LEMMA EndKeeps ==
    ASSUME IInv, stack # <<>>,
           NEW w \in WorldStates, w.kept = world.kept, w.spent = world.spent,
           w.nonce = world.nonce,
           NEW outcome \in {"succeed", "revert", "error", "fatal"}, NEW gas \in Nat,
           Top.kind = "permit" /\ outcome = "succeed" =>
              answer # <<>> /\ answer[1].outcome = "succeed",
           EndIn(w, outcome, gas), UNCHANGED now
    PROVE  IInv'
<1> DEFINE n == Len(stack)
           ended == [path |-> Top.path, target |-> Top.target, caller |-> Top.caller]
           reply == [outcome |-> outcome,
                     gas |-> IF outcome \in {"succeed", "revert"} THEN gas ELSE 0]
           kept == [w EXCEPT !.kept = @ \cup {ended}]
<1>1. /\ n \in Nat \ {0} /\ Top \in Frames /\ stack \in Seq(Frames) /\ Top = stack[n]
      /\ Front(stack) \in Seq(Frames) /\ Len(Front(stack)) = n - 1
      /\ \A i \in 1 .. n - 1 : Front(stack)[i] = stack[i]
  BY FrontOf DEF IInv, Typed, Top
<1>2. /\ stack' = Front(stack) /\ answer' = <<reply>>
      /\ outcome = "succeed" => world' = kept
      /\ outcome # "succeed" => world' = Top.before
  BY DEF EndIn
<1>3. /\ stack' \in Seq(Frames) /\ Len(stack') = n - 1
      /\ \A i \in 1 .. n - 1 : stack'[i] = stack[i]
  BY <1>1, <1>2
<1>4. answer' # <<>> /\ answer'[1] = reply /\ reply.outcome = outcome /\ reply \in Answers
  BY <1>2 DEF Answers
<1>5. ended \in Kept /\ Top.before \in WorldStates
  BY <1>1 DEF Frames, Kept
<1>6. /\ kept \in WorldStates /\ kept.kept = world.kept \cup {ended}
      /\ kept.spent = world.spent /\ kept.nonce = world.nonce
  BY <1>5 DEF WorldStates
<1> HIDE DEF n, ended, reply, kept
<1>7. Typed'
  BY <1>2, <1>3, <1>4, <1>5, <1>6 DEF IInv, Typed
<1>8. LogsReserved'
  <2>1. \A i \in 1 .. n - 1 : stack'[i].kind = "batch" => stack'[i].gas >= LogCost
    BY <1>1, <1>3 DEF IInv, LogsReserved, n
  <2> QED BY <2>1, <1>3 DEF LogsReserved
<1>9. Chained'
  <2>1. \A i \in 1 .. n - 1 : stack'[i].kind = "permit" => stack'[i].made = 1
    BY <1>1, <1>3 DEF IInv, Chained, n
  <2>2. \A i \in 1 .. n - 1 : stack'[i].kind = stack'[i].target.kind
    BY <1>1, <1>3 DEF IInv, Chained, n
  <2>3. \A i \in 2 .. n - 1 : stack'[i].path = Append(stack'[i - 1].path, stack'[i - 1].made)
    <3> TAKE i \in 2 .. n - 1
    <3>1. stack'[i] = stack[i] /\ stack'[i - 1] = stack[i - 1] /\ i \in 2 .. n
      BY <1>1, <1>3
    <3> QED BY <3>1 DEF IInv, Chained, n
  <2> QED BY <1>3, <1>4, <2>1, <2>2, <2>3 DEF Chained
<1>10. WorldsAccounted'
  <2> SUFFICES ASSUME NEW i \in 0 .. n - 1
               PROVE  Accounted(WorldAt(i)', PermitsUpTo(i)', now)
    BY <1>3 DEF WorldsAccounted
  <2>1. \A k \in 0 .. n : Accounted(WorldAt(k), PermitsUpTo(k), now)
    BY DEF IInv, WorldsAccounted, n
  <2>2. PermitsUpTo(i)' = PermitsUpTo(i)
    <3>1. \A k \in 1 .. i : stack'[k] = stack[k]
      BY <1>1, <1>3
    <3> QED BY <3>1 DEF PermitsUpTo
  <2>3. CASE i # n - 1
    <3>1. WorldAt(i)' = stack'[i + 1].before /\ WorldAt(i) = stack[i + 1].before
      BY <2>3, <1>1, <1>3 DEF WorldAt, n
    <3>2. stack'[i + 1] = stack[i + 1]
      BY <2>3, <1>1, <1>3
    <3> QED BY <3>1, <3>2, <2>1, <2>2, <1>1
  <2>4. CASE i = n - 1 /\ outcome # "succeed"
    <3>1. WorldAt(i)' = Top.before /\ WorldAt(i) = Top.before
      BY <2>4, <1>1, <1>2, <1>3 DEF WorldAt, n
    <3> QED BY <3>1, <2>1, <2>2, <1>1, <2>4
  <2>5. CASE i = n - 1 /\ outcome = "succeed"
    <3>1. WorldAt(i)' = kept /\ WorldAt(n) = world
      BY <2>5, <1>1, <1>2, <1>3 DEF WorldAt, n
    <3>2. Accounted(world, PermitsUpTo(n), now)
      BY <2>1, <3>1, <1>1
    <3>3. InOrder(kept) /\ \A m \in 1 .. Len(kept.spent) : kept.spent[m].at <= now
      BY <3>2, <1>6 DEF Accounted, InOrder
    <3>4. SpentAt(kept, now) = SpentAt(world, now)
      BY <1>6 DEF SpentAt
    <3>5. KeptPermits(kept) \cup PermitsUpTo(i) = KeptPermits(world) \cup PermitsUpTo(n)
      <4>1. CASE Top.kind = "permit"
        <5>1. Top.made = 1 /\ ended.target = Top.target /\ Top.target.kind = "permit"
          BY <4>1, <1>1, <2>5 DEF IInv, Chained, n, ended
        <5>2. KeptPermits(kept) = KeptPermits(world) \cup {Top.target.permit}
          BY <5>1, <1>6 DEF KeptPermits
        <5>3. PermitsUpTo(n) = PermitsUpTo(i) \cup {Top.target.permit}
          <6>1. {k \in 1 .. n : stack[k].kind = "permit" /\ stack[k].made = 1}
                  = {k \in 1 .. i : stack[k].kind = "permit" /\ stack[k].made = 1} \cup {n}
            BY <5>1, <4>1, <1>1, <2>5
          <6> QED BY <6>1, <1>1 DEF PermitsUpTo
        <5> QED BY <5>2, <5>3
      <4>2. CASE Top.kind # "permit"
        <5>1. ended.target.kind # "permit"
          BY <4>2, <1>1 DEF IInv, Chained, n, ended
        <5>2. KeptPermits(kept) = KeptPermits(world)
          BY <5>1, <1>6 DEF KeptPermits
        <5>3. {k \in 1 .. n : stack[k].kind = "permit" /\ stack[k].made = 1}
                = {k \in 1 .. i : stack[k].kind = "permit" /\ stack[k].made = 1}
          BY <4>2, <1>1, <2>5
        <5> QED BY <5>2, <5>3 DEF PermitsUpTo
      <4> QED BY <4>1, <4>2
    <3>6. \A d \in kept.kept : d.target.kind = "permit" =>
              \E c \in kept.kept : c.path = Append(d.path, 1)
      <4>1. ASSUME ended.target.kind = "permit"
            PROVE  \E c \in world.kept : c.path = Append(ended.path, 1)
        <5>1. Top.kind = "permit" /\ ended.path = Top.path
          BY <4>1, <1>1 DEF IInv, Chained, n, ended
        <5> QED BY <5>1, <2>5 DEF IInv, AnswerHonest
      <4> QED BY <4>1, <3>2, <1>6 DEF Accounted
    <3> QED BY <3>1, <3>2, <3>3, <3>4, <3>5, <3>6, <2>2 DEF Accounted
  <2> QED BY <2>3, <2>4, <2>5
<1>11. AnswerHonest'
  <2> SUFFICES ASSUME stack' # <<>>, outcome = "succeed", Top'.kind = "permit"
               PROVE  \E c \in world'.kept : c.path = Append(Top'.path, 1)
    BY <1>4 DEF AnswerHonest
  <2>1. n - 1 \in 1 .. n - 1 /\ Top' = stack[n - 1]
    BY <1>1, <1>3 DEF Top
  <2>2. stack[n - 1].made = 1
    BY <2>1, <1>1 DEF IInv, Chained, n
  <2>3. ended.path = Append(stack[n - 1].path, 1)
    BY <2>1, <2>2, <1>1 DEF IInv, Chained, n, ended
  <2> QED BY <2>1, <2>3, <1>2, <1>6
<1> QED BY <1>7, <1>8, <1>9, <1>10, <1>11 DEF IInv

LEMMA CallKeeps ==
    ASSUME IInv, stack # <<>>, answer = <<>>,
           NEW w \in WorldStates, NEW left \in Int, NEW target \in Targets,
           NEW gas \in Nat, NEW caller \in Callers,
           left - CallCost - gas \in Nat,
           Top.kind = "batch" => left - CallCost - gas >= LogCost,
           Top.kind # "permit" => w = world,
           Top.kind = "permit" =>
              Accounted(w, PermitsUpTo(Len(stack)) \cup {Top.target.permit}, now),
           Call(w, left, target, gas, caller), UNCHANGED now
    PROVE  IInv'
<1>0. PICK n \in Nat : n = Len(stack)
  BY FrontOf DEF IInv, Typed
<1> DEFINE calling == [Top EXCEPT !.gas = left - CallCost - gas, !.made = @ + 1]
           called == [target |-> target, kind |-> target.kind, gas |-> gas,
                      caller |-> caller, made |-> 0,
                      path |-> Append(Top.path, calling.made), before |-> w]
           reply == [outcome |-> "revert", gas |-> gas]
           below == Append(Front(stack), calling)
<1>1. n \in Nat \ {0} /\ Top \in Frames /\ stack \in Seq(Frames) /\ Top = stack[n]
  BY <1>0, FrontOf DEF IInv, Typed, Top
<1>2. /\ calling \in Frames /\ calling.kind = Top.kind /\ calling.target = Top.target
      /\ calling.path = Top.path /\ calling.before = Top.before
      /\ calling.made = Top.made + 1 /\ calling.gas = left - CallCost - gas
  <2>1. PICK g \in Nat : g = left - CallCost - gas
    OBVIOUS
  <2>2. PICK made \in Nat : made = Top.made + 1
    BY <1>1 DEF Frames
  <2>3. calling = [Top EXCEPT !.gas = g, !.made = made]
    BY <2>1, <2>2
  <2> HIDE DEF calling
  <2> QED BY <1>1, <2>1, <2>2, <2>3 DEF Frames
<1>3. /\ called \in Frames /\ called.kind = called.target.kind /\ called.made = 0
      /\ called.path = Append(calling.path, calling.made) /\ called.before = w
  <2>1. target.kind \in {"batch", "permit", "code"}
    BY DEF Targets
  <2>2. Append(Top.path, calling.made) \in Seq(Nat)
    <3>1. PICK made \in Nat : made = calling.made
      BY <1>2 DEF Frames
    <3>2. PICK path \in Seq(Nat) : path = Top.path
      BY <1>1 DEF Frames
    <3> QED BY <3>1, <3>2
  <2> QED BY <1>2, <2>1, <2>2 DEF Frames
<1>4. /\ world' = w
      /\ \/ stack' = Append(below, called) /\ answer' = <<>>
         \/ stack' = below /\ answer' = <<reply>>
  BY DEF Call
<1>5. reply \in Answers /\ reply.outcome = "revert"
  BY DEF Answers
<1> HIDE DEF calling, called, reply
<1>6. /\ below \in Seq(Frames) /\ Len(below) = n /\ below[n] = calling
      /\ \A i \in 1 .. n - 1 : below[i] = stack[i]
  BY <1>0, <1>1, <1>2, Replaced 
<1> HIDE DEF below
<1>7. /\ stack' \in Seq(Frames)
      /\ stack'[n] = calling
      /\ \A i \in 1 .. n - 1 : stack'[i] = stack[i]
      /\ \/ Len(stack') = n + 1 /\ stack'[n + 1] = called /\ answer' = <<>>
         \/ Len(stack') = n /\ answer' = <<reply>>
  <2>1. CASE stack' = Append(below, called) /\ answer' = <<>>
    BY <1>1, <1>3, <1>6, <2>1, Pushed
  <2>2. CASE stack' = below /\ answer' = <<reply>>
    BY <1>1, <1>6, <2>2
  <2> QED BY <1>4, <2>1, <2>2
<1>8. Top.kind = "permit" => calling.made = 1
  BY <1>0, <1>1, <1>2 DEF IInv, Chained
<1>9. Typed'
  BY <1>4, <1>5, <1>7 DEF IInv, Typed
<1>10. LogsReserved'
  <2>1. \A i \in 1 .. n : stack'[i].kind = "batch" => stack'[i].gas >= LogCost
    <3>1. \A i \in 1 .. n - 1 : stack'[i].kind = "batch" => stack'[i].gas >= LogCost
      BY <1>0, <1>1, <1>7 DEF IInv, LogsReserved
    <3>2. stack'[n].kind = "batch" => stack'[n].gas >= LogCost
      BY <1>2, <1>7
    <3> QED BY <1>1, <3>1, <3>2
  <2> QED BY <1>1, <1>7, <2>1 DEF LogsReserved
<1>11. Chained'
  <2>1. \A i \in 1 .. n : stack'[i].kind = "permit" => stack'[i].made = 1
    <3>1. \A i \in 1 .. n - 1 : stack'[i].kind = "permit" => stack'[i].made = 1
      BY <1>0, <1>1, <1>7 DEF IInv, Chained
    <3>2. stack'[n].kind = "permit" => stack'[n].made = 1
      BY <1>2, <1>7, <1>8
    <3> QED BY <1>1, <3>1, <3>2
  <2>2. \A i \in 1 .. n : stack'[i].kind = stack'[i].target.kind
    <3>1. ASSUME NEW i \in 1 .. n - 1 PROVE stack'[i].kind = stack'[i].target.kind
      <4>1. stack'[i] = stack[i] /\ i \in 1 .. Len(stack)
        BY <1>0, <1>7
      <4> QED BY <4>1 DEF IInv, Chained
    <3>2. stack'[n].kind = stack'[n].target.kind
      BY <1>0, <1>1, <1>2, <1>7 DEF IInv, Chained
    <3> QED BY <1>1, <3>1, <3>2
  <2>3. \A i \in 2 .. n : stack'[i].path = Append(stack'[i - 1].path, stack'[i - 1].made)
    <3> TAKE i \in 2 .. n
    <3>1. stack'[i].path = stack[i].path
      <4>1. CASE i = n
        BY <4>1, <1>1, <1>2, <1>7
      <4>2. CASE i # n
        <5>1. i \in 1 .. n - 1
          BY <4>2
        <5> QED BY <5>1, <1>7
      <4> QED BY <4>1, <4>2
    <3>2. stack'[i - 1] = stack[i - 1]
      <4>1. i - 1 \in 1 .. n - 1
        OBVIOUS
      <4> QED BY <4>1, <1>7
    <3> QED BY <1>0, <3>1, <3>2 DEF IInv, Chained
  <2>4. CASE Len(stack') = n + 1 /\ stack'[n + 1] = called /\ answer' = <<>>
    <3>1. stack'[n + 1].path = Append(stack'[n].path, stack'[n].made)
      BY <1>3, <1>7, <2>4
    <3>2. \A i \in 1 .. n + 1 : stack'[i].kind = stack'[i].target.kind
      BY <1>1, <1>3, <2>2, <2>4
    <3>3. \A i \in 1 .. n + 1 : stack'[i].kind = "permit" =>
              stack'[i].made = (IF i = n + 1 THEN 0 ELSE 1)
      BY <1>1, <1>3, <2>1, <2>4
    <3>4. \A i \in 2 .. n + 1 : stack'[i].path = Append(stack'[i - 1].path, stack'[i - 1].made)
      <4> TAKE i \in 2 .. n + 1
      <4>1. i \in 2 .. n \/ i = n + 1
        BY <1>1
      <4>2. i = n + 1 => i - 1 = n
        BY <1>1
      <4> QED BY <4>1, <4>2, <2>3, <3>1
    <3> QED BY <3>2, <3>3, <3>4, <2>4 DEF Chained
  <2>5. CASE Len(stack') = n /\ answer' = <<reply>>
    BY <2>1, <2>2, <2>3, <2>5 DEF Chained
  <2> QED BY <1>7, <2>4, <2>5
<1>12. WorldsAccounted'
  <2>1. \A i \in 0 .. n : Accounted(WorldAt(i), PermitsUpTo(i), now)
    BY <1>0 DEF IInv, WorldsAccounted
  <2>2. \A i \in 0 .. n - 1 : Accounted(WorldAt(i)', PermitsUpTo(i)', now)
    <3> TAKE i \in 0 .. n - 1
    <3>1. WorldAt(i)' = stack'[i + 1].before /\ WorldAt(i) = stack[i + 1].before
      BY <1>0, <1>1, <1>7 DEF WorldAt
    <3>2. stack'[i + 1].before = stack[i + 1].before
      BY <1>1, <1>2, <1>7
    <3>3. PermitsUpTo(i)' = PermitsUpTo(i)
      <4>1. \A k \in 1 .. i : stack'[k] = stack[k]
        BY <1>1, <1>7
      <4> QED BY <4>1 DEF PermitsUpTo
    <3> QED BY <2>1, <3>1, <3>2, <3>3, <1>1
  <2>3. Accounted(w, PermitsUpTo(n)', now)
    <3>1. \A k \in 1 .. n : k # n => stack'[k] = stack[k]
      BY <1>1, <1>7
    <3>2. stack'[n].kind = Top.kind /\ stack'[n].target = stack[n].target /\ stack[n].kind = Top.kind
      BY <1>1, <1>2, <1>7
    <3>3. \A k \in 1 .. n : stack'[k].target = stack[k].target
      BY <3>1, <3>2
    <3>4. n \in 1 .. n
      BY <1>1
    <3>5. CASE Top.kind = "permit"
      <4>1. stack'[n].made = 1
        BY <1>2, <1>7, <1>8, <3>5
      <4>2. {k \in 1 .. n : stack'[k].kind = "permit" /\ stack'[k].made = 1}
              = {k \in 1 .. n : stack[k].kind = "permit" /\ stack[k].made = 1} \cup {n}
        <5>1. \A k \in 1 .. n : stack'[k].kind = "permit" /\ stack'[k].made = 1
                  <=> k = n \/ (stack[k].kind = "permit" /\ stack[k].made = 1)
          BY <3>1, <3>2, <3>5, <4>1
        <5> QED BY <3>4, <5>1
      <4>3. PICK done : done = {k \in 1 .. n : stack[k].kind = "permit" /\ stack[k].made = 1}
        OBVIOUS
      <4>4. /\ PermitsUpTo(n) = {stack[k].target.permit : k \in done}
            /\ PermitsUpTo(n)' = {stack'[k].target.permit : k \in done \cup {n}}
        BY <4>2, <4>3 DEF PermitsUpTo
      <4>5. \A k \in done \cup {n} : stack'[k].target.permit = stack[k].target.permit
        BY <3>3, <3>4, <4>3
      <4>6. PermitsUpTo(n)' = PermitsUpTo(n) \cup {Top.target.permit}
        BY <4>4, <4>5, <1>1
      <4> QED BY <1>0, <3>5, <4>6
    <3>6. CASE Top.kind # "permit"
      <4>1. {k \in 1 .. n : stack'[k].kind = "permit" /\ stack'[k].made = 1}
              = {k \in 1 .. n : stack[k].kind = "permit" /\ stack[k].made = 1}
        BY <3>1, <3>2, <3>6
      <4>2. PermitsUpTo(n)' = PermitsUpTo(n)
        BY <3>3, <4>1 DEF PermitsUpTo
      <4>3. WorldAt(n) = w
        BY <1>0, <3>6 DEF WorldAt
      <4> QED BY <2>1, <4>2, <4>3, <1>1
    <3> QED BY <3>5, <3>6
  <2>4. CASE Len(stack') = n /\ answer' = <<reply>>
    <3>1. WorldAt(n)' = w
      BY <2>4, <1>4 DEF WorldAt
    <3>2. \A i \in 0 .. n : Accounted(WorldAt(i)', PermitsUpTo(i)', now)
      <4> TAKE i \in 0 .. n
      <4>1. i = n \/ i \in 0 .. n - 1
        BY <1>1
      <4> QED BY <4>1, <2>2, <2>3, <3>1
    <3> QED BY <2>4, <3>2 DEF WorldsAccounted
  <2>5. CASE Len(stack') = n + 1 /\ stack'[n + 1] = called /\ answer' = <<>>
    <3>1. WorldAt(n)' = w /\ WorldAt(n + 1)' = w
      BY <2>5, <1>1, <1>3, <1>4 DEF WorldAt
    <3>2. PermitsUpTo(n + 1)' = PermitsUpTo(n)'
      <4>1. {k \in 1 .. n + 1 : stack'[k].kind = "permit" /\ stack'[k].made = 1}
              = {k \in 1 .. n : stack'[k].kind = "permit" /\ stack'[k].made = 1}
        BY <2>5, <1>1, <1>3
      <4> QED BY <4>1 DEF PermitsUpTo
    <3>3. \A i \in 0 .. n + 1 : Accounted(WorldAt(i)', PermitsUpTo(i)', now)
      <4> TAKE i \in 0 .. n + 1
      <4>1. i = n + 1 \/ i = n \/ i \in 0 .. n - 1
        BY <1>1
      <4> QED BY <4>1, <2>2, <2>3, <3>1, <3>2
    <3> QED BY <2>5, <3>3 DEF WorldsAccounted
  <2> QED BY <1>7, <2>4, <2>5
<1>13. AnswerHonest'
  BY <1>5, <1>7 DEF AnswerHonest
<1> QED BY <1>9, <1>10, <1>11, <1>12, <1>13 DEF IInv

-----------------------------------------------------------------------------
(* The actions                                                             *)

\* The current world is accounted for by the permits of all frames.
LEMMA WorldAccounted ==
    ASSUME IInv
    PROVE  Accounted(world, PermitsUpTo(Len(stack)), now)
<1>1. Len(stack) \in 0 .. Len(stack)
  BY DEF IInv, Typed
<1>2. WorldAt(Len(stack)) = world
  BY DEF WorldAt
<1> QED BY <1>1, <1>2 DEF IInv, WorldsAccounted

LEMMA LoggedWorld ==
    ASSUME IInv, stack # <<>>, NEW index \in Nat, NEW ok \in BOOLEAN
    PROVE  /\ Logged(index, ok) \in WorldStates
           /\ Logged(index, ok).kept = world.kept
           /\ Logged(index, ok).spent = world.spent
           /\ Logged(index, ok).nonce = world.nonce
<1> DEFINE log == [path |-> Append(Top.path, index), ok |-> ok]
<1>1. Top.path \in Seq(Nat) /\ world \in WorldStates
  BY FrontOf DEF IInv, Typed, Frames
<1>2. log \in [path : Seq(Nat), ok : BOOLEAN]
  BY <1>1
<1>3. Logged(index, ok) = [world EXCEPT !.logs = @ \cup {log}]
  BY DEF Logged
<1> HIDE DEF log
<1> QED BY <1>1, <1>2, <1>3 DEF WorldStates

LEMMA Answer ==
    ASSUME IInv, answer # <<>>
    PROVE  answer[1] \in Answers
BY DEF IInv, Typed

LEMMA CodeKeeps ==
    ASSUME IInv, CodeCalls \/ CodeGets \/ CodeEnds
    PROVE  IInv'
<1>1. stack # <<>> /\ Top.kind = "code" /\ Top.gas \in Nat /\ Top.made \in Nat
      /\ world \in WorldStates /\ CallCost \in Nat
  BY FrontOf, CostsAssumption
     DEF IInv, Typed, CodeCalls, CodeGets, CodeEnds, Running, Answered, Frames
<1>2. CASE CodeCalls
  <2>1. PICK target \in Targets, gas \in 0 .. Top.gas - CallCost :
          Call(world, Top.gas, target, gas, "contract")
    BY <1>2 DEF CodeCalls
  <2>2. answer = <<>> /\ UNCHANGED now
    BY <1>2 DEF CodeCalls, Running
  <2>3. gas \in Nat /\ Top.gas - CallCost - gas \in Nat
    BY <1>1, <2>1
  <2>4. "contract" \in Callers /\ Top.gas \in Int
    BY <1>1 DEF Callers
  <2> QED BY <1>1, <2>1, <2>2, <2>3, <2>4, CallKeeps
<1>3. CASE CodeGets
  <2>1. answer # <<>> /\ UNCHANGED now
    BY <1>3 DEF CodeGets, Answered
  <2>2. answer[1].gas \in Nat
    BY <2>1, Answer DEF Answers
  <2>3. CASE answer[1].outcome = "fatal"
    <3>1. EndIn(world, "fatal", 0)
      BY <1>3, <2>3 DEF CodeGets, End
    <3> QED BY <1>1, <2>1, <3>1, EndKeeps
  <2>4. CASE answer[1].outcome # "fatal"
    <3>1. GoOn(Top.gas + answer[1].gas, Top.made) /\ UNCHANGED world
      BY <1>3, <2>4 DEF CodeGets
    <3>2. Top.gas + answer[1].gas \in Nat
      BY <1>1, <2>2
    <3> QED BY <1>1, <2>1, <3>1, <3>2, GoOnKeeps
  <2> QED BY <2>3, <2>4
<1>4. CASE CodeEnds
  <2>1. PICK outcome \in {"succeed", "revert", "error", "fatal"}, gas \in {0, Top.gas} :
          EndIn(world, outcome, gas)
    BY <1>4 DEF CodeEnds, End
  <2>2. gas \in Nat /\ UNCHANGED now
    BY <1>1, <1>4 DEF CodeEnds
  <2> QED BY <1>1, <2>1, <2>2, EndKeeps
<1> QED BY <1>2, <1>3, <1>4

LEMMA BatchKeeps ==
    ASSUME IInv, BatchEnds \/ BatchRunsOut \/ BatchSkips \/ BatchCalls \/ BatchGets
    PROVE  IInv'
<1>1. stack # <<>> /\ Top.kind = "batch" /\ Top.gas \in Nat /\ Top.made \in Nat
      /\ Top.caller \in Callers
      /\ world \in WorldStates /\ CallCost \in Nat /\ LogCost \in Nat
  BY FrontOf, CostsAssumption
     DEF IInv, Typed, BatchEnds, BatchRunsOut, BatchSkips, BatchCalls, BatchGets, Running,
         Answered, Frames
<1>2. UNCHANGED now
  BY DEF BatchEnds, BatchRunsOut, BatchSkips, BatchCalls, BatchGets
<1>3. CASE BatchEnds
  <2>1. EndIn(world, "succeed", Top.gas)
    BY <1>3 DEF BatchEnds, End
  <2> QED BY <1>1, <1>2, <2>1, EndKeeps
<1>4. CASE BatchRunsOut
  <2>1. EndIn(world, "succeed", Top.gas) \/ EndIn(world, "error", Top.gas)
    BY <1>4 DEF BatchRunsOut, End
  <2> QED BY <1>1, <1>2, <2>1, EndKeeps
<1>5. CASE BatchSkips
  <2> DEFINE logged == Logged(Top.made + 1, FALSE)
             left == Top.gas - LogCost
  <2>1. \/ EndIn(logged, "error", 0)
        \/ EndIn(logged, "succeed", left)
        \/ GoOn(left, Top.made + 1) /\ world' = logged
    BY <1>5 DEF BatchSkips
  <2>2. left \in Nat /\ Top.made + 1 \in Nat
    BY <1>1, <1>5 DEF BatchSkips
  <2>3. /\ logged \in WorldStates /\ logged.kept = world.kept
        /\ logged.spent = world.spent /\ logged.nonce = world.nonce
    BY <1>1, <2>2, LoggedWorld
  <2> HIDE DEF logged, left
  <2>4. CASE EndIn(logged, "error", 0)
    BY <1>1, <1>2, <2>3, <2>4, EndKeeps
  <2>5. CASE EndIn(logged, "succeed", left)
    BY <1>1, <1>2, <2>2, <2>3, <2>5, EndKeeps
  <2>6. CASE GoOn(left, Top.made + 1) /\ world' = logged
    <3>1. Top.kind # "permit"
      BY <1>1
    <3> QED BY <1>1, <1>2, <2>2, <2>3, <2>6, <3>1, GoOnKeeps
  <2> QED BY <2>1, <2>4, <2>5, <2>6
<1>6. CASE BatchCalls
  <2>1. PICK limit \in Limits, target \in Targets :
          /\ limit <= Room
          /\ Call(world, Top.gas, target, IF limit = 0 THEN Room ELSE limit, Top.caller)
    BY <1>6 DEF BatchCalls
  <2>2. answer = <<>> /\ Room >= 0
    BY <1>6 DEF BatchCalls, Running
  <2>3. PICK gas \in Nat : gas = (IF limit = 0 THEN Room ELSE limit)
    <3>1. Room \in Nat /\ limit \in Nat
      BY <1>1, <2>2, CostsAssumption DEF Room
    <3> QED BY <3>1
  <2>4. Top.gas - CallCost - gas \in Nat /\ Top.gas - CallCost - gas >= LogCost
    <3>1. gas <= Room
      BY <2>1, <2>2, <2>3
    <3> QED BY <1>1, <2>3, <3>1 DEF Room
  <2>5. Top.kind # "permit" /\ Top.gas \in Int
    BY <1>1
  <2> QED BY <1>1, <1>2, <2>1, <2>2, <2>3, <2>4, <2>5, CallKeeps
<1>7. CASE BatchGets
  <2> DEFINE outcome == answer[1].outcome
             logged == Logged(Top.made, outcome = "succeed")
             left == Top.gas + answer[1].gas - LogCost
  <2>1. \/ EndIn(world, "fatal", 0)
        \/ EndIn(world, "error", 0)
        \/ left >= 0 /\ GoOn(left, Top.made) /\ world' = logged
        \/ left >= 0 /\ outcome \notin {"succeed", "fatal"} /\ EndIn(logged, outcome, left)
        \/ left >= 0 /\ EndIn(logged, "succeed", left)
    BY <1>1, <1>7, Answer DEF BatchGets, End, Answered, Answers
  <2>2. answer # <<>> /\ answer[1] \in Answers
    BY <1>7, Answer DEF BatchGets, Answered
  <2>3. outcome \in {"succeed", "revert", "error", "fatal"} /\ left \in Int
    BY <1>1, <2>2 DEF Answers
  <2>4. /\ logged \in WorldStates /\ logged.kept = world.kept
        /\ logged.spent = world.spent /\ logged.nonce = world.nonce
    BY <1>1, LoggedWorld
  <2>5. Top.kind # "permit"
    BY <1>1
  <2> HIDE DEF logged, left, outcome
  <2>6. CASE EndIn(world, "fatal", 0) \/ EndIn(world, "error", 0)
    BY <1>1, <1>2, <2>6, EndKeeps
  <2>7. CASE left >= 0 /\ GoOn(left, Top.made) /\ world' = logged
    <3>1. left \in Nat
      BY <2>3, <2>7
    <3> QED BY <1>1, <1>2, <2>4, <2>5, <2>7, <3>1, GoOnKeeps
  <2>8. CASE left >= 0 /\ (EndIn(logged, outcome, left) \/ EndIn(logged, "succeed", left))
    <3>1. left \in Nat
      BY <2>3, <2>8
    <3> QED BY <1>1, <1>2, <2>3, <2>4, <2>5, <2>8, <3>1, EndKeeps
  <2> QED BY <2>1, <2>6, <2>7, <2>8
<1> QED BY <1>3, <1>4, <1>5, <1>6, <1>7

\* Taking a permit for its nonce keeps the accounts, with its dispatch under way.
LEMMA SpendingAccounted ==
    ASSUME IInv, NEW permit \in Permits, permit.nonce = world.nonce, now <= permit.deadline,
           NEW underWay, Accounted(world, underWay, now)
    PROVE  LET spent == [world EXCEPT !.nonce = @ + 1,
                                      !.spent = Append(@, [permit |-> permit, at |-> now])]
           IN  spent \in WorldStates /\ Accounted(spent, underWay \cup {permit}, now)
<1> DEFINE entry == [permit |-> permit, at |-> now]
           spent == [world EXCEPT !.nonce = @ + 1, !.spent = Append(@, entry)]
           n == Len(world.spent)
<1>1. world \in WorldStates /\ now \in Nat /\ entry \in [permit : Permits, at : Nat]
  BY DEF IInv, Typed
<1>2. /\ world.nonce \in Nat /\ world.spent \in Seq([permit : Permits, at : Nat])
      /\ n \in Nat /\ world.nonce = n
  BY <1>1 DEF WorldStates, Accounted, InOrder
<1>3. /\ spent.nonce = n + 1 /\ spent.kept = world.kept
      /\ spent.spent = Append(world.spent, entry)
      /\ spent \in WorldStates
  <2>1. Append(world.spent, entry) \in Seq([permit : Permits, at : Nat])
    BY <1>1, <1>2
  <2>2. PICK list : list = Append(world.spent, entry)
    OBVIOUS
  <2>3. PICK m \in Nat : m = n + 1
    BY <1>2
  <2>4. spent = [world EXCEPT !.nonce = m, !.spent = list]
    BY <1>2, <2>2, <2>3
  <2> HIDE DEF entry, n, spent
  <2> QED BY <1>1, <2>1, <2>2, <2>3, <2>4 DEF WorldStates
<1>4. entry.permit = permit /\ entry.at = now
  OBVIOUS
<1> HIDE DEF spent, entry
<1>5. /\ Len(spent.spent) = n + 1 /\ DOMAIN spent.spent = 1 .. n + 1
      /\ spent.spent[n + 1] = entry
      /\ \A m \in 1 .. n : spent.spent[m] = world.spent[m]
  BY <1>2, <1>3
<1>6. DOMAIN world.spent = 1 .. n
  BY <1>2
<1>7. InOrder(spent)
  <2>1. \A m \in 1 .. n : /\ world.spent[m].permit.nonce = m - 1
                          /\ world.spent[m].at <= world.spent[m].permit.deadline
    BY <1>6 DEF Accounted, InOrder
  <2>2. entry.permit.nonce = n + 1 - 1 /\ entry.at <= entry.permit.deadline
    BY <1>2, <1>4
  <2>3. \A m \in 1 .. n + 1 : /\ spent.spent[m].permit.nonce = m - 1
                              /\ spent.spent[m].at <= spent.spent[m].permit.deadline
    <3> TAKE m \in 1 .. n + 1
    <3>1. m \in 1 .. n \/ m = n + 1
      BY <1>2
    <3> QED BY <3>1, <2>1, <2>2, <1>5
  <2> QED BY <1>3, <1>5, <2>3 DEF InOrder
<1>8. \A m \in 1 .. Len(spent.spent) : spent.spent[m].at <= now
  <2>1. \A m \in 1 .. n : world.spent[m].at <= now
    BY DEF Accounted
  <2>2. entry.at <= now
    BY <1>1, <1>4
  <2>3. \A m \in 1 .. n + 1 : spent.spent[m].at <= now
    <3> TAKE m \in 1 .. n + 1
    <3>1. m \in 1 .. n \/ m = n + 1
      BY <1>2
    <3> QED BY <3>1, <2>1, <2>2, <1>5
  <2> QED BY <1>5, <2>3
<1>9. SpentAt(spent, now) = SpentAt(world, now) \cup {permit}
  <2>1. {m \in 1 .. n + 1 : spent.spent[m].at = now}
          = {m \in 1 .. n : world.spent[m].at = now} \cup {n + 1}
    <3>1. \A m \in 1 .. n : spent.spent[m].at = world.spent[m].at
      BY <1>5
    <3>2. 1 .. n + 1 = (1 .. n) \cup {n + 1} /\ spent.spent[n + 1].at = now
      BY <1>2, <1>4, <1>5
    <3> QED BY <3>1, <3>2
  <2>2. spent.spent[n + 1].permit = permit
    BY <1>4, <1>5
  <2> QED BY <1>5, <1>6, <2>1, <2>2 DEF SpentAt
<1>10. KeptPermits(spent) = KeptPermits(world)
  BY <1>3 DEF KeptPermits
<1>11. Accounted(spent, underWay \cup {permit}, now)
  BY <1>3, <1>7, <1>8, <1>9, <1>10 DEF Accounted
<1> QED BY <1>3, <1>11 DEF spent, entry

LEMMA PermitKeeps ==
    ASSUME IInv, PermitCalls \/ PermitGets
    PROVE  IInv'
<1>1. stack # <<>> /\ Top.kind = "permit" /\ Top.gas \in Nat /\ Top.target \in Targets
      /\ world \in WorldStates /\ CallCost \in Nat /\ DispatchCost \in Nat /\ now \in Nat
  BY FrontOf, CostsAssumption
     DEF IInv, Typed, PermitCalls, PermitGets, Running, Answered, Frames
<1>2. UNCHANGED now
  BY DEF PermitCalls, PermitGets
<1>3. CASE PermitCalls
  <2> DEFINE permit == Top.target.permit
             left == Top.gas - DispatchCost
             spent == [world EXCEPT !.nonce = @ + 1,
                                    !.spent = Append(@, [permit |-> permit, at |-> now])]
  <2>1. Top.target.kind = "permit"
    BY <1>1, FrontOf DEF IInv, Typed, Chained, Top
  <2>2. permit \in Permits
    BY <1>1, <2>1 DEF Targets
  <2>3. permit.limit \in Nat /\ permit.deadline \in Int /\ left \in Int
    <3>1. permit.limit \in PermitLimits /\ permit.deadline \in 0 .. MaxTxs - 1
      BY <2>2 DEF Permits
    <3>2. permit.limit \in Nat
      BY <3>1, CostsAssumption
    <3>3. MaxTxs \in Nat
      BY CostsAssumption
    <3>4. permit.deadline \in Int
      <4> HIDE DEF permit
      <4> QED BY <3>1, <3>3
    <3>5. left \in Int
      BY <1>1
    <3> QED BY <3>2, <3>4, <3>5
  <2>4. answer = <<>>
    BY <1>3 DEF PermitCalls, Running
  <2>5. \/ EndIn(world, "error", 0)
        \/ left \in Nat /\ EndIn(world, "revert", left)
        \/ /\ ~Refused(permit, left)
           /\ \E target \in Targets : Call(spent, left, target, permit.limit, "signer")
    BY <1>3, <2>3 DEF PermitCalls, End
  <2>6. CASE EndIn(world, "error", 0)
    BY <1>1, <1>2, <2>6, EndKeeps
  <2>7. CASE left \in Nat /\ EndIn(world, "revert", left)
    <3> HIDE DEF left
    <3> QED BY <1>1, <1>2, <2>7, EndKeeps
  <2>8. CASE /\ ~Refused(permit, left)
             /\ \E target \in Targets : Call(spent, left, target, permit.limit, "signer")
    <3>1. PICK target \in Targets : Call(spent, left, target, permit.limit, "signer")
      <4> HIDE DEF spent, left, permit
      <4> QED BY <2>8, Zenon
    <3>2. /\ permit.nonce = world.nonce /\ now <= permit.deadline
          /\ left - CallCost - permit.limit \in Nat
      <4> HIDE DEF spent, left, permit
      <4>1. ~Refused(permit, left)
        BY <2>8, Zenon
      <4> QED BY <1>1, <2>3, <4>1 DEF Refused
    <3>3. spent \in WorldStates
          /\ Accounted(spent, PermitsUpTo(Len(stack)) \cup {permit}, now)
      BY <2>2, <3>2, WorldAccounted, SpendingAccounted
    <3>4. "signer" \in Callers
      BY DEF Callers
    <3> HIDE DEF spent, left
    <3> QED BY <1>1, <1>2, <2>3, <2>4, <3>1, <3>2, <3>3, <3>4, CallKeeps
  <2> QED BY <2>5, <2>6, <2>7, <2>8
<1>4. CASE PermitGets
  <2>1. answer # <<>> /\ answer[1] \in Answers
    BY <1>4, Answer DEF PermitGets, Answered
  <2>2. EndIn(world, answer[1].outcome, Top.gas + answer[1].gas)
    BY <1>4 DEF PermitGets, End
  <2>3. Top.gas + answer[1].gas \in Nat
        /\ answer[1].outcome \in {"succeed", "revert", "error", "fatal"}
    BY <1>1, <2>1 DEF Answers
  <2> QED BY <1>1, <1>2, <2>1, <2>2, <2>3, EndKeeps
<1> QED BY <1>3, <1>4

LEMMA TransactKeeps ==
    ASSUME IInv, Transact
    PROVE  IInv'
<1>1. PICK target \in Targets :
        stack' = <<[target |-> target, kind |-> target.kind, gas |-> TxGas,
                    caller |-> "sender", made |-> 0, path |-> <<>>, before |-> world]>>
  BY DEF Transact
<1> DEFINE f == [target |-> target, kind |-> target.kind, gas |-> TxGas,
                 caller |-> "sender", made |-> 0, path |-> <<>>, before |-> world]
<1>2. /\ stack = <<>> /\ answer = <<>> /\ UNCHANGED <<answer, world, now>>
      /\ world \in WorldStates /\ now \in Nat
  BY DEF Transact, IInv, Typed
<1>3. f \in Frames /\ f.kind = f.target.kind /\ f.made = 0 /\ f.before = world
  <2>1. target.kind \in {"batch", "permit", "code"}
    BY DEF Targets
  <2>2. TxGas \in Nat /\ <<>> \in Seq(Nat) /\ "sender" \in Callers
    BY CostsAssumption DEF Callers
  <2> QED BY <1>2, <2>1, <2>2 DEF Frames
<1>4. stack' = <<f>>
  BY <1>1
<1> HIDE DEF f
<1>5. stack' \in Seq(Frames) /\ Len(stack') = 1 /\ stack'[1] = f
  BY <1>3, <1>4
<1>6. Typed'
  BY <1>2, <1>5 DEF IInv, Typed
<1>7. LogsReserved' /\ Chained'
  BY <1>2, <1>3, <1>5 DEF LogsReserved, Chained
<1>8. WorldsAccounted'
  <2>1. Accounted(world, {}, now)
    <3>1. PermitsUpTo(Len(stack)) = {}
      BY <1>2 DEF PermitsUpTo
    <3> QED BY <3>1, WorldAccounted
  <2> SUFFICES ASSUME NEW i \in 0 .. 1
               PROVE  Accounted(WorldAt(i)', PermitsUpTo(i)', now)
    BY <1>2, <1>5 DEF WorldsAccounted
  <2>2. WorldAt(i)' = world
    BY <1>2, <1>3, <1>5 DEF WorldAt
  <2>3. PermitsUpTo(i)' = {}
    BY <1>3, <1>5 DEF PermitsUpTo
  <2> QED BY <2>1, <2>2, <2>3
<1>9. AnswerHonest'
  BY <1>2 DEF AnswerHonest
<1> QED BY <1>6, <1>7, <1>8, <1>9 DEF IInv

LEMMA ForgetKeeps ==
    ASSUME IInv, Forget
    PROVE  IInv'
<1> DEFINE w == [world EXCEPT !.kept = {}, !.logs = {}]
<1>1. /\ stack = <<>> /\ stack' = <<>> /\ answer' = <<>> /\ now' = now + 1 /\ world' = w
      /\ now \in Nat /\ world \in WorldStates
  BY DEF Forget, IInv, Typed
<1>2. w \in WorldStates /\ w.kept = {} /\ w.spent = world.spent /\ w.nonce = world.nonce
  BY <1>1 DEF WorldStates
<1> HIDE DEF w
<1>3. Accounted(world, {}, now)
  <2>1. PermitsUpTo(Len(stack)) = {}
    BY <1>1 DEF PermitsUpTo
  <2> QED BY <2>1, WorldAccounted
<1>4. world.spent \in Seq([permit : Permits, at : Nat])
  BY <1>1 DEF WorldStates
<1>5. \A m \in 1 .. Len(w.spent) : w.spent[m].at <= now /\ w.spent[m].at \in Nat
  <2>1. \A m \in 1 .. Len(world.spent) : world.spent[m].at <= now
    BY <1>3 DEF Accounted
  <2>2. \A m \in 1 .. Len(world.spent) : world.spent[m].at \in Nat
    <3> TAKE m \in 1 .. Len(world.spent)
    <3>1. world.spent[m] \in [permit : Permits, at : Nat]
      BY <1>4, ElementOf
    <3> QED BY <3>1
  <2> QED BY <1>2, <2>1, <2>2
<1>6. Accounted(w, {}, now + 1)
  <2>1. InOrder(w)
    BY <1>2, <1>3 DEF Accounted, InOrder
  <2>2. SpentAt(w, now + 1) = {}
    <3>1. DOMAIN w.spent = 1 .. Len(w.spent)
      BY <1>2, <1>4
    <3> QED BY <1>1, <1>5, <3>1 DEF SpentAt
  <2>3. KeptPermits(w) = {}
    BY <1>2 DEF KeptPermits
  <2> QED BY <1>1, <1>2, <1>5, <2>1, <2>2, <2>3 DEF Accounted
<1>7. WorldsAccounted'
  <2>1. WorldAt(0)' = w /\ PermitsUpTo(0)' = {}
    BY <1>1 DEF WorldAt, PermitsUpTo
  <2>2. \A i \in 0 .. Len(stack') : i = 0
    BY <1>1
  <2>3. \A i \in 0 .. Len(stack') : Accounted(WorldAt(i)', PermitsUpTo(i)', now')
    <3> TAKE i \in 0 .. Len(stack')
    <3>1. i = 0
      BY <2>2
    <3> QED BY <1>1, <1>6, <2>1, <3>1
  <2> QED BY <2>3 DEF WorldsAccounted
<1>8. Typed' /\ LogsReserved' /\ Chained' /\ AnswerHonest'
  BY <1>1, <1>2 DEF IInv, Typed, LogsReserved, Chained, AnswerHonest
<1> QED BY <1>7, <1>8 DEF IInv

-----------------------------------------------------------------------------
(* What is kept and logged, and under whose name it ran                    *)

CallOf(f) == [path |-> f.path, target |-> f.target, caller |-> f.caller]
Paths(w) == {c.path : c \in w.kept} \cup {log.path : log \in w.logs}

\* Where a path lies, seen from the first i frames of s: along the way that leads to the
\* call the i-th makes, or off it at an earlier call of one of them.
Along(s, q, i) == i <= Len(q) /\ \A j \in 1 .. i : q[j] = s[j].made
Before(s, q, i) ==
    \E m \in 1 .. i : m <= Len(q) /\ q[m] < s[m].made /\ \A j \in 1 .. m - 1 : q[j] = s[j].made

\* The path of a frame is made of the calls that lead to it.
Trail(s) ==
    \A i \in 1 .. Len(s) :
        /\ Len(s[i].path) = i - 1
        /\ \A j \in 1 .. i - 1 : s[i].path[j] = s[j].made

KeepsIn(w, p) == \E c \in w.kept : c.path = p
KeepsBelowIn(w, p) == \E c \in w.kept : IsPrefix(p, c.path)
LoggedIn(w, p, ok) == [path |-> p, ok |-> ok] \in w.logs
AttemptedIn(w, p) == LoggedIn(w, p, TRUE) \/ LoggedIn(w, p, FALSE)

TruthIn(w) ==
    \A log \in w.logs : IF log.ok THEN KeepsIn(w, log.path) ELSE ~KeepsBelowIn(w, log.path)

\* What BatchesKeepPromises says of one batch.
PromiseKept(w, b) ==
    LET call(i) == Append(b.path, i)
        size    == b.target.size
    IN  /\ \A i \in 1 .. size : ~(LoggedIn(w, call(i), TRUE) /\ LoggedIn(w, call(i), FALSE))
        /\ \A i \in 2 .. size : AttemptedIn(w, call(i)) => AttemptedIn(w, call(i - 1))
        /\ b.target.mode = "all" => \A i \in 1 .. size : KeepsIn(w, call(i))
        /\ b.target.mode = "untilFailure" =>
              \A i \in 2 .. size : AttemptedIn(w, call(i)) => KeepsIn(w, call(i - 1))

PromisesIn(w) == \A b \in w.kept : b.target.kind = "batch" => PromiseKept(w, b)

\* The first d calls of the frame f are through, as its mode wants it.
Through(w, f, d) ==
    f.kind = "batch" => \A k \in 1 .. d :
        /\ AttemptedIn(w, Append(f.path, k))
        /\ f.target.mode # "some" => KeepsIn(w, Append(f.path, k))

\* What NamesAreLent says of a set of calls.
LentFor(C, c) ==
    c.caller # "contract" =>
        \/ c.caller = "sender" /\ \A b \in C :
              IsStrictPrefix(b.path, c.path) => b.target.kind = "batch"
        \/ c.caller = "signer" /\ \E d \in C :
              /\ d.target.kind = "permit" /\ IsStrictPrefix(d.path, c.path)
              /\ \A b \in C : IsStrictPrefix(d.path, b.path) /\ IsStrictPrefix(b.path, c.path)
                    => b.target.kind = "batch"

\* The calls of a world that the first i frames live in: kept, or begun.
Begun(s, i) == {CallOf(s[j]) : j \in 1 .. i}
NamesLentIn(s, w, i) ==
    \A c \in w.kept \cup Begun(s, i) : LentFor(w.kept \cup Begun(s, i), c)

\* A world that the first i frames live in, d calls of the last of them being through.
Sound(s, w, i, d) ==
    /\ TruthIn(w) /\ PromisesIn(w) /\ NamesLentIn(s, w, i)
    /\ Paths(w) \subseteq Seq(1 .. MaxCalls)
    /\ \A j \in 1 .. i : Through(w, s[j], IF j = i THEN d ELSE s[j].made - 1)

\* The world the i-th frame comes back to, should its call come to nothing.
SoundBefore(s, w, i) ==
    /\ Sound(s, w, i, s[i].made - 1)
    /\ \A q \in Paths(w) : Before(s, q, i)

\* The world it goes on in otherwise.
SoundAfter(s, w, i, d) ==
    /\ Sound(s, w, i, d)
    /\ i > 0 => \A q \in Paths(w) : Before(s, q, i) \/ Along(s, q, i)

\* What a caller is told of its call p is so.
AnswerTrue(w, p, outcome) ==
    IF outcome = "succeed" THEN KeepsIn(w, p) ELSE ~KeepsBelowIn(w, p)

WorldsSound ==
    /\ \A i \in 0 .. Len(stack) - 1 : SoundBefore(stack, stack[i + 1].before, i)
    /\ SoundAfter(stack, world, Len(stack),
                  IF answer = <<>> THEN Top.made ELSE Top.made - 1)
    /\ stack # <<>> /\ answer # <<>> =>
          AnswerTrue(world, Append(Top.path, Top.made), answer[1].outcome)
    /\ stack = <<>> /\ answer = <<>> => Paths(world) = {}

\* A frame makes the calls of its list: one that waits has made one, and the path to it is
\* within the bounds.
Ranged(s, a) ==
    \A i \in 1 .. Len(s) :
        /\ s[i].made <= s[i].target.size
        /\ i < Len(s) \/ a # <<>> => s[i].made >= 1
        /\ s[i].path \in Seq(1 .. MaxCalls)

\* What the i-th frame and those above it have is no more than the i-th was given.
Spare(a) == IF a = <<>> THEN 0 ELSE a[1].gas
Budgeted(s, a) ==
    \E given \in [1 .. Len(s) -> 0 .. TxGas] : \A i \in 1 .. Len(s) :
        s[i].gas + (IF i < Len(s) THEN given[i + 1] ELSE Spare(a)) <= given[i]

Bounded ==
    /\ Ranged(stack, answer) /\ Budgeted(stack, answer)
    /\ Spare(answer) <= TxGas
    /\ now < MaxTxs

WInv == Trail(stack) /\ WorldsSound

-----------------------------------------------------------------------------
(* Paths                                                                   *)

LEMMA Extended ==
    ASSUME NEW S, NEW p \in Seq(S), NEW k \in S
    PROVE  /\ Append(p, k) \in Seq(S) /\ Len(Append(p, k)) = Len(p) + 1
           /\ \A j \in 1 .. Len(p) : Append(p, k)[j] = p[j]
           /\ Append(p, k)[Len(p) + 1] = k
           /\ Len(p) \in Nat /\ \A j \in 1 .. Len(p) : p[j] \in S
OBVIOUS

LEMMA PrefixIs ==
    ASSUME NEW p \in Seq(Nat), NEW q \in Seq(Nat)
    PROVE  IsPrefix(p, q) <=> Len(p) <= Len(q) /\ \A j \in 1 .. Len(p) : p[j] = q[j]
<1> DEFINE n == Len(p)
<1>1. n \in Nat /\ Len(q) \in Nat /\ \A j \in 1 .. n : p[j] \in Nat
  OBVIOUS
<1>2. SubSeq(p, 1, n) \in Seq(Nat) /\ Len(SubSeq(p, 1, n)) = n
      /\ \A j \in 1 .. n : SubSeq(p, 1, n)[j] = p[j]
  BY <1>1, Firsts
<1>3. ASSUME n <= Len(q)
      PROVE  SubSeq(q, 1, n) \in Seq(Nat) /\ Len(SubSeq(q, 1, n)) = n
             /\ \A j \in 1 .. n : SubSeq(q, 1, n)[j] = q[j]
  <2>1. \A j \in 1 .. n : q[j] \in Nat
    BY <1>1, <1>3
  <2> QED BY <1>1, <2>1, Firsts
<1> HIDE DEF n
<1>4. ASSUME n <= Len(q), \A j \in 1 .. n : p[j] = q[j]
      PROVE  SubSeq(p, 1, n) = SubSeq(q, 1, n)
  <2>1. \A j \in 1 .. n : SubSeq(p, 1, n)[j] = SubSeq(q, 1, n)[j]
    BY <1>2, <1>3, <1>4
  <2>2. PICK u \in Seq(Nat), v \in Seq(Nat) :
            u = SubSeq(p, 1, n) /\ v = SubSeq(q, 1, n)
    BY <1>2, <1>3, <1>4
  <2>3. Len(u) = n /\ Len(v) = n /\ \A j \in 1 .. n : u[j] = v[j]
    BY <1>2, <1>3, <1>4, <2>1, <2>2
  <2>4. u = v
    BY <2>3, SeqEqual
  <2> QED BY <2>2, <2>4
<1>5. ASSUME n <= Len(q), SubSeq(p, 1, n) = SubSeq(q, 1, n)
      PROVE  \A j \in 1 .. n : p[j] = q[j]
  BY <1>2, <1>3, <1>5
<1> QED BY <1>4, <1>5 DEF IsPrefix, n

\* A prefix of a path and one step more is that or a prefix of the path.
LEMMA PrefixOfExtended ==
    ASSUME NEW q \in Seq(Nat), NEW p \in Seq(Nat), NEW k \in Nat
    PROVE  IsStrictPrefix(q, Append(p, k)) <=> IsPrefix(q, p)
<1> DEFINE e == Append(p, k)
<1>1. /\ e \in Seq(Nat) /\ Len(e) = Len(p) + 1
      /\ \A j \in 1 .. Len(p) : e[j] = p[j]
      /\ e[Len(p) + 1] = k
      /\ Len(p) \in Nat /\ Len(q) \in Nat
  BY Extended
<1> HIDE DEF e
<1>2. IsPrefix(q, e) <=> Len(q) <= Len(e) /\ \A j \in 1 .. Len(q) : q[j] = e[j]
  BY <1>1, PrefixIs
<1>3. IsPrefix(q, p) <=> Len(q) <= Len(p) /\ \A j \in 1 .. Len(q) : q[j] = p[j]
  BY PrefixIs
<1>4. ASSUME IsPrefix(q, p) PROVE IsPrefix(q, e) /\ q # e
  BY <1>1, <1>2, <1>3, <1>4
<1>5. ASSUME IsPrefix(q, e), q # e PROVE IsPrefix(q, p)
  <2>1. CASE Len(q) = Len(e)
    <3>1. q = e
      BY <1>1, <1>2, <1>5, <2>1, SeqEqual
    <3> QED BY <1>5, <3>1
  <2>2. CASE Len(q) # Len(e)
    BY <1>1, <1>2, <1>3, <1>5, <2>2
  <2> QED BY <2>1, <2>2
<1> QED BY <1>4, <1>5 DEF IsStrictPrefix, e

LEMMA ExtendedInjective ==
    ASSUME NEW p \in Seq(Nat), NEW q \in Seq(Nat), NEW k \in Nat, NEW m \in Nat,
           Append(p, k) = Append(q, m)
    PROVE  p = q /\ k = m
<1>1. Len(p) = Len(q)
  BY Extended
<1>2. \A j \in 1 .. Len(p) : p[j] = q[j]
  BY <1>1, Extended
<1>3. p = q
  BY <1>1, <1>2, SeqEqual
<1>4. k = m
  BY <1>1, Extended
<1> QED BY <1>3, <1>4

-----------------------------------------------------------------------------
(* Where paths lie                                                         *)

\* Off the way before the call under way: neither above nor below it.
LEMMA OffTheWay ==
    ASSUME NEW s \in Seq(Frames), NEW i \in 0 .. Len(s), NEW q \in Seq(Nat), Before(s, q, i),
           NEW p \in Seq(Nat), Along(s, p, i)
    PROVE  ~IsPrefix(p, q) /\ ~IsPrefix(q, p)
<1>1. PICK m \in 1 .. i : m <= Len(q) /\ q[m] < s[m].made
  BY DEF Before
<1>2. m \in 1 .. Len(s) /\ s[m] \in Frames
  <2>1. Len(s) \in Nat
    OBVIOUS
  <2>2. m \in 1 .. Len(s)
    BY <2>1
  <2> QED BY <2>2
<1>3. s[m].made \in Nat
  BY <1>2 DEF Frames
<1>4. i <= Len(p) /\ p[m] = s[m].made
  BY DEF Along
<1>5. m \in 1 .. Len(p) /\ m \in 1 .. Len(q) /\ q[m] \in Nat
  <2>1. Len(p) \in Nat /\ Len(q) \in Nat /\ Len(s) \in Nat
    OBVIOUS
  <2>2. m \in 1 .. Len(p) /\ m \in 1 .. Len(q)
    BY <1>1, <1>4, <2>1
  <2> QED BY <2>2
<1>6. p[m] # q[m]
  BY <1>1, <1>3, <1>4, <1>5
<1> QED BY <1>5, <1>6, PrefixIs

\* What is through lies above no frame.
LEMMA NotAbove ==
    ASSUME NEW s \in Seq(Frames), Trail(s), NEW q \in Seq(Nat), NEW n \in Nat, n = Len(s),
           Before(s, q, n) \/ Along(s, q, n), NEW j \in 1 .. n
    PROVE  ~IsPrefix(q, s[j].path)
<1>1. s[j] \in Frames /\ Len(q) \in Nat
  OBVIOUS
<1>2. s[j].path \in Seq(Nat)
  BY <1>1 DEF Frames
<1>3. /\ Len(s[j].path) = j - 1
      /\ \A i \in 1 .. j - 1 : s[j].path[i] = s[i].made
  BY DEF Trail
<1> SUFFICES ASSUME IsPrefix(q, s[j].path) PROVE FALSE
  OBVIOUS
<1>4. Len(q) <= j - 1 /\ \A i \in 1 .. Len(q) : q[i] = s[j].path[i]
  BY <1>2, <1>3, PrefixIs
<1>5. ~Along(s, q, n)
  BY <1>1, <1>4 DEF Along
<1>6. PICK m \in 1 .. n : m <= Len(q) /\ q[m] < s[m].made
  BY <1>5 DEF Before
<1>7. m \in 1 .. Len(q) /\ m \in 1 .. j - 1
  BY <1>1, <1>4, <1>6
<1>8. q[m] = s[m].made
  BY <1>3, <1>4, <1>7
<1>9. s[m] \in Frames
  OBVIOUS
<1>10. s[m].made \in Nat
  BY <1>9 DEF Frames
<1> QED BY <1>6, <1>8, <1>10

LEMMA WayBack ==
    ASSUME NEW s, NEW q, Len(q) \in Nat, NEW n \in Nat \ {0},
           Before(s, q, n) \/ Along(s, q, n)
    PROVE  Before(s, q, n - 1) \/ Along(s, q, n - 1)
<1>1. CASE Along(s, q, n)
  BY <1>1 DEF Along
<1>2. CASE Before(s, q, n)
  <2>1. PICK m \in 1 .. n : /\ m <= Len(q) /\ q[m] < s[m].made
                            /\ \A j \in 1 .. m - 1 : q[j] = s[j].made
    BY <1>2 DEF Before
  <2>2. CASE m = n
    BY <2>1, <2>2 DEF Along
  <2>3. CASE m # n
    <3>1. m \in 1 .. n - 1
      BY <2>3
    <3> QED BY <2>1, <3>1 DEF Before
  <2> QED BY <2>2, <2>3
<1> QED BY <1>1, <1>2

\* What was through before the next call was made.
LEMMA OnceMore ==
    ASSUME NEW s, NEW t, NEW q \in Seq(Nat), NEW n \in Nat \ {0},
           Before(s, q, n) \/ Along(s, q, n),
           s[n].made \in Nat, t[n].made = s[n].made + 1,
           \A j \in 1 .. n - 1 : t[j].made = s[j].made
    PROVE  Before(t, q, n)
<1>1. CASE Along(s, q, n)
  <2>1. n <= Len(q) /\ q[n] < t[n].made
    BY <1>1 DEF Along
  <2>2. \A j \in 1 .. n - 1 : q[j] = t[j].made
    BY <1>1 DEF Along
  <2>3. n \in 1 .. n
    OBVIOUS
  <2> QED BY <2>1, <2>2, <2>3 DEF Before
<1>2. CASE Before(s, q, n)
  <2>1. PICK m \in 1 .. n : /\ m <= Len(q) /\ q[m] < s[m].made
                            /\ \A j \in 1 .. m - 1 : q[j] = s[j].made
    BY <1>2 DEF Before
  <2>2. \A j \in 1 .. m - 1 : q[j] = t[j].made
    BY <2>1
  <2>0. m \in 1 .. Len(q) /\ q[m] \in Nat
    <3>1. Len(q) \in Nat
      OBVIOUS
    <3>2. m \in 1 .. Len(q)
      BY <2>1, <3>1
    <3> QED BY <3>2
  <2>3. CASE m = n
    <3>1. q[m] < t[m].made
      BY <2>0, <2>1, <2>3
    <3> QED BY <2>1, <2>2, <3>1 DEF Before
  <2>4. CASE m # n
    <3>1. m \in 1 .. n - 1
      BY <2>4
    <3> QED BY <2>1, <2>2, <3>1 DEF Before
  <2> QED BY <2>1, <2>3, <2>4
<1> QED BY <1>1, <1>2

LEMMA SameWay ==
    ASSUME NEW s, NEW t, NEW q, NEW i \in Nat, \A j \in 1 .. i : t[j].made = s[j].made
    PROVE  (Before(t, q, i) <=> Before(s, q, i)) /\ (Along(t, q, i) <=> Along(s, q, i))
BY DEF Before, Along

\* The way to a call of the n-th frame.
LEMMA WayToCall ==
    ASSUME NEW s \in Seq(Frames), Trail(s), NEW n \in 1 .. Len(s), NEW k \in Nat
    PROVE  LET p == Append(s[n].path, k) IN
           /\ s[n].path \in Seq(Nat) /\ p \in Seq(Nat) /\ Len(s[n].path) = n - 1
           /\ Along(s, s[n].path, n - 1) /\ Len(p) = n /\ p[n] = k
           /\ \A j \in 1 .. n - 1 : p[j] = s[j].made
<1> DEFINE p == Append(s[n].path, k)
<1>1. s[n] \in Frames /\ n \in Nat \ {0}
  OBVIOUS
<1>2. s[n].path \in Seq(Nat)
  BY <1>1 DEF Frames
<1>3. Len(s[n].path) = n - 1 /\ \A j \in 1 .. n - 1 : s[n].path[j] = s[j].made
  BY DEF Trail
<1>4. /\ p \in Seq(Nat) /\ Len(p) = n - 1 + 1 /\ p[n - 1 + 1] = k
      /\ \A j \in 1 .. n - 1 : p[j] = s[n].path[j]
  BY <1>2, <1>3, Extended
<1>5. n - 1 + 1 = n
  BY <1>1
<1> HIDE DEF p
<1>6. Along(s, s[n].path, n - 1)
  BY <1>1, <1>3 DEF Along
<1>7. p \in Seq(Nat) /\ Len(p) = n /\ p[n] = k /\ \A j \in 1 .. n - 1 : p[j] = s[j].made
  BY <1>3, <1>4, <1>5
<1> QED BY <1>2, <1>3, <1>6, <1>7 DEF p

\* The same, to be cited of one path.
OnWay(s, n, k, p) == Len(p) = n /\ p[n] = k /\ \A j \in 1 .. n - 1 : p[j] = s[j].made

LEMMA OnWayTo ==
    ASSUME NEW s \in Seq(Frames), Trail(s), NEW n \in 1 .. Len(s), NEW k \in Nat
    PROVE  OnWay(s, n, k, Append(s[n].path, k))
BY WayToCall DEF OnWay

-----------------------------------------------------------------------------
(* Sound worlds                                                            *)

\* The first i frames are the same calls, and all but the last made as many.
Alike(s, t, i) ==
    /\ \A j \in 1 .. i : /\ t[j].path = s[j].path /\ t[j].target = s[j].target
                         /\ t[j].caller = s[j].caller /\ t[j].kind = s[j].kind
    /\ \A j \in 1 .. i - 1 : t[j].made = s[j].made

LEMMA BegunAlike ==
    ASSUME NEW s, NEW t, NEW i \in Nat, Alike(s, t, i)
    PROVE  Begun(t, i) = Begun(s, i)
<1>1. \A j \in 1 .. i : CallOf(t[j]) = CallOf(s[j])
  BY DEF Alike, CallOf
<1> QED BY <1>1 DEF Begun

LEMMA SoundAlike ==
    ASSUME NEW s, NEW t, NEW i \in Nat, Alike(s, t, i),
           NEW w, NEW v, v.kept = w.kept, v.logs = w.logs, NEW d, Sound(s, w, i, d)
    PROVE  Sound(t, v, i, d)
<1>1. Paths(v) \subseteq Seq(1 .. MaxCalls)
  BY DEF Sound, Paths
<1>2. TruthIn(v)
  BY DEF Sound, TruthIn, KeepsIn, KeepsBelowIn
<1>3. PromisesIn(v)
  BY DEF Sound, PromisesIn, PromiseKept, KeepsIn, AttemptedIn, LoggedIn
<1>4. NamesLentIn(t, v, i)
  BY BegunAlike DEF Sound, NamesLentIn
<1>5. \A j \in 1 .. i : Through(v, t[j], IF j = i THEN d ELSE t[j].made - 1)
  <2> TAKE j \in 1 .. i
  <2>1. Through(w, s[j], IF j = i THEN d ELSE s[j].made - 1)
    BY DEF Sound
  <2>2. j # i => t[j].made = s[j].made
    BY DEF Alike
  <2>3. (IF j = i THEN d ELSE t[j].made - 1) = (IF j = i THEN d ELSE s[j].made - 1)
    BY <2>2
  <2>4. t[j].path = s[j].path /\ t[j].target = s[j].target /\ t[j].kind = s[j].kind
    BY DEF Alike
  <2> QED BY <2>1, <2>3, <2>4 DEF Through, AttemptedIn, LoggedIn, KeepsIn
<1> QED BY <1>1, <1>2, <1>3, <1>4, <1>5 DEF Sound

\* The paths of a world are sequences of numbers.
LEMMA PathsTyped ==
    ASSUME NEW w \in WorldStates
    PROVE  /\ \A q \in Paths(w) : q \in Seq(Nat)
           /\ \A c \in w.kept : c.path \in Paths(w) /\ c.target \in Targets /\ c.caller \in Callers
           /\ \A log \in w.logs : log.path \in Paths(w) /\ log.ok \in BOOLEAN
                                  /\ log = [path |-> log.path, ok |-> log.ok]
<1>1. \A c \in w.kept : c \in Kept
  BY DEF WorldStates
<1>2. \A log \in w.logs : log \in [path : Seq(Nat), ok : BOOLEAN]
  BY DEF WorldStates
<1> QED BY <1>1, <1>2 DEF Paths, Kept

\* What the top frame has not come to is neither kept nor logged.
LEMMA NotYet ==
    ASSUME NEW s \in Seq(Frames), Trail(s), NEW n \in 1 .. Len(s), NEW k \in Nat,
           k > s[n].made, NEW q, Before(s, q, n) \/ Along(s, q, n)
    PROVE  q # Append(s[n].path, k)
<1>1. s[n] \in Frames /\ n \in Nat \ {0}
  OBVIOUS
<1>2. s[n].made \in Nat
  BY <1>1 DEF Frames
<1> SUFFICES ASSUME q = Append(s[n].path, k) PROVE FALSE
  OBVIOUS
<1>3. q[n] = k /\ \A j \in 1 .. n - 1 : q[j] = s[j].made
  BY WayToCall
<1>4. ~Along(s, q, n)
  BY <1>1, <1>2, <1>3 DEF Along
<1>5. PICK m \in 1 .. n : q[m] < s[m].made
  BY <1>4 DEF Before
<1>6. s[m] \in Frames
  OBVIOUS
<1>7. s[m].made \in Nat
  BY <1>6 DEF Frames
<1>8. m = n \/ m \in 1 .. n - 1
  BY <1>1
<1>9. CASE m = n
  <2>1. k < s[n].made
    BY <1>3, <1>5, <1>9
  <2> HIDE DEF Before, Along
  <2> QED BY ONLY <2>1, <1>2, k \in Nat, k > s[n].made
<1>10. CASE m \in 1 .. n - 1
  <2>1. q[m] = s[m].made
    BY <1>3, <1>10
  <2> QED BY <1>5, <1>7, <2>1
<1> QED BY <1>8, <1>9, <1>10

\* What an entry of a log is to say of the call p; w with that entry is v; and what v is then.
LogFits(w, p, ok) == IF ok THEN KeepsIn(w, p) ELSE ~KeepsBelowIn(w, p)
LogPut(w, v, p, ok) ==
    v.kept = w.kept /\ v.logs = w.logs \cup {[path |-> p, ok |-> ok]}
LogTaken(s, n, w, v, d, p, ok) ==
    /\ Sound(s, v, n, d) /\ Paths(v) = Paths(w) \cup {p}
    /\ LoggedIn(v, p, ok) /\ (ok => KeepsIn(v, p))

\* A log of a call that is true keeps a world sound.
LEMMA LogSound ==
    ASSUME NEW s \in Seq(Frames), Trail(s), NEW n \in Nat \ {0}, n = Len(s),
           NEW w \in WorldStates, NEW d, SoundAfter(s, w, n, d),
           NEW k \in 1 .. MaxCalls, s[n].path \in Seq(1 .. MaxCalls), NEW ok \in BOOLEAN,
           LogFits(w, Append(s[n].path, k), ok),
           NEW v, LogPut(w, v, Append(s[n].path, k), ok)
    PROVE  LogTaken(s, n, w, v, d, Append(s[n].path, k), ok)
<1> DEFINE p == Append(s[n].path, k)
           log == [path |-> p, ok |-> ok]
<1>0. k \in Nat /\ n \in 1 .. Len(s)
  BY CostsAssumption
<1>1. /\ s[n].path \in Seq(Nat) /\ p \in Seq(Nat)
  BY <1>0, WayToCall
<1>2. p \in Seq(1 .. MaxCalls)
  BY Extended
<1>3. log.path = p /\ log.ok = ok
  OBVIOUS
<1> HIDE DEF p, log
<1>4. v.kept = w.kept /\ v.logs = w.logs \cup {log}
  BY DEF LogPut, log, p
<1>5. \A q : (KeepsIn(v, q) <=> KeepsIn(w, q)) /\ (KeepsBelowIn(v, q) <=> KeepsBelowIn(w, q))
  BY <1>4 DEF KeepsIn, KeepsBelowIn
<1>6. IF ok THEN KeepsIn(w, p) ELSE ~KeepsBelowIn(w, p)
  BY DEF LogFits, p
<1>7. Paths(v) = Paths(w) \cup {p}
  BY <1>3, <1>4 DEF Paths
<1>8. TruthIn(v)
  BY <1>3, <1>4, <1>5, <1>6 DEF SoundAfter, Sound, TruthIn
<1>9. PromisesIn(v)
  <2> SUFFICES ASSUME NEW b \in w.kept, b.target.kind = "batch", PromiseKept(w, b)
               PROVE  PromiseKept(v, b)
    BY <1>4 DEF PromisesIn, SoundAfter, Sound
  <2>1. b.path \in Paths(w) /\ b.path \in Seq(Nat)
    BY PathsTyped
  <2>2. b.path # s[n].path
    <3>1. Before(s, b.path, n) \/ Along(s, b.path, n)
      BY <2>1 DEF SoundAfter
    <3>2. ~IsPrefix(b.path, s[n].path)
      BY <1>0, <2>1, <3>1, NotAbove
    <3>3. IsPrefix(s[n].path, s[n].path)
      BY <1>1, PrefixIs
    <3> QED BY <3>2, <3>3
  <2>3. \A i \in Nat : \A o : LoggedIn(v, Append(b.path, i), o) <=> LoggedIn(w, Append(b.path, i), o)
    <3> TAKE i \in Nat
    <3> TAKE o
    <3>1. Append(b.path, i) # p
      <4>1. PICK x \in Seq(Nat), y \in Seq(Nat), m \in Nat :
               x = b.path /\ y = s[n].path /\ m = k
        BY <1>0, <1>1, <2>1
      <4>2. ASSUME Append(x, i) = Append(y, m) PROVE FALSE
        <5>1. x = y
          BY <4>2, ExtendedInjective
        <5> QED BY <5>1, <4>1, <2>2
      <4> QED BY <4>1, <4>2 DEF p
    <3>2. [path |-> Append(b.path, i), ok |-> o] # log
      BY <1>3, <3>1
    <3> QED BY <1>4, <3>2 DEF LoggedIn
  <2>4. \A i \in Nat : AttemptedIn(v, Append(b.path, i)) <=> AttemptedIn(w, Append(b.path, i))
    BY <2>3 DEF AttemptedIn
  <2>5. \A i \in 2 .. b.target.size : i \in Nat /\ i - 1 \in Nat
    OBVIOUS
  <2>6. \A i \in 1 .. b.target.size : i \in Nat
    OBVIOUS
  <2> QED BY <1>5, <2>3, <2>4, <2>5, <2>6 DEF PromiseKept
<1>10. NamesLentIn(s, v, n)
  BY <1>4 DEF SoundAfter, Sound, NamesLentIn
<1>11. \A j \in 1 .. n : Through(v, s[j], IF j = n THEN d ELSE s[j].made - 1)
  <2> TAKE j \in 1 .. n
  <2>1. Through(w, s[j], IF j = n THEN d ELSE s[j].made - 1)
    BY DEF SoundAfter, Sound
  <2>2. \A q : AttemptedIn(w, q) => AttemptedIn(v, q)
    BY <1>4 DEF AttemptedIn, LoggedIn
  <2> QED BY <1>5, <2>1, <2>2 DEF Through
<1>12. Paths(v) \subseteq Seq(1 .. MaxCalls)
  BY <1>2, <1>7 DEF SoundAfter, Sound
<1>13. Sound(s, v, n, d)
  BY <1>8, <1>9, <1>10, <1>11, <1>12 DEF Sound
<1>14. LoggedIn(v, p, ok) /\ (ok => KeepsIn(v, p))
  BY <1>4, <1>5, <1>6 DEF LoggedIn, log
<1>15. LogTaken(s, n, w, v, d, p, ok)
  BY <1>7, <1>13, <1>14 DEF LogTaken
<1> QED BY <1>15 DEF p

\* One call more is through.
LEMMA MoreThrough ==
    ASSUME NEW s, NEW w, NEW n \in Nat \ {0}, NEW d \in Int, Sound(s, w, n, d),
           AttemptedIn(w, Append(s[n].path, d + 1)),
           s[n].target.mode # "some" => KeepsIn(w, Append(s[n].path, d + 1))
    PROVE  Sound(s, w, n, d + 1)
<1>1. Through(w, s[n], d)
  BY DEF Sound
<1>2. \A k \in 1 .. d + 1 : k \in 1 .. d \/ k = d + 1
  OBVIOUS
<1>3. Through(w, s[n], d + 1)
  BY <1>1, <1>2 DEF Through
<1>4. \A j \in 1 .. n : Through(w, s[j], IF j = n THEN d + 1 ELSE s[j].made - 1)
  BY <1>3 DEF Sound
<1> QED BY <1>4 DEF Sound

\* What a batch that ends has done is what it promises.
LEMMA PromiseFrom ==
    ASSUME NEW w, TruthIn(w), NEW b, b.path \in Seq(Nat),
           NEW size \in Nat, size = b.target.size, NEW m \in 0 .. size,
           \A k \in 1 .. m : AttemptedIn(w, Append(b.path, k)),
           \A k \in Nat : k > m => ~AttemptedIn(w, Append(b.path, k)),
           b.target.mode = "all" => m = size /\ \A k \in 1 .. m : KeepsIn(w, Append(b.path, k)),
           b.target.mode = "untilFailure" => \A k \in 1 .. m - 1 : KeepsIn(w, Append(b.path, k))
    PROVE  PromiseKept(w, b)
<1>1. ASSUME NEW i \in 1 .. size,
             LoggedIn(w, Append(b.path, i), TRUE), LoggedIn(w, Append(b.path, i), FALSE)
      PROVE  FALSE
  <2> DEFINE q == Append(b.path, i)
  <2>1. i \in Nat /\ q \in Seq(Nat)
    BY Extended
  <2> HIDE DEF q
  <2>2. KeepsIn(w, q)
    <3> DEFINE log == [path |-> q, ok |-> TRUE]
    <3>1. log \in w.logs /\ log.path = q /\ log.ok = TRUE
      BY <1>1 DEF LoggedIn, q
    <3> HIDE DEF log
    <3> QED BY <3>1 DEF TruthIn
  <2>3. ~KeepsBelowIn(w, q)
    <3> DEFINE log == [path |-> q, ok |-> FALSE]
    <3>1. log \in w.logs /\ log.path = q /\ log.ok = FALSE
      BY <1>1 DEF LoggedIn, q
    <3> HIDE DEF log
    <3> QED BY <3>1 DEF TruthIn
  <2>4. IsPrefix(q, q)
    BY <2>1, PrefixIs
  <2> QED BY <2>2, <2>3, <2>4 DEF KeepsIn, KeepsBelowIn
<1>2. ASSUME NEW i \in 2 .. size, AttemptedIn(w, Append(b.path, i))
      PROVE  i - 1 \in 1 .. m /\ i - 1 \in 1 .. m - 1
  <2>1. i \in Nat /\ m \in Nat
    OBVIOUS
  <2>2. i <= m
    BY <1>2, <2>1
  <2> QED BY <2>1, <2>2
<1> QED BY <1>1, <1>2 DEF PromiseKept

\* A call that succeeds is kept, and its caller lives in the world it leaves.
LEMMA EndSound ==
    ASSUME NEW s \in Seq(Frames), Trail(s), NEW n \in Nat \ {0}, n = Len(s),
           NEW w \in WorldStates, NEW d, SoundAfter(s, w, n, d),
           s[n].path \in Seq(1 .. MaxCalls), s[n].kind = s[n].target.kind,
           s[n].kind = "batch" => PromiseKept(w, CallOf(s[n])),
           NEW t, \A i \in 1 .. n - 1 : t[i] = s[i],
           NEW v, v.kept = w.kept \cup {CallOf(s[n])}, v.logs = w.logs
    PROVE  SoundAfter(t, v, n - 1, t[n - 1].made - 1) /\ KeepsIn(v, s[n].path)
<1> DEFINE ended == CallOf(s[n])
<1>0. n \in 1 .. Len(s) /\ n - 1 \in Nat /\ 0 \in Nat
  OBVIOUS
<1>1. ended.path = s[n].path /\ ended.target = s[n].target
  BY DEF CallOf
<1>2. s[n].path \in Seq(Nat) /\ Along(s, s[n].path, n - 1)
  BY <1>0, WayToCall
<1>3. v.kept = w.kept \cup {ended}
  OBVIOUS
<1>4. Begun(s, n) = Begun(t, n - 1) \cup {ended}
  <2>1. 1 .. n = (1 .. n - 1) \cup {n}
    BY <1>0
  <2>2. \A i \in 1 .. n - 1 : CallOf(t[i]) = CallOf(s[i])
    OBVIOUS
  <2> QED BY <2>1, <2>2 DEF Begun
<1> HIDE DEF ended
<1>5. /\ \A p : KeepsIn(w, p) => KeepsIn(v, p)
      /\ \A p : KeepsBelowIn(v, p) <=> KeepsBelowIn(w, p) \/ IsPrefix(p, s[n].path)
  BY <1>1, <1>3 DEF KeepsIn, KeepsBelowIn
<1>6. Paths(v) = Paths(w) \cup {s[n].path}
  BY <1>1, <1>3 DEF Paths
<1>7. \A q \in Paths(w) : q \in Seq(Nat) /\ (Before(s, q, n) \/ Along(s, q, n))
  BY PathsTyped DEF SoundAfter
<1>8. TruthIn(v)
  <2> SUFFICES ASSUME NEW log \in w.logs
               PROVE  IF log.ok THEN KeepsIn(v, log.path) ELSE ~KeepsBelowIn(v, log.path)
    BY DEF TruthIn
  <2>1. IF log.ok THEN KeepsIn(w, log.path) ELSE ~KeepsBelowIn(w, log.path)
    BY DEF SoundAfter, Sound, TruthIn
  <2>2. log.path \in Paths(w)
    BY DEF Paths
  <2>3. PICK q \in Seq(Nat) : q = log.path /\ (Before(s, q, n) \/ Along(s, q, n))
    BY <1>7, <2>2
  <2>4. ~IsPrefix(q, s[n].path)
    BY <1>0, <2>3, NotAbove
  <2> QED BY <1>5, <2>1, <2>3, <2>4
<1>9. PromisesIn(v)
  <2>1. ASSUME NEW b, PromiseKept(w, b) PROVE PromiseKept(v, b)
    BY <1>5, <2>1 DEF PromiseKept, AttemptedIn, LoggedIn
  <2>2. \A b \in w.kept : b.target.kind = "batch" => PromiseKept(w, b)
    BY DEF SoundAfter, Sound, PromisesIn
  <2>3. ended.target.kind = "batch" => PromiseKept(w, ended)
    BY <1>1 DEF ended
  <2> QED BY <1>3, <2>1, <2>2, <2>3 DEF PromisesIn
<1>10. NamesLentIn(t, v, n - 1)
  <2>1. v.kept \cup Begun(t, n - 1) = w.kept \cup Begun(s, n)
    BY <1>3, <1>4
  <2>2. NamesLentIn(s, w, n)
    BY DEF SoundAfter, Sound
  <2> QED BY <2>1, <2>2 DEF NamesLentIn
<1>11. Paths(v) \subseteq Seq(1 .. MaxCalls)
  BY <1>6 DEF SoundAfter, Sound
<1>12. \A j \in 1 .. n - 1 : Through(v, t[j], IF j = n - 1 THEN t[n - 1].made - 1 ELSE t[j].made - 1)
  <2> TAKE j \in 1 .. n - 1
  <2>1. j \in 1 .. n /\ j # n
    BY <1>0
  <2>2. Through(w, s[j], s[j].made - 1)
    BY <2>1 DEF SoundAfter, Sound
  <2>3. Through(v, t[j], t[j].made - 1)
    BY <1>5, <2>2 DEF Through, AttemptedIn, LoggedIn
  <2> QED BY <2>3
<1>13. ASSUME n - 1 > 0, NEW q \in Paths(v)
       PROVE  Before(t, q, n - 1) \/ Along(t, q, n - 1)
  <2>1. Before(s, q, n - 1) \/ Along(s, q, n - 1)
    <3>1. CASE q = s[n].path
      BY <1>2, <3>1
    <3>2. CASE q \in Paths(w)
      <4>1. Len(q) \in Nat
        BY <1>7, <3>2
      <4> QED BY <1>7, <3>2, <4>1, WayBack
    <3> QED BY <1>6, <3>1, <3>2
  <2>2. \A j \in 1 .. n - 1 : t[j].made = s[j].made
    OBVIOUS
  <2> QED BY <1>0, <2>1, <2>2, SameWay
<1>14. KeepsIn(v, s[n].path)
  BY <1>1, <1>3 DEF KeepsIn
<1> QED BY <1>8, <1>9, <1>10, <1>11, <1>12, <1>13, <1>14 DEF SoundAfter, Sound

\* The world in which the n-th frame makes its next call.
LEMMA CallSound ==
    ASSUME NEW s \in Seq(Frames), NEW n \in Nat \ {0}, n = Len(s),
           NEW w \in WorldStates, SoundAfter(s, w, n, s[n].made),
           NEW t, Alike(s, t, n), t[n].made = s[n].made + 1,
           NEW v, v.kept = w.kept, v.logs = w.logs
    PROVE  SoundBefore(t, v, n)
<1>1. s[n] \in Frames
  OBVIOUS
<1>2. s[n].made \in Nat /\ t[n].made - 1 = s[n].made
  BY <1>1 DEF Frames
<1>3. Sound(t, v, n, t[n].made - 1)
  BY <1>2, SoundAlike DEF SoundAfter
<1>4. Paths(v) = Paths(w)
  BY DEF Paths
<1>5. \A q \in Paths(w) : Before(t, q, n)
  <2> TAKE q \in Paths(w)
  <2>1. q \in Seq(Nat) /\ (Before(s, q, n) \/ Along(s, q, n))
    BY PathsTyped DEF SoundAfter
  <2>2. \A j \in 1 .. n - 1 : t[j].made = s[j].made
    BY DEF Alike
  <2> QED BY <1>2, <2>1, <2>2, OnceMore
<1> QED BY <1>3, <1>4, <1>5 DEF SoundBefore

\* Nothing lies at or below a call that is about to begin, or came to nothing.
LEMMA NothingBelow ==
    ASSUME NEW s \in Seq(Frames), Trail(s), NEW n \in 1 .. Len(s),
           NEW w \in WorldStates, SoundBefore(s, w, n)
    PROVE  LET p == Append(s[n].path, s[n].made) IN
           /\ p \in Seq(Nat)
           /\ \A q \in Paths(w) : ~IsPrefix(p, q) /\ ~IsPrefix(q, p)
           /\ ~KeepsBelowIn(w, p)
<1> DEFINE p == Append(s[n].path, s[n].made)
<1>1. s[n] \in Frames /\ n \in Nat \ {0} /\ n \in 0 .. Len(s)
  OBVIOUS
<1>2. s[n].made \in Nat
  BY <1>1 DEF Frames
<1>3. p \in Seq(Nat) /\ Len(p) = n /\ \A j \in 1 .. n : p[j] = s[j].made
  <2>1. p \in Seq(Nat) /\ Len(p) = n /\ p[n] = s[n].made /\ \A j \in 1 .. n - 1 : p[j] = s[j].made
    BY <1>2, WayToCall
  <2> QED BY <1>1, <2>1
<1> HIDE DEF p
<1>4. Along(s, p, n)
  BY <1>1, <1>3 DEF Along
<1>5. \A q \in Paths(w) : ~IsPrefix(p, q) /\ ~IsPrefix(q, p)
  <2> TAKE q \in Paths(w)
  <2>1. q \in Seq(Nat) /\ Before(s, q, n)
    BY PathsTyped DEF SoundBefore
  <2> QED BY <1>1, <1>3, <1>4, <2>1, OffTheWay
<1>6. ~KeepsBelowIn(w, p)
  BY <1>5 DEF KeepsBelowIn, Paths
<1> QED BY <1>3, <1>5, <1>6 DEF p

\* The caller of a call that came to nothing goes on in the world before it.
LEMMA FailSound ==
    ASSUME NEW s, NEW n, NEW w, SoundBefore(s, w, n)
    PROVE  SoundAfter(s, w, n, s[n].made - 1)
BY DEF SoundBefore, SoundAfter

\* A world that waits depends on the frames it waits for only.
LEMMA PrefixAside ==
    ASSUME NEW s, NEW t, NEW i \in Nat, \A j \in 1 .. i : t[j] = s[j], NEW w, SoundBefore(s, w, i)
    PROVE  SoundBefore(t, w, i)
<1>1. Alike(s, t, i)
  BY DEF Alike
<1>2. PICK d : d = s[i].made - 1
  OBVIOUS
<1>3. Sound(t, w, i, d)
  BY <1>1, <1>2, SoundAlike DEF SoundBefore
<1>4. Sound(t, w, i, t[i].made - 1)
  <2>1. CASE i = 0
    <3>1. \A j \in 1 .. i : Through(w, t[j], IF j = i THEN t[i].made - 1 ELSE t[j].made - 1)
      BY <2>1
    <3> QED BY <1>3, <3>1 DEF Sound
  <2>2. CASE i # 0
    <3>1. i \in 1 .. i
      BY <2>2
    <3>2. t[i].made - 1 = d
      BY <1>2, <3>1
    <3> QED BY <1>3, <3>2
  <2> QED BY <2>1, <2>2
<1>5. \A j \in 1 .. i : t[j].made = s[j].made
  OBVIOUS
<1>6. \A q \in Paths(w) : Before(t, q, i)
  BY <1>5, SameWay DEF SoundBefore
<1> QED BY <1>4, <1>6 DEF SoundBefore

\* Who a frame calls as: a batch as its caller, a dispatch as the signer of its permit.
CallsAs(f, caller) ==
    /\ f.kind = "code" => caller = "contract"
    /\ f.kind = "batch" => caller = f.caller
    /\ f.kind = "permit" => caller = "signer"

\* The calls above the one the top frame makes are those above that frame, and itself.
LEMMA AboveCall ==
    ASSUME NEW s \in Seq(Frames), Trail(s), NEW n \in Nat \ {0}, n = Len(s),
           NEW w \in WorldStates, SoundBefore(s, w, n), s[n].made \in Nat
    PROVE  LET p == Append(s[n].path, s[n].made)
               C == w.kept \cup Begun(s, n)
               top == CallOf(s[n])
           IN  /\ \A c \in C : ~IsStrictPrefix(p, c.path)
               /\ \A b \in C : IsStrictPrefix(b.path, p) => b = top \/ IsStrictPrefix(b.path, top.path)
               /\ top \in C /\ IsStrictPrefix(top.path, p)
               /\ \A b \in C : IsStrictPrefix(b.path, top.path) =>
                     IsStrictPrefix(b.path, p) /\ ~IsStrictPrefix(top.path, b.path)
<1> DEFINE p == Append(s[n].path, s[n].made)
           top == CallOf(s[n])
<1>0. n \in 1 .. Len(s)
  OBVIOUS
<1>1. /\ s[n].path \in Seq(Nat) /\ p \in Seq(Nat) /\ Len(s[n].path) = n - 1 /\ Len(p) = n
  BY <1>0, WayToCall
<1>2. top.path = s[n].path
  BY DEF CallOf
<1>3. \A q \in Seq(Nat) : IsStrictPrefix(q, p) <=> IsPrefix(q, s[n].path)
  BY <1>1, PrefixOfExtended
<1>4. \A c \in w.kept : /\ c.path \in Seq(Nat) /\ ~IsPrefix(p, c.path)
                        /\ ~IsPrefix(c.path, s[n].path)
  <2> TAKE c \in w.kept
  <2>1. c.path \in Paths(w) /\ c.path \in Seq(Nat)
    BY PathsTyped
  <2>2. ~IsPrefix(p, c.path)
    BY <1>0, <2>1, NothingBelow
  <2>3. Before(s, c.path, n)
    BY <2>1 DEF SoundBefore
  <2>4. ~IsPrefix(c.path, s[n].path)
    BY <1>0, <2>1, <2>3, NotAbove
  <2> QED BY <2>1, <2>2, <2>4
<1>5. \A c \in Begun(s, n) : \E j \in 1 .. n :
          c = CallOf(s[j]) /\ c.path \in Seq(Nat) /\ Len(c.path) = j - 1
  <2> SUFFICES ASSUME NEW j \in 1 .. n
               PROVE  CallOf(s[j]).path \in Seq(Nat) /\ Len(CallOf(s[j]).path) = j - 1
    BY DEF Begun
  <2>1. s[j] \in Frames /\ CallOf(s[j]).path = s[j].path
    BY DEF CallOf
  <2> QED BY <2>1 DEF Trail, Frames
<1> HIDE DEF p, top
<1>6. \A c \in Begun(s, n) : ~IsStrictPrefix(p, c.path)
  <2> TAKE c \in Begun(s, n)
  <2>1. PICK j \in 1 .. n : c.path \in Seq(Nat) /\ Len(c.path) = j - 1
    BY <1>5
  <2>2. Len(c.path) < Len(p)
    BY <1>1, <2>1
  <2> QED BY <1>1, <2>1, <2>2, PrefixIs DEF IsStrictPrefix
<1>7. \A b \in Begun(s, n) : b.path = s[n].path => b = top
  <2> TAKE b \in Begun(s, n)
  <2>1. PICK j \in 1 .. n : b = CallOf(s[j]) /\ Len(b.path) = j - 1
    BY <1>5
  <2>2. Len(b.path) = n - 1 => j = n
    BY <2>1
  <2> QED BY <1>1, <2>1, <2>2 DEF top
<1>8. top \in Begun(s, n)
  <2>1. n \in 1 .. n
    OBVIOUS
  <2> QED BY <2>1 DEF Begun, top
<1>9. \A b \in w.kept \cup Begun(s, n) : b.path \in Seq(Nat)
  BY <1>4, <1>5
<1>10. IsPrefix(s[n].path, s[n].path)
  BY <1>1, PrefixIs
<1>11. ASSUME NEW b \in w.kept \cup Begun(s, n), IsStrictPrefix(b.path, s[n].path)
       PROVE  ~IsStrictPrefix(s[n].path, b.path)
  <2>1. IsPrefix(b.path, s[n].path) /\ b.path # s[n].path
    BY <1>11 DEF IsStrictPrefix
  <2>2. PICK q \in Seq(Nat) : q = b.path
    BY <1>9
  <2>3. Len(q) <= Len(s[n].path) /\ \A j \in 1 .. Len(q) : q[j] = s[n].path[j]
    BY <1>1, <2>1, <2>2, PrefixIs
  <2>4. Len(q) # Len(s[n].path)
    BY <1>1, <2>1, <2>2, <2>3, SeqEqual
  <2>5. ~IsPrefix(s[n].path, q)
    BY <1>1, <2>3, <2>4, PrefixIs
  <2> QED BY <2>2, <2>5 DEF IsStrictPrefix
<1>12. \A c \in w.kept \cup Begun(s, n) : ~IsStrictPrefix(p, c.path)
  BY <1>4, <1>6 DEF IsStrictPrefix
<1>13. ASSUME NEW b \in w.kept \cup Begun(s, n), IsStrictPrefix(b.path, p)
       PROVE  b = top \/ IsStrictPrefix(b.path, top.path)
  <2>1. IsPrefix(b.path, s[n].path)
    BY <1>3, <1>9, <1>13
  <2> QED BY <1>2, <1>4, <1>7, <2>1 DEF IsStrictPrefix
<1>14. IsStrictPrefix(top.path, p)
  BY <1>1, <1>2, <1>3, <1>10
<1>15. ASSUME NEW b \in w.kept \cup Begun(s, n), IsStrictPrefix(b.path, top.path)
       PROVE  IsStrictPrefix(b.path, p) /\ ~IsStrictPrefix(top.path, b.path)
  BY <1>2, <1>3, <1>9, <1>11, <1>15 DEF IsStrictPrefix
<1> QED BY <1>8, <1>12, <1>13, <1>14, <1>15 DEF p, top

\* Names stay lent when a frame makes its next call as it does.
LEMMA LentExtends ==
    ASSUME NEW C, \A c \in C : LentFor(C, c), NEW top \in C, NEW g,
           \A c \in C : ~IsStrictPrefix(g.path, c.path),
           \A b \in C : IsStrictPrefix(b.path, g.path) => b = top \/ IsStrictPrefix(b.path, top.path),
           IsStrictPrefix(top.path, g.path),
           \A b \in C : IsStrictPrefix(b.path, top.path) =>
              IsStrictPrefix(b.path, g.path) /\ ~IsStrictPrefix(top.path, b.path),
           \/ g.caller = "contract"
           \/ g.caller = top.caller /\ top.target.kind = "batch"
           \/ g.caller = "signer" /\ top.target.kind = "permit"
    PROVE  \A c \in C \cup {g} : LentFor(C \cup {g}, c)
<1> DEFINE D == C \cup {g}
<1>1. ~IsStrictPrefix(g.path, g.path)
  BY DEF IsStrictPrefix
<1>2. ASSUME NEW c \in C PROVE LentFor(D, c)
  <2>1. LentFor(C, c) /\ ~IsStrictPrefix(g.path, c.path)
    OBVIOUS
  <2>2. CASE c.caller = "contract"
    BY <2>2 DEF LentFor
  <2>3. CASE c.caller = "sender" /\ \A b \in C : IsStrictPrefix(b.path, c.path) => b.target.kind = "batch"
    BY <2>1, <2>3 DEF LentFor
  <2>4. CASE c.caller = "signer" /\ \E d \in C :
              /\ d.target.kind = "permit" /\ IsStrictPrefix(d.path, c.path)
              /\ \A b \in C : IsStrictPrefix(d.path, b.path) /\ IsStrictPrefix(b.path, c.path)
                    => b.target.kind = "batch"
    BY <2>1, <2>4 DEF LentFor
  <2> QED BY <2>1, <2>2, <2>3, <2>4 DEF LentFor
<1>3. LentFor(D, g)
  <2>1. CASE g.caller = "contract"
    BY <2>1 DEF LentFor
  <2>2. CASE g.caller = "signer" /\ top.target.kind = "permit"
    <3>1. \A b \in D : ~(IsStrictPrefix(top.path, b.path) /\ IsStrictPrefix(b.path, g.path))
      <4> TAKE b \in D
      <4>1. CASE b = g
        BY <1>1, <4>1
      <4>2. CASE b \in C
        <5>1. CASE b = top
          BY <5>1 DEF IsStrictPrefix
        <5>2. CASE b # top
          BY <4>2, <5>2
        <5> QED BY <5>1, <5>2
      <4> QED BY <4>1, <4>2
    <3> QED BY <2>2, <3>1 DEF LentFor
  <2>3. CASE g.caller = top.caller /\ top.target.kind = "batch" /\ top.caller # "contract"
    <3>1. LentFor(C, top)
      OBVIOUS
    <3>2. CASE top.caller = "sender" /\ \A b \in C : IsStrictPrefix(b.path, top.path) => b.target.kind = "batch"
      BY <1>1, <2>3, <3>2 DEF LentFor
    <3>3. CASE top.caller = "signer" /\ \E d \in C :
              /\ d.target.kind = "permit" /\ IsStrictPrefix(d.path, top.path)
              /\ \A b \in C : IsStrictPrefix(d.path, b.path) /\ IsStrictPrefix(b.path, top.path)
                    => b.target.kind = "batch"
      <4>1. PICK d \in C :
              /\ d.target.kind = "permit" /\ IsStrictPrefix(d.path, top.path)
              /\ \A b \in C : IsStrictPrefix(d.path, b.path) /\ IsStrictPrefix(b.path, top.path)
                    => b.target.kind = "batch"
        BY <3>3
      <4>2. IsStrictPrefix(d.path, g.path)
        BY <4>1
      <4>3. \A b \in D : IsStrictPrefix(d.path, b.path) /\ IsStrictPrefix(b.path, g.path)
                    => b.target.kind = "batch"
        BY <1>1, <2>3, <4>1
      <4> QED BY <2>3, <3>3, <4>1, <4>2, <4>3 DEF LentFor
    <3> QED BY <2>3, <3>1, <3>2, <3>3 DEF LentFor
  <2> QED BY <2>1, <2>2, <2>3
<1> QED BY <1>2, <1>3

\* A call that begins lives in the world it begins in.
LEMMA PushSound ==
    ASSUME NEW s \in Seq(Frames), Trail(s), NEW n \in Nat \ {0}, n = Len(s),
           NEW w \in WorldStates, SoundBefore(s, w, n), s[n].kind = s[n].target.kind,
           NEW f, f.path = Append(s[n].path, s[n].made), CallsAs(s[n], f.caller),
           NEW t, \A j \in 1 .. n : t[j] = s[j], t[n + 1] = f
    PROVE  SoundAfter(t, w, n + 1, 0)
<1>0. n \in 1 .. Len(s) /\ s[n] \in Frames
  OBVIOUS
<1>1. s[n].made \in Nat /\ s[n].kind \in {"batch", "permit", "code"}
  BY <1>0 DEF Frames
<1>2. NamesLentIn(t, w, n + 1)
  <2> DEFINE C == w.kept \cup Begun(s, n)
             top == CallOf(s[n])
             g == CallOf(f)
             p == Append(s[n].path, s[n].made)
  <2>1. /\ \A c \in C : ~IsStrictPrefix(p, c.path)
        /\ \A b \in C : IsStrictPrefix(b.path, p) => b = top \/ IsStrictPrefix(b.path, top.path)
        /\ top \in C /\ IsStrictPrefix(top.path, p)
        /\ \A b \in C : IsStrictPrefix(b.path, top.path) =>
              IsStrictPrefix(b.path, p) /\ ~IsStrictPrefix(top.path, b.path)
    BY <1>1, AboveCall
  <2>2. g.path = p /\ g.caller = f.caller /\ top.target = s[n].target /\ top.caller = s[n].caller
    BY DEF CallOf
  <2>3. \/ g.caller = "contract"
        \/ g.caller = top.caller /\ top.target.kind = "batch"
        \/ g.caller = "signer" /\ top.target.kind = "permit"
    BY <1>1, <2>2 DEF CallsAs
  <2>4. w.kept \cup Begun(t, n + 1) = C \cup {g}
    <3>1. 1 .. n + 1 = (1 .. n) \cup {n + 1}
      OBVIOUS
    <3>2. \A j \in 1 .. n : CallOf(t[j]) = CallOf(s[j])
      OBVIOUS
    <3> QED BY <3>1, <3>2 DEF Begun
  <2>5. \A c \in C : LentFor(C, c)
    BY DEF SoundBefore, Sound, NamesLentIn
  <2> HIDE DEF C, top, g, p
  <2>6. \A c \in C \cup {g} : LentFor(C \cup {g}, c)
    BY <2>1, <2>2, <2>3, <2>5, LentExtends
  <2> QED BY <2>4, <2>6 DEF NamesLentIn
<1>3. \A j \in 1 .. n + 1 : Through(w, t[j], IF j = n + 1 THEN 0 ELSE t[j].made - 1)
  <2> TAKE j \in 1 .. n + 1
  <2>1. CASE j = n + 1
    BY <2>1 DEF Through
  <2>2. CASE j # n + 1
    <3>1. j \in 1 .. n
      BY <2>2
    <3>2. Through(w, s[j], IF j = n THEN s[n].made - 1 ELSE s[j].made - 1)
      BY <3>1 DEF SoundBefore, Sound
    <3>3. Through(w, s[j], s[j].made - 1)
      BY <3>2
    <3> QED BY <2>2, <3>1, <3>3
  <2> QED BY <2>1, <2>2
<1>4. ASSUME NEW q \in Paths(w) PROVE Before(t, q, n + 1)
  <2>1. \A j \in 1 .. n : t[j].made = s[j].made
    OBVIOUS
  <2>2. Before(t, q, n)
    BY <2>1, SameWay DEF SoundBefore
  <2> QED BY <2>2 DEF Before
<1> QED BY <1>2, <1>3, <1>4 DEF SoundBefore, SoundAfter, Sound

-----------------------------------------------------------------------------
(* Trails                                                                  *)

LEMMA TrailAlike ==
    ASSUME NEW s, NEW t, NEW n \in Nat, Len(s) = n, Len(t) = n, Alike(s, t, n), Trail(s)
    PROVE  Trail(t)
<1> SUFFICES ASSUME NEW i \in 1 .. n
             PROVE  Len(t[i].path) = i - 1 /\ \A j \in 1 .. i - 1 : t[i].path[j] = t[j].made
  BY DEF Trail
<1>1. Len(s[i].path) = i - 1 /\ \A j \in 1 .. i - 1 : s[i].path[j] = s[j].made
  BY DEF Trail
<1>2. t[i].path = s[i].path /\ \A j \in 1 .. i - 1 : t[j].made = s[j].made
  BY DEF Alike
<1> QED BY <1>1, <1>2

LEMMA TrailPrefix ==
    ASSUME NEW s, NEW t, NEW n \in Nat, Len(t) = n, n <= Len(s), Len(s) \in Nat,
           \A j \in 1 .. n : t[j] = s[j], Trail(s)
    PROVE  Trail(t)
BY DEF Trail

LEMMA TrailPushed ==
    ASSUME NEW s \in Seq(Frames), Trail(s), NEW n \in Nat \ {0}, n = Len(s),
           NEW t, Len(t) = n + 1, \A j \in 1 .. n : t[j] = s[j],
           t[n + 1].path = Append(s[n].path, s[n].made), s[n].made \in Nat
    PROVE  Trail(t)
<1> SUFFICES ASSUME NEW i \in 1 .. n + 1
             PROVE  Len(t[i].path) = i - 1 /\ \A j \in 1 .. i - 1 : t[i].path[j] = t[j].made
  BY DEF Trail
<1>1. CASE i # n + 1
  <2>1. i \in 1 .. n /\ \A j \in 1 .. i - 1 : j \in 1 .. n
    BY <1>1
  <2>2. Len(s[i].path) = i - 1 /\ \A j \in 1 .. i - 1 : s[i].path[j] = s[j].made
    BY <2>1 DEF Trail
  <2>3. t[i] = s[i] /\ \A j \in 1 .. i - 1 : t[j] = s[j]
    BY <2>1
  <2> QED BY <2>2, <2>3
<1>2. CASE i = n + 1
  <2>1. n \in 1 .. Len(s)
    OBVIOUS
  <2> DEFINE p == Append(s[n].path, s[n].made)
  <2>2. OnWay(s, n, s[n].made, p)
    BY <2>1, OnWayTo
  <2> HIDE DEF p
  <2>3. t[i].path = p /\ Len(p) = n
    BY <1>2, <2>2 DEF OnWay, p
  <2>4. \A j \in 1 .. n : p[j] = t[j].made
    <3> TAKE j \in 1 .. n
    <3>1. p[j] = s[j].made
      <4>1. CASE j = n
        BY <2>2, <4>1 DEF OnWay
      <4>2. CASE j # n
        <5>1. j \in 1 .. n - 1
          BY <4>2
        <5> QED BY <2>2, <5>1 DEF OnWay
      <4> QED BY <4>1, <4>2
    <3> QED BY <3>1
  <2>5. i - 1 = n
    BY <1>2
  <2> QED BY <2>3, <2>4, <2>5
<1> QED BY <1>1, <1>2

-----------------------------------------------------------------------------
(* The steps, and the worlds on the stack                                  *)

SameCall(f, g) ==
    g.path = f.path /\ g.target = f.target /\ g.caller = f.caller /\ g.kind = f.kind

Changed(s, f, n) ==
    /\ s \in Seq(Frames) /\ Len(s) = n /\ s # <<>> /\ s[n] = f
    /\ \A i \in 1 .. n - 1 : s[i] = stack[i]
    /\ Alike(stack, s, n) /\ Trail(s)

\* The top frame is replaced by one of the same call.
LEMMA LastChanged ==
    ASSUME IInv, WInv, stack # <<>>, NEW n \in Nat \ {0}, n = Len(stack),
           NEW f \in Frames, SameCall(Top, f),
           NEW s, s = Append(Front(stack), f)
    PROVE  Changed(s, f, n)
<1>1. n \in Nat \ {0} /\ stack \in Seq(Frames) /\ Top = stack[n]
  BY FrontOf DEF IInv, Typed, Top
<1>2. /\ s \in Seq(Frames) /\ Len(s) = n /\ s # <<>> /\ s[n] = f
      /\ \A i \in 1 .. n - 1 : s[i] = stack[i]
  BY <1>1, Replaced
<1>3. Alike(stack, s, n)
  <2>1. \A j \in 1 .. n : SameCall(stack[j], s[j])
    <3> TAKE j \in 1 .. n
    <3>1. CASE j = n
      BY <1>1, <1>2, <3>1
    <3>2. CASE j # n
      <4>1. j \in 1 .. n - 1
        BY <3>2
      <4> QED BY <1>2, <4>1 DEF SameCall
    <3> QED BY <3>1, <3>2
  <2> QED BY <1>2, <2>1 DEF Alike, SameCall
<1>4. Trail(s)
  BY <1>1, <1>2, <1>3, TrailAlike DEF WInv
<1> QED BY <1>2, <1>3, <1>4 DEF Changed

\* The worlds that wait below the top frame still do.
LEMMA WaitingStay ==
    ASSUME IInv, WInv, stack # <<>>, NEW n \in Nat \ {0}, n = Len(stack),
           NEW t, \A i \in 1 .. n - 1 : t[i] = stack[i], NEW i \in 0 .. n - 2
    PROVE  SoundBefore(t, t[i + 1].before, i)
<1>1. n \in Nat \ {0}
  BY FrontOf DEF IInv, Typed
<1>2. i + 1 \in 1 .. n - 1 /\ i \in 0 .. n - 1 /\ i \in Nat
  BY <1>1
<1>3. SoundBefore(stack, stack[i + 1].before, i)
  BY <1>2 DEF WInv, WorldsSound
<1>4. t[i + 1] = stack[i + 1]
  BY <1>2
<1>5. \A j \in 1 .. i : t[j] = stack[j]
  BY <1>1
<1>6. SoundBefore(t, stack[i + 1].before, i)
  BY <1>2, <1>3, <1>5, PrefixAside
<1> QED BY <1>4, <1>6

\* The world below the top frame, with the frame in it.
LEMMA LastWaits ==
    ASSUME IInv, WInv, stack # <<>>, NEW n \in Nat \ {0}, n = Len(stack),
           NEW t, \A i \in 1 .. n - 1 : t[i] = stack[i]
    PROVE  SoundBefore(t, Top.before, n - 1)
<1>1. n \in Nat \ {0} /\ Top = stack[n]
  BY FrontOf DEF IInv, Typed, Top
<1>2. PICK i \in Nat : i = n - 1 /\ i + 1 = n
  BY <1>1
<1>3. i \in 0 .. n - 1
  BY <1>2
<1>4. SoundBefore(stack, stack[i + 1].before, i)
  BY <1>3 DEF WInv, WorldsSound
<1>5. \A j \in 1 .. i : t[j] = stack[j]
  BY <1>2
<1>6. SoundBefore(t, stack[i + 1].before, i)
  BY <1>4, <1>5, PrefixAside
<1> QED BY <1>1, <1>2, <1>6

LEMMA GoOnWords ==
    ASSUME IInv, WInv, stack # <<>>, NEW gas \in Nat, NEW made \in Nat, GoOn(gas, made),
           SoundAfter(stack', world', Len(stack), made)
    PROVE  WInv'
<1>0. PICK n \in Nat \ {0} : n = Len(stack)
  BY FrontOf DEF IInv, Typed
<1> DEFINE f == [Top EXCEPT !.gas = gas, !.made = made]
<1>1. Top \in Frames
  BY FrontOf DEF IInv, Typed
<1>2. f \in Frames /\ SameCall(Top, f) /\ f.made = made /\ f.before = Top.before
  BY <1>1 DEF Frames, SameCall
<1>3. stack' = Append(Front(stack), f) /\ answer' = <<>>
  BY DEF GoOn
<1> HIDE DEF f
<1>4. PICK t : t = stack'
  OBVIOUS
<1>5. /\ t \in Seq(Frames) /\ Len(t) = n /\ t # <<>> /\ t[n] = f
      /\ \A i \in 1 .. n - 1 : t[i] = stack[i]
      /\ Trail(t)
  <2>1. t = Append(Front(stack), f)
    BY <1>3, <1>4
  <2>2. Changed(t, f, n)
    BY <1>0, <1>2, <2>1, LastChanged
  <2> QED BY <2>2 DEF Changed
<1>6. Top' = f
  BY <1>4, <1>5 DEF Top
<1>7. \A i \in 0 .. n - 1 : SoundBefore(t, t[i + 1].before, i)
  <2> TAKE i \in 0 .. n - 1
  <2>1. CASE i = n - 1
    <3>1. SoundBefore(t, Top.before, n - 1)
      BY <1>0, <1>5, LastWaits
    <3> QED BY <1>0, <1>2, <1>5, <2>1, <3>1
  <2>2. CASE i # n - 1
    <3>1. i \in 0 .. n - 2
      BY <2>2
    <3> QED BY <1>0, <1>5, <3>1, WaitingStay
  <2> QED BY <2>1, <2>2
<1>8. SoundAfter(t, world', n, made)
  BY <1>0, <1>4
<1>9. WorldsSound'
  BY <1>2, <1>3, <1>4, <1>5, <1>6, <1>7, <1>8 DEF WorldsSound
<1> QED BY <1>4, <1>5, <1>9 DEF WInv

\* The top frame ends in w; s is the stack as it was when w was left.
LEMMA EndWords ==
    ASSUME IInv, WInv, stack # <<>>, NEW n \in Nat \ {0}, n = Len(stack),
           NEW s \in Seq(Frames), Len(s) = n, \A i \in 1 .. n - 1 : s[i] = stack[i],
           SameCall(Top, s[n]), Trail(s), s[n].path \in Seq(1 .. MaxCalls),
           NEW w \in WorldStates, NEW d, NEW outcome, NEW gas,
           outcome = "succeed" => SoundAfter(s, w, n, d),
           outcome = "succeed" /\ Top.kind = "batch" => PromiseKept(w, CallOf(Top)),
           EndIn(w, outcome, gas)
    PROVE  WInv'
<1>1. /\ n \in Nat \ {0} /\ Top \in Frames /\ stack \in Seq(Frames) /\ Top = stack[n]
      /\ Front(stack) \in Seq(Frames) /\ Len(Front(stack)) = n - 1
      /\ \A i \in 1 .. n - 1 : Front(stack)[i] = stack[i]
  BY FrontOf DEF IInv, Typed, Top
<1>2. PICK m \in Nat : m = n - 1
  BY ONLY n \in Nat \ {0}
<1>3. PICK t : t = stack'
  OBVIOUS
<1>4. t = Front(stack) /\ answer' # <<>> /\ answer'[1].outcome = outcome
  BY <1>3 DEF EndIn
<1>5. t \in Seq(Frames) /\ Len(t) = m /\ \A i \in 1 .. m : t[i] = stack[i]
  BY <1>1, <1>2, <1>4
<1>6. Trail(t)
  <2>1. Trail(stack) /\ m <= Len(stack) /\ Len(stack) \in Nat
    BY <1>2 DEF WInv
  <2> QED BY <1>5, <2>1, TrailPrefix
<1>7. \A i \in 0 .. m - 1 : SoundBefore(t, t[i + 1].before, i)
  <2>1. \A i \in 1 .. n - 1 : t[i] = stack[i]
    BY <1>2, <1>5
  <2>2. \A i \in 0 .. m - 1 : i \in 0 .. n - 2
    BY <1>2
  <2> QED BY <2>1, <2>2, WaitingStay
<1>8. Top' = t[m]
  BY <1>3, <1>5 DEF Top
<1>9. SoundBefore(t, Top.before, m)
  <2>1. \A i \in 1 .. n - 1 : t[i] = stack[i]
    BY <1>2, <1>5
  <2>2. SoundBefore(t, Top.before, n - 1)
    BY <2>1, LastWaits
  <2> QED BY <1>2, <2>2
<1>10. CASE outcome # "succeed"
  <2>1. world' = Top.before
    BY <1>10 DEF EndIn
  <2>2. SoundAfter(t, world', m, t[m].made - 1)
    BY <1>9, <2>1, FailSound
  <2>3. t # <<>> => AnswerTrue(world', Append(t[m].path, t[m].made), outcome)
    <3> SUFFICES ASSUME t # <<>>
                 PROVE  ~KeepsBelowIn(world', Append(t[m].path, t[m].made))
      BY <1>10 DEF AnswerTrue
    <3>1. m \in 1 .. Len(t)
      BY <1>5
    <3>2. Top.before \in WorldStates
      BY <1>1 DEF Frames
    <3> QED BY <1>5, <1>6, <1>9, <2>1, <3>1, <3>2, NothingBelow
  <2> QED BY <1>3, <1>4, <1>5, <1>6, <1>7, <1>8, <2>2, <2>3 DEF WInv, WorldsSound
<1>11. CASE outcome = "succeed"
  <2> DEFINE ended == [path |-> Top.path, target |-> Top.target, caller |-> Top.caller]
  <2>1. world' = [w EXCEPT !.kept = @ \cup {ended}]
    BY <1>11 DEF EndIn
  <2>2. ended = CallOf(Top) /\ CallOf(s[n]) = CallOf(Top)
    BY DEF CallOf, SameCall
  <2>3. PICK v : v = world'
    OBVIOUS
  <2>4. v.kept = w.kept \cup {CallOf(s[n])} /\ v.logs = w.logs
    <3> HIDE DEF ended
    <3> QED BY <2>1, <2>2, <2>3 DEF WorldStates
  <2>5. s[n].kind = s[n].target.kind
    <3>1. Top.kind = Top.target.kind
      <4>1. n \in 1 .. Len(stack)
        BY <1>1
      <4> QED BY <1>1, <4>1 DEF IInv, Chained
    <3> QED BY <3>1 DEF SameCall
  <2>6. SoundAfter(t, v, n - 1, t[n - 1].made - 1) /\ KeepsIn(v, s[n].path)
    <3>1. \A i \in 1 .. n - 1 : t[i] = s[i]
      BY <1>2, <1>5
    <3>2. s[n].kind = "batch" => PromiseKept(w, CallOf(s[n]))
      BY <1>11, <2>2 DEF SameCall
    <3>3. SoundAfter(s, w, n, d) /\ n = Len(s) /\ n \in Nat \ {0}
      BY <1>1, <1>11
    <3> QED BY <2>4, <2>5, <3>1, <3>2, <3>3, EndSound
  <2>7. t # <<>> => AnswerTrue(v, Append(t[m].path, t[m].made), outcome)
    <3> SUFFICES ASSUME t # <<>> PROVE KeepsIn(v, Append(t[m].path, t[m].made))
      BY <1>11 DEF AnswerTrue
    <3>1. m \in 1 .. m /\ n \in 2 .. Len(stack)
      BY <1>1, <1>2, <1>5
    <3>2. stack[n].path = Append(stack[n - 1].path, stack[n - 1].made)
      BY <3>1 DEF IInv, Chained
    <3>3. s[n].path = Append(t[m].path, t[m].made)
      BY <1>1, <1>2, <1>5, <3>1, <3>2 DEF SameCall
    <3> QED BY <2>6, <3>3
  <2> QED BY <1>2, <1>3, <1>4, <1>5, <1>6, <1>7, <1>8, <2>3, <2>6, <2>7 DEF WInv, WorldsSound
<1> QED BY <1>10, <1>11

LEMMA CallWords ==
    ASSUME IInv, WInv, stack # <<>>, answer = <<>>, NEW n \in Nat \ {0}, n = Len(stack),
           NEW w \in WorldStates, w.kept = world.kept, w.logs = world.logs,
           NEW left \in Int, NEW target \in Targets, NEW gas \in Nat, NEW caller \in Callers,
           left - CallCost - gas \in Nat, CallsAs(Top, caller),
           Call(w, left, target, gas, caller)
    PROVE  WInv'
<1> DEFINE calling == [Top EXCEPT !.gas = left - CallCost - gas, !.made = @ + 1]
           called == [target |-> target, kind |-> target.kind, gas |-> gas,
                      caller |-> caller, made |-> 0,
                      path |-> Append(Top.path, calling.made), before |-> w]
           reply == [outcome |-> "revert", gas |-> gas]
           below == Append(Front(stack), calling)
<1>1. Top \in Frames /\ stack \in Seq(Frames) /\ Top = stack[n] /\ Top.made \in Nat
      /\ world \in WorldStates
  BY FrontOf DEF IInv, Typed, Top, Frames
<1>2. calling \in Frames /\ SameCall(Top, calling) /\ calling.made = Top.made + 1
      /\ calling.before = Top.before
  <2>1. PICK g \in Nat : g = left - CallCost - gas
    OBVIOUS
  <2>2. PICK made \in Nat : made = Top.made + 1
    BY <1>1
  <2>3. calling = [Top EXCEPT !.gas = g, !.made = made]
    BY <2>1, <2>2
  <2> HIDE DEF calling
  <2> QED BY <1>1, <2>1, <2>2, <2>3 DEF Frames, SameCall
<1>3. /\ called.made = 0 /\ called.path = Append(calling.path, calling.made)
      /\ called.before = w /\ called.caller = caller
  <2>1. calling.path = Top.path
    BY <1>2 DEF SameCall
  <2> HIDE DEF calling
  <2> QED BY <2>1
<1>4. /\ world' = w
      /\ \/ stack' = Append(below, called) /\ answer' = <<>>
         \/ stack' = below /\ answer' = <<reply>>
  BY DEF Call
<1>5. reply.outcome = "revert"
  OBVIOUS
<1>6. called \in Frames
  <2>1. target.kind \in {"batch", "permit", "code"}
    BY DEF Targets
  <2>2. Append(Top.path, calling.made) \in Seq(Nat)
    <3>1. PICK made \in Nat : made = calling.made
      BY <1>1, <1>2
    <3>2. PICK path \in Seq(Nat) : path = Top.path
      BY <1>1 DEF Frames
    <3> QED BY <3>1, <3>2
  <2> HIDE DEF calling
  <2> QED BY <2>1, <2>2 DEF Frames
<1> HIDE DEF calling, called, reply
<1>7. Changed(below, calling, n)
  BY <1>2, LastChanged
<1> HIDE DEF below
<1>8. /\ below \in Seq(Frames) /\ Len(below) = n /\ below # <<>> /\ below[n] = calling
      /\ \A i \in 1 .. n - 1 : below[i] = stack[i]
      /\ Alike(stack, below, n) /\ Trail(below)
  BY <1>7 DEF Changed
<1>9. SoundAfter(stack, world, n, stack[n].made)
  BY <1>1 DEF WInv, WorldsSound
<1>10. SoundBefore(below, w, n)
  <2>1. below[n].made = stack[n].made + 1
    BY <1>1, <1>2, <1>8
  <2> QED BY <1>1, <1>8, <1>9, <2>1, CallSound
<1>11. \A i \in 0 .. n - 1 : SoundBefore(below, below[i + 1].before, i)
  <2> TAKE i \in 0 .. n - 1
  <2>1. CASE i = n - 1
    <3>1. SoundBefore(below, Top.before, n - 1)
      BY <1>8, LastWaits
    <3>2. below[i + 1].before = Top.before
      BY <1>2, <1>8, <2>1
    <3> QED BY <2>1, <3>1, <3>2
  <2>2. CASE i # n - 1
    <3>1. i \in 0 .. n - 2
      BY <2>2
    <3> QED BY <1>8, <3>1, WaitingStay
  <2> QED BY <2>1, <2>2
<1>12. n \in 1 .. Len(below)
  BY <1>8
<1>13. PICK t : t = stack'
  OBVIOUS
<1>14. CASE stack' = below /\ answer' = <<reply>>
  <2>1. answer' # <<>> /\ answer'[1].outcome = "revert"
    BY <1>5, <1>14
  <2>2. Top' = below[n] /\ t = below
    BY <1>8, <1>13, <1>14 DEF Top
  <2>3. SoundAfter(below, w, n, below[n].made - 1)
    BY <1>10, FailSound
  <2>4. ~KeepsBelowIn(w, Append(below[n].path, below[n].made))
    BY <1>8, <1>10, <1>12, NothingBelow
  <2>5. AnswerTrue(w, Append(below[n].path, below[n].made), "revert")
    BY <2>4 DEF AnswerTrue
  <2> QED BY <1>4, <1>8, <1>11, <1>13, <2>1, <2>2, <2>3, <2>5 DEF WInv, WorldsSound
<1>15. CASE stack' = Append(below, called) /\ answer' = <<>>
  <2>1. /\ Len(t) = n + 1 /\ t # <<>> /\ t[n + 1] = called
        /\ \A i \in 1 .. n : t[i] = below[i]
    BY <1>6, <1>8, <1>13, <1>15, Pushed
  <2>2. Top' = called
    BY <1>13, <2>1 DEF Top
  <2>3. called.path = Append(below[n].path, below[n].made) /\ below[n].made \in Nat
    BY <1>1, <1>2, <1>3, <1>8
  <2>4. Trail(t)
    BY <1>8, <2>1, <2>3, TrailPushed
  <2>5. below[n].kind = below[n].target.kind /\ CallsAs(below[n], caller)
    <3>1. Top.kind = Top.target.kind
      <4>1. n \in 1 .. Len(stack)
        OBVIOUS
      <4> QED BY <1>1, <4>1 DEF IInv, Chained
    <3> QED BY <1>2, <1>8, <3>1 DEF SameCall, CallsAs
  <2>6. SoundAfter(t, w, n + 1, 0)
    BY <1>3, <1>8, <1>10, <2>1, <2>3, <2>5, PushSound
  <2>7. \A i \in 0 .. n : SoundBefore(t, t[i + 1].before, i)
    <3> TAKE i \in 0 .. n
    <3>1. \A j \in 1 .. i : t[j] = below[j]
      BY <2>1
    <3>2. CASE i = n
      <4>1. SoundBefore(t, w, n)
        BY <1>10, <3>1, <3>2, PrefixAside
      <4> QED BY <1>3, <2>1, <3>2, <4>1
    <3>3. CASE i # n
      <4>1. i \in 0 .. n - 1 /\ i + 1 \in 1 .. n /\ i \in Nat
        BY <3>3
      <4>2. SoundBefore(below, below[i + 1].before, i)
        BY <1>11, <4>1
      <4>3. SoundBefore(t, below[i + 1].before, i)
        BY <3>1, <4>1, <4>2, PrefixAside
      <4> QED BY <2>1, <4>1, <4>3
    <3> QED BY <3>2, <3>3
  <2>8. \A i \in 0 .. Len(t) - 1 : SoundBefore(t, t[i + 1].before, i)
    BY <2>1, <2>7
  <2>9. SoundAfter(t, w, Len(t), called.made)
    BY <1>3, <2>1, <2>6
  <2>10. /\ Len(stack') = Len(t) /\ stack' = t /\ answer' = <<>> /\ world' = w
    BY <1>4, <1>13, <1>15
  <2> QED BY <2>1, <2>2, <2>4, <2>8, <2>9, <2>10 DEF WInv, WorldsSound
<1> QED BY <1>4, <1>14, <1>15

\* A world of no frame is sound whatever frames there are.
LEMMA GroundAside ==
    ASSUME NEW s, NEW t, NEW w, NEW d, NEW e, Sound(s, w, 0, d)
    PROVE  Sound(t, w, 0, e)
<1>1. Begun(s, 0) = {} /\ Begun(t, 0) = {}
  BY DEF Begun
<1>2. NamesLentIn(t, w, 0)
  BY <1>1 DEF Sound, NamesLentIn
<1>3. \A j \in 1 .. 0 : Through(w, t[j], IF j = 0 THEN e ELSE t[j].made - 1)
  OBVIOUS
<1> QED BY <1>2, <1>3 DEF Sound

LEMMA TransactWords ==
    ASSUME IInv, WInv, Transact
    PROVE  WInv'
<1>1. PICK target \in Targets :
        stack' = <<[target |-> target, kind |-> target.kind, gas |-> TxGas,
                    caller |-> "sender", made |-> 0, path |-> <<>>, before |-> world]>>
  BY DEF Transact
<1> DEFINE f == [target |-> target, kind |-> target.kind, gas |-> TxGas,
                 caller |-> "sender", made |-> 0, path |-> <<>>, before |-> world]
<1>2. stack = <<>> /\ answer = <<>> /\ UNCHANGED <<answer, world, now>>
  BY DEF Transact
<1>3. f.made = 0 /\ f.path = <<>> /\ f.before = world /\ f.caller = "sender"
  OBVIOUS
<1>4. stack' = <<f>>
  BY <1>1
<1> HIDE DEF f
<1>5. PICK t : t = stack'
  OBVIOUS
<1>6. t # <<>> /\ Len(t) = 1 /\ t[1] = f
  BY <1>4, <1>5
<1>7. Trail(t)
  BY <1>3, <1>6 DEF Trail
<1>8. Paths(world) = {} /\ world.kept = {}
  BY <1>2 DEF WInv, WorldsSound, Paths
<1>9. Sound(stack, world, 0, IF answer = <<>> THEN Top.made ELSE Top.made - 1)
  BY <1>2 DEF WInv, WorldsSound, SoundAfter
<1>10. SoundBefore(t, world, 0)
  BY <1>8, <1>9, GroundAside DEF SoundBefore
<1>11. SoundAfter(t, world, 1, 0)
  <2>1. NamesLentIn(t, world, 1)
    <3>1. Begun(t, 1) = {CallOf(f)}
      BY <1>6 DEF Begun
    <3>2. ~IsStrictPrefix(CallOf(f).path, CallOf(f).path) /\ CallOf(f).caller = "sender"
      BY <1>3 DEF CallOf, IsStrictPrefix
    <3>3. world.kept \cup Begun(t, 1) = {CallOf(f)}
      BY <1>8, <3>1
    <3> QED BY <3>2, <3>3 DEF NamesLentIn, LentFor
  <2>2. \A j \in 1 .. 1 : Through(world, t[j], IF j = 1 THEN 0 ELSE t[j].made - 1)
    BY DEF Through
  <2> QED BY <1>8, <1>9, <2>1, <2>2 DEF SoundAfter, Sound
<1>12. WorldsSound'
  <2>1. Top' = f
    BY <1>5, <1>6 DEF Top
  <2>2. \A i \in 0 .. Len(t) - 1 : SoundBefore(t, t[i + 1].before, i)
    <3>1. \A i \in 0 .. Len(t) - 1 : i = 0 /\ i + 1 = 1
      BY <1>6
    <3> QED BY <1>3, <1>6, <1>10, <3>1
  <2> QED BY <1>2, <1>3, <1>5, <1>6, <1>11, <2>1, <2>2 DEF WorldsSound
<1> QED BY <1>5, <1>7, <1>12 DEF WInv

\* A world in which nothing is kept or logged.
LEMMA EmptySound ==
    ASSUME NEW w, w.kept = {}, w.logs = {}, NEW s, NEW d
    PROVE  SoundAfter(s, w, 0, d) /\ Paths(w) = {}
<1>1. Paths(w) = {}
  BY DEF Paths
<1>2. Begun(s, 0) = {}
  BY DEF Begun
<1>3. NamesLentIn(s, w, 0)
  BY <1>2 DEF NamesLentIn
<1> QED BY <1>1, <1>3 DEF SoundAfter, Sound, TruthIn, PromisesIn

LEMMA ForgetWords ==
    ASSUME IInv, Forget
    PROVE  WInv'
<1> DEFINE w == [world EXCEPT !.kept = {}, !.logs = {}]
<1>1. stack' = <<>> /\ answer' = <<>> /\ world' = w /\ world \in WorldStates
  BY DEF Forget, IInv, Typed
<1>2. w.kept = {} /\ w.logs = {}
  BY <1>1 DEF WorldStates
<1> HIDE DEF w
<1>3. SoundAfter(stack', w, 0, Top'.made) /\ Paths(w) = {}
  BY <1>2, EmptySound
<1>4. Len(stack') = 0
  BY <1>1
<1>5. \A i \in 0 .. Len(stack') - 1 : SoundBefore(stack', stack'[i + 1].before, i)
  BY <1>4
<1>6. WorldsSound'
  BY <1>1, <1>3, <1>4, <1>5 DEF WorldsSound
<1>7. Trail(stack')
  BY <1>4 DEF Trail
<1> QED BY <1>6, <1>7 DEF WInv

\* Of a frame that is no batch, nothing need be through.
LEMMA NoBatchThrough ==
    ASSUME NEW s, NEW n \in Nat, NEW w, NEW d, NEW e, SoundAfter(s, w, n, d),
           s[n].kind # "batch"
    PROVE  SoundAfter(s, w, n, e)
<1>1. \A j \in 1 .. n : Through(w, s[j], IF j = n THEN e ELSE s[j].made - 1)
  <2> TAKE j \in 1 .. n
  <2>1. CASE j = n
    BY <2>1 DEF Through
  <2>2. CASE j # n
    <3>1. Through(w, s[j], IF j = n THEN d ELSE s[j].made - 1)
      BY DEF SoundAfter, Sound
    <3> QED BY <2>2, <3>1
  <2> QED BY <2>1, <2>2
<1> QED BY <1>1 DEF SoundAfter, Sound

\* A batch that ends with m calls made: all but perhaps the last are as its mode wants them.
LEMMA EndedPromise ==
    ASSUME NEW s \in Seq(Frames), Trail(s), NEW n \in Nat \ {0}, n = Len(s),
           NEW w \in WorldStates, NEW d \in Int, SoundAfter(s, w, n, d), s[n].kind = "batch",
           NEW m \in Nat, m = s[n].made, m <= s[n].target.size, s[n].kind = s[n].target.kind,
           \/ d = m /\ (s[n].target.mode = "all" => m = s[n].target.size)
           \/ d = m - 1 /\ s[n].target.mode # "all" /\ AttemptedIn(w, Append(s[n].path, m))
    PROVE  PromiseKept(w, CallOf(s[n]))
<1> DEFINE b == CallOf(s[n])
<1>0. n \in 1 .. Len(s) /\ s[n] \in Frames
  OBVIOUS
<1>1. b.path = s[n].path /\ b.target = s[n].target
  BY DEF CallOf
<1>2. b.path \in Seq(Nat) /\ b.target \in Targets /\ b.target.kind = "batch"
  BY <1>0, <1>1 DEF Frames
<1>3. PICK size \in Nat : size = b.target.size
  BY <1>2, CostsAssumption DEF Targets
<1> HIDE DEF b
<1>4. \A k \in 1 .. d : /\ AttemptedIn(w, Append(b.path, k))
                        /\ b.target.mode # "some" => KeepsIn(w, Append(b.path, k))
  <2>1. n \in 1 .. n
    OBVIOUS
  <2>2. Through(w, s[n], d)
    BY <2>1 DEF SoundAfter, Sound
  <2> QED BY <1>1, <2>2 DEF Through
<1>5. m \in 0 .. size
  BY <1>1, <1>3
<1>6. \A k \in 1 .. m : AttemptedIn(w, Append(b.path, k))
  <2>1. d = m \/ d = m - 1
    OBVIOUS
  <2>2. \A k \in 1 .. m : k \in 1 .. d \/ (k = m /\ d = m - 1)
    BY ONLY <2>1, m \in Nat, d \in Int
  <2>3. d = m - 1 => AttemptedIn(w, Append(b.path, m))
    <3>1. m # m - 1
      BY ONLY m \in Nat
    <3> QED BY <1>1, <3>1
  <2> QED BY <1>4, <2>2, <2>3
<1>7. \A k \in Nat : k > m => ~AttemptedIn(w, Append(b.path, k))
  <2> SUFFICES ASSUME NEW k \in Nat, k > m, AttemptedIn(w, Append(b.path, k))
               PROVE  FALSE
    OBVIOUS
  <2>1. \A o : LoggedIn(w, Append(b.path, k), o) => Append(b.path, k) \in Paths(w)
    <3> TAKE o
    <3> DEFINE q == Append(b.path, k)
               log == [path |-> q, ok |-> o]
    <3>1. log.path = q
      OBVIOUS
    <3> HIDE DEF q
    <3>2. LoggedIn(w, q, o) => q \in Paths(w)
      BY <3>1 DEF LoggedIn, Paths
    <3> QED BY <3>2 DEF q
  <2>2. PICK q \in Paths(w) : q = Append(b.path, k)
    BY <2>1 DEF AttemptedIn
  <2>3. Before(s, q, n) \/ Along(s, q, n)
    BY DEF SoundAfter
  <2>4. q # Append(s[n].path, k)
    BY <1>0, <2>3, NotYet
  <2> QED BY <1>1, <2>2, <2>4
<1>8. b.target.mode = "all" => m = size /\ \A k \in 1 .. m : KeepsIn(w, Append(b.path, k))
  BY <1>1, <1>3, <1>4
<1>9. b.target.mode = "untilFailure" => \A k \in 1 .. m - 1 : KeepsIn(w, Append(b.path, k))
  <2>1. \A k \in 1 .. m - 1 : k \in 1 .. d
    OBVIOUS
  <2> QED BY <1>4, <2>1
<1>10. TruthIn(w)
  BY DEF SoundAfter, Sound
<1>11. PromiseKept(w, b)
  BY <1>2, <1>3, <1>5, <1>6, <1>7, <1>8, <1>9, <1>10, PromiseFrom
<1> QED BY <1>11 DEF b

\* A batch logs its k-th call: one it gives up before making it, or one that is answered.
LEMMA LogWords ==
    ASSUME IInv, WInv, Ranged(stack, answer), stack # <<>>, Top.kind = "batch",
           NEW n \in Nat \ {0}, n = Len(stack), NEW k \in 1 .. MaxCalls, NEW ok \in BOOLEAN,
           \/ answer = <<>> /\ k = Top.made + 1 /\ ok = FALSE
           \/ answer # <<>> /\ k = Top.made /\ ok = (answer[1].outcome = "succeed"),
           NEW f, f.made = k, SameCall(Top, f), NEW s, Changed(s, f, n)
    PROVE  /\ SoundAfter(s, Logged(k, ok), n, k - 1)
           /\ AttemptedIn(Logged(k, ok), Append(Top.path, k))
           /\ ok => KeepsIn(Logged(k, ok), Append(Top.path, k))
<1>1. /\ stack \in Seq(Frames) /\ Top \in Frames /\ Top = stack[n] /\ Top.made \in Nat
      /\ world \in WorldStates /\ n \in 1 .. Len(stack)
  <2>1. stack \in Seq(Frames) /\ world \in WorldStates
    BY DEF IInv, Typed
  <2>2. n \in 1 .. Len(stack)
    BY ONLY n \in Nat \ {0}, n = Len(stack)
  <2>3. Top = stack[n]
    BY DEF Top
  <2>4. stack[n] \in Frames
    BY ONLY <2>1, <2>2, FrontOf
  <2>5. stack[n].made \in Nat
    BY ONLY <2>4 DEF Frames
  <2> QED BY <2>1, <2>2, <2>3, <2>4, <2>5
<1>2. /\ s \in Seq(Frames) /\ Len(s) = n /\ s[n] = f
      /\ \A i \in 1 .. n - 1 : s[i] = stack[i]
      /\ Alike(stack, s, n) /\ Trail(s)
  BY DEF Changed
<1>3. k \in Nat /\ s[n].path = Top.path /\ s[n].made = k
  BY <1>2, CostsAssumption DEF SameCall
<1>4. Trail(stack)
  BY DEF WInv
<1>5. SoundAfter(stack, world, n, k - 1)
  <2>1. SoundAfter(stack, world, n, IF answer = <<>> THEN Top.made ELSE Top.made - 1)
    BY DEF WInv, WorldsSound
  <2>2. (IF answer = <<>> THEN Top.made ELSE Top.made - 1) = k - 1
    BY <1>1
  <2> QED BY <2>1, <2>2
<1>6. PICK p \in Seq(Nat) : p = Append(stack[n].path, k)
  BY <1>1, <1>3, <1>4, WayToCall
<1>7. ASSUME answer = <<>> /\ k = Top.made + 1 /\ ok = FALSE
      PROVE  LogFits(world, p, ok) /\ \A q \in Paths(world) : Before(s, q, n)
  <2>1. SoundAfter(stack, world, n, stack[n].made)
    <3>1. k - 1 = stack[n].made
      BY <1>1, <1>7
    <3> QED BY <1>5, <3>1
  <2>2. SoundBefore(s, world, n)
    BY <1>1, <1>2, <1>3, <1>7, <2>1, CallSound
  <2>3. n \in 1 .. Len(s)
    BY <1>2
  <2>4. ~KeepsBelowIn(world, Append(s[n].path, s[n].made))
    BY <1>1, <1>2, <2>2, <2>3, NothingBelow
  <2>5. ~KeepsBelowIn(world, p)
    BY <1>1, <1>3, <1>6, <2>4
  <2>6. \A q \in Paths(world) : Before(s, q, n)
    BY <2>2 DEF SoundBefore
  <2>7. LogFits(world, p, ok)
    BY <1>7, <2>5, Zenon DEF LogFits
  <2> QED BY <2>6, <2>7
<1>8. ASSUME answer # <<>> /\ k = Top.made /\ ok = (answer[1].outcome = "succeed")
      PROVE  LogFits(world, p, ok) /\ \A q \in Paths(world) : Before(s, q, n) \/ Along(s, q, n)
  <2>1. AnswerTrue(world, Append(Top.path, Top.made), answer[1].outcome)
    BY <1>8 DEF WInv, WorldsSound
  <2>2. AnswerTrue(world, p, answer[1].outcome)
    BY <1>1, <1>6, <1>8, <2>1
  <2>3. \A j \in 1 .. n : s[j].made = stack[j].made
    <3> TAKE j \in 1 .. n
    <3>1. CASE j = n
      BY <1>1, <1>3, <1>8, <3>1
    <3>2. CASE j # n
      <4>1. j \in 1 .. n - 1
        BY <3>2
      <4> QED BY <1>2, <4>1
    <3> QED BY <3>1, <3>2
  <2>4. ASSUME NEW q \in Paths(world) PROVE Before(s, q, n) \/ Along(s, q, n)
    <3>1. Before(stack, q, n) \/ Along(stack, q, n)
      BY <1>5 DEF SoundAfter
    <3>2. (Before(s, q, n) <=> Before(stack, q, n)) /\ (Along(s, q, n) <=> Along(stack, q, n))
      <4>1. n \in Nat
        OBVIOUS
      <4> QED BY ONLY <4>1, <2>3, SameWay
    <3> QED BY <3>1, <3>2
  <2>5. LogFits(world, p, ok)
    <3>1. IF answer[1].outcome = "succeed" THEN KeepsIn(world, p) ELSE ~KeepsBelowIn(world, p)
      BY <2>2 DEF AnswerTrue
    <3> QED BY <1>8, <3>1 DEF LogFits
  <2> QED BY <2>4, <2>5
<1>9. LogFits(world, p, ok)
  BY <1>7, <1>8
<1>10. \A q \in Paths(world) : Before(s, q, n) \/ Along(s, q, n)
  BY <1>7, <1>8
<1>11. PICK v : v = Logged(k, ok)
  OBVIOUS
<1>12. v.kept = world.kept /\ v.logs = world.logs \cup {[path |-> p, ok |-> ok]}
  <2>1. v = [world EXCEPT !.logs = @ \cup {[path |-> p, ok |-> ok]}]
    BY <1>1, <1>6, <1>11, Zenon DEF Logged
  <2> QED BY <1>1, <2>1 DEF WorldStates
<1>13. stack[n].path \in Seq(1 .. MaxCalls)
  BY <1>1 DEF Ranged
<1>14. LogFits(world, Append(stack[n].path, k), ok)
  BY <1>6, <1>9
<1>15. v.logs = world.logs \cup {[path |-> Append(stack[n].path, k), ok |-> ok]}
  BY <1>6, <1>12
<1>16. LogTaken(stack, n, world, v, k - 1, Append(stack[n].path, k), ok)
  <2>1. PICK t : t = stack
    OBVIOUS
  <2>2. PICK w : w = world
    OBVIOUS
  <2>3. PICK d : d = k - 1
    OBVIOUS
  <2>4. /\ t \in Seq(Frames) /\ Trail(t) /\ n = Len(t) /\ w \in WorldStates
        /\ SoundAfter(t, w, n, d) /\ t[n].path \in Seq(1 .. MaxCalls)
    BY <1>1, <1>4, <1>5, <1>13, <2>1, <2>2, <2>3
  <2>5. LogFits(w, Append(t[n].path, k), ok)
    BY <1>14, <2>1, <2>2
  <2>6. LogPut(w, v, Append(t[n].path, k), ok)
    BY <1>12, <1>15, <2>1, <2>2 DEF LogPut
  <2>7. LogTaken(t, n, w, v, d, Append(t[n].path, k), ok)
    BY <2>4, <2>5, <2>6, LogSound
  <2> QED BY <2>1, <2>2, <2>3, <2>7
<1>17. /\ Sound(stack, v, n, k - 1) /\ Paths(v) = Paths(world) \cup {p}
       /\ LoggedIn(v, p, ok) /\ (ok => KeepsIn(v, p))
  BY <1>6, <1>16 DEF LogTaken
<1>18. Sound(s, v, n, k - 1)
  BY <1>2, <1>17, SoundAlike
<1>19. Along(s, p, n)
  <2>1. /\ Len(p) = n /\ p[n] = k /\ \A j \in 1 .. n - 1 : p[j] = stack[j].made
    <3>1. PICK t : t = stack
      OBVIOUS
    <3>2. t \in Seq(Frames) /\ Trail(t) /\ n \in 1 .. Len(t)
      BY <1>1, <1>4, <3>1
    <3>3. OnWay(t, n, k, Append(t[n].path, k))
      BY <1>3, <3>2, OnWayTo
    <3>4. OnWay(stack, n, k, p)
      BY <1>6, <3>1, <3>3
    <3> QED BY <3>4 DEF OnWay
  <2>2. \A j \in 1 .. n : p[j] = s[j].made
    BY <1>2, <1>3, <2>1
  <2> QED BY <2>1, <2>2 DEF Along
<1>20. \A q \in Paths(v) : Before(s, q, n) \/ Along(s, q, n)
  BY <1>10, <1>17, <1>19
<1>21. SoundAfter(s, v, n, k - 1)
  BY <1>18, <1>20 DEF SoundAfter
<1>22. AttemptedIn(v, p)
  BY <1>17 DEF AttemptedIn
<1>23. Append(Top.path, k) = p
  BY <1>1, <1>6
<1> QED BY <1>11, <1>17, <1>21, <1>22, <1>23

-----------------------------------------------------------------------------
(* The actions                                                             *)

LEMMA TopSound ==
    ASSUME IInv, WInv, Ranged(stack, answer), stack # <<>>, NEW n \in Nat \ {0}, n = Len(stack)
    PROVE  /\ stack \in Seq(Frames) /\ Top \in Frames /\ Top = stack[n] /\ n \in 1 .. Len(stack)
           /\ Top.kind = Top.target.kind /\ Top.path \in Seq(1 .. MaxCalls) /\ Top.made \in Nat
           /\ Trail(stack) /\ world \in WorldStates
           /\ answer = <<>> => SoundAfter(stack, world, n, Top.made)
           /\ answer # <<>> => SoundAfter(stack, world, n, Top.made - 1)
<1>1. /\ stack \in Seq(Frames) /\ Top \in Frames /\ Top = stack[n] /\ n \in 1 .. Len(stack)
      /\ world \in WorldStates
  BY FrontOf DEF IInv, Typed, Top
<1>2. Top.kind = Top.target.kind /\ Top.path \in Seq(1 .. MaxCalls) /\ Top.made \in Nat
  BY <1>1 DEF IInv, Chained, Ranged, Frames
<1>3. SoundAfter(stack, world, n, IF answer = <<>> THEN Top.made ELSE Top.made - 1)
  BY DEF WInv, WorldsSound
<1>4. answer = <<>> => SoundAfter(stack, world, n, Top.made)
  BY <1>3
<1>5. answer # <<>> => SoundAfter(stack, world, n, Top.made - 1)
  BY <1>3
<1> QED BY <1>1, <1>2, <1>4, <1>5 DEF WInv

\* A frame ends as it is.
LEMMA EndsHere ==
    ASSUME IInv, WInv, Ranged(stack, answer), stack # <<>>, NEW n \in Nat \ {0}, n = Len(stack),
           NEW w \in WorldStates, NEW d, NEW outcome, NEW gas,
           outcome = "succeed" => SoundAfter(stack, w, n, d),
           outcome = "succeed" /\ Top.kind = "batch" => PromiseKept(w, CallOf(Top)),
           EndIn(w, outcome, gas)
    PROVE  WInv'
<1>1. /\ stack \in Seq(Frames) /\ Top = stack[n] /\ Trail(stack)
      /\ stack[n].path \in Seq(1 .. MaxCalls)
  BY TopSound
<1>2. SameCall(Top, stack[n])
  BY <1>1 DEF SameCall
<1>3. PICK s : s = stack
  OBVIOUS
<1>4. /\ s \in Seq(Frames) /\ Len(s) = n /\ SameCall(Top, s[n]) /\ Trail(s)
      /\ s[n].path \in Seq(1 .. MaxCalls)
  BY <1>1, <1>2, <1>3
<1>5. \A i \in 1 .. n - 1 : s[i] = stack[i]
  BY <1>3
<1>6. outcome = "succeed" => SoundAfter(s, w, n, d)
  BY <1>3
<1> QED BY <1>4, <1>5, <1>6, EndWords

LEMMA EndsInFailure ==
    ASSUME IInv, WInv, Ranged(stack, answer), stack # <<>>,
           NEW w \in WorldStates, NEW outcome, outcome # "succeed", NEW gas,
           EndIn(w, outcome, gas)
    PROVE  WInv'
<1>1. PICK n \in Nat \ {0} : n = Len(stack)
  BY FrontOf DEF IInv, Typed
<1> QED BY <1>1, EndsHere

\* Only the gas of the last frame changes.
LEMMA AfterAlike ==
    ASSUME NEW s, NEW t, NEW n \in Nat, Alike(s, t, n), \A j \in 1 .. n : t[j].made = s[j].made,
           NEW w, NEW d, SoundAfter(s, w, n, d)
    PROVE  SoundAfter(t, w, n, d)
<1>1. Sound(t, w, n, d)
  BY SoundAlike DEF SoundAfter
<1>2. ASSUME n > 0, NEW q \in Paths(w) PROVE Before(t, q, n) \/ Along(t, q, n)
  <2>1. Before(s, q, n) \/ Along(s, q, n)
    BY <1>2 DEF SoundAfter
  <2>2. (Before(t, q, n) <=> Before(s, q, n)) /\ (Along(t, q, n) <=> Along(s, q, n))
    BY SameWay
  <2> QED BY <2>1, <2>2
<1> QED BY <1>1, <1>2 DEF SoundAfter

LEMMA CodeWords ==
    ASSUME IInv, WInv, Ranged(stack, answer), CodeCalls \/ CodeGets \/ CodeEnds
    PROVE  WInv'
<1>1. stack # <<>> /\ Top.kind = "code" /\ Top.gas \in Nat /\ Top.made \in Nat
      /\ world \in WorldStates /\ CallCost \in Nat
  BY FrontOf, CostsAssumption
     DEF IInv, Typed, CodeCalls, CodeGets, CodeEnds, Running, Answered, Frames
<1>2. PICK n \in Nat \ {0} : n = Len(stack)
  BY <1>1, FrontOf DEF IInv, Typed
<1>3. CASE CodeCalls
  <2>1. PICK target \in Targets, gas \in 0 .. Top.gas - CallCost :
          Call(world, Top.gas, target, gas, "contract")
    BY <1>3 DEF CodeCalls
  <2>2. answer = <<>>
    BY <1>3 DEF CodeCalls, Running
  <2>3. gas \in Nat /\ Top.gas - CallCost - gas \in Nat
    BY <1>1, <2>1
  <2>4. "contract" \in Callers /\ Top.gas \in Int /\ CallsAs(Top, "contract")
    BY <1>1 DEF Callers, CallsAs
  <2> QED BY <1>1, <1>2, <2>1, <2>2, <2>3, <2>4, CallWords
<1>4. CASE CodeGets
  <2>1. answer # <<>>
    BY <1>4 DEF CodeGets, Answered
  <2>2. answer[1].gas \in Nat
    BY <2>1, Answer DEF Answers
  <2>3. CASE answer[1].outcome = "fatal"
    <3>1. EndIn(world, "fatal", 0)
      BY <1>4, <2>3 DEF CodeGets, End
    <3> QED BY <1>1, <3>1, EndsInFailure
  <2>4. CASE answer[1].outcome # "fatal"
    <3>1. GoOn(Top.gas + answer[1].gas, Top.made) /\ world' = world
      BY <1>4, <2>4 DEF CodeGets
    <3>2. PICK gas \in Nat : gas = Top.gas + answer[1].gas
      BY <1>1, <2>2
    <3>3. PICK s : s = stack'
      OBVIOUS
    <3> DEFINE f == [Top EXCEPT !.gas = gas, !.made = Top.made]
    <3>4. f \in Frames /\ SameCall(Top, f) /\ f.made = Top.made
      BY <1>1, <1>2, <3>2, TopSound DEF Frames, SameCall
    <3>5. s = Append(Front(stack), f)
      BY <3>1, <3>2, <3>3 DEF GoOn
    <3> HIDE DEF f
    <3>6. Changed(s, f, n)
      BY <1>1, <1>2, <3>4, <3>5, LastChanged
    <3>7. SoundAfter(stack, world, n, Top.made)
      <4>1. SoundAfter(stack, world, n, Top.made - 1) /\ stack[n].kind # "batch"
        BY <1>1, <1>2, <2>1, TopSound
      <4> QED BY <4>1, NoBatchThrough
    <3>8. SoundAfter(s, world, n, Top.made)
      <4>1. Alike(stack, s, n) /\ \A j \in 1 .. n : s[j].made = stack[j].made
        <5>1. Top = stack[n] /\ s[n].made = Top.made
          BY <1>1, <1>2, <3>4, <3>6, TopSound DEF Changed
        <5>2. \A j \in 1 .. n - 1 : s[j] = stack[j]
          BY <3>6 DEF Changed
        <5> QED BY <3>6, <5>1, <5>2 DEF Changed
      <4>2. PICK t : t = stack
        OBVIOUS
      <4>3. PICK w : w = world
        OBVIOUS
      <4>4. Alike(t, s, n) /\ SoundAfter(t, w, n, Top.made) /\ \A j \in 1 .. n : s[j].made = t[j].made
        BY <3>7, <4>1, <4>2, <4>3
      <4>5. SoundAfter(s, w, n, Top.made)
        BY <4>4, AfterAlike
      <4> QED BY <4>3, <4>5
    <3>9. SoundAfter(stack', world', Len(stack), Top.made) /\ GoOn(gas, Top.made)
      BY <1>2, <3>1, <3>2, <3>3, <3>8
    <3> QED BY <1>1, <3>9, GoOnWords
  <2> QED BY <2>3, <2>4
<1>5. CASE CodeEnds
  <2>1. PICK outcome \in {"succeed", "revert", "error", "fatal"}, gas \in {0, Top.gas} :
          EndIn(world, outcome, gas)
    BY <1>5 DEF CodeEnds, End
  <2>2. answer = <<>>
    BY <1>5 DEF CodeEnds, Running
  <2>3. SoundAfter(stack, world, n, Top.made)
    BY <1>1, <1>2, <2>2, TopSound
  <2>4. Top.kind # "batch"
    BY <1>1
  <2> QED BY <1>1, <1>2, <2>1, <2>3, <2>4, EndsHere
<1> QED BY <1>3, <1>4, <1>5

LEMMA SizeBounded ==
    ASSUME NEW target \in Targets
    PROVE  target.size \in 0 .. MaxCalls
<1>1. 1 \in 0 .. MaxCalls /\ MaxCalls \in 0 .. MaxCalls
  BY CostsAssumption
<1> QED BY <1>1 DEF Targets

\* A batch logs its k-th call and has done enough.
LEMMA LogsAndEnds ==
    ASSUME IInv, WInv, Ranged(stack, answer), stack # <<>>, Top.kind = "batch",
           NEW k \in 1 .. MaxCalls, NEW ok \in BOOLEAN,
           \/ answer = <<>> /\ k = Top.made + 1 /\ ok = FALSE
           \/ answer # <<>> /\ k = Top.made /\ ok = (answer[1].outcome = "succeed"),
           k <= Top.target.size, Top.target.mode # "all",
           NEW gas, EndIn(Logged(k, ok), "succeed", gas)
    PROVE  WInv'
<1>1. PICK n \in Nat \ {0} : n = Len(stack)
  BY FrontOf DEF IInv, Typed
<1>2. /\ Top \in Frames /\ Top = stack[n] /\ Top.kind = Top.target.kind
      /\ Top.path \in Seq(1 .. MaxCalls)
  BY <1>1, TopSound
<1>3. k \in Nat /\ k - 1 \in Int
  BY CostsAssumption
<1> DEFINE f == [Top EXCEPT !.made = k]
<1>4. f \in Frames /\ SameCall(Top, f) /\ f.made = k /\ CallOf(f) = CallOf(Top)
  BY <1>2, <1>3 DEF Frames, SameCall, CallOf
<1> HIDE DEF f
<1>5. PICK s : s = Append(Front(stack), f)
  OBVIOUS
<1>6. Changed(s, f, n)
  BY <1>1, <1>4, <1>5, LastChanged
<1>7. PICK w : w = Logged(k, ok)
  OBVIOUS
<1>8. w \in WorldStates
  BY <1>3, <1>7, LoggedWorld
<1>9. SoundAfter(s, w, n, k - 1) /\ AttemptedIn(w, Append(Top.path, k))
  <2>1. SoundAfter(s, Logged(k, ok), n, k - 1)
        /\ AttemptedIn(Logged(k, ok), Append(Top.path, k))
    BY <1>1, <1>4, <1>6, LogWords
  <2> QED BY <1>7, <2>1
<1>10. /\ s \in Seq(Frames) /\ Len(s) = n /\ s[n] = f /\ Trail(s)
       /\ \A i \in 1 .. n - 1 : s[i] = stack[i]
  BY <1>6 DEF Changed
<1>11. /\ s[n].kind = "batch" /\ s[n].kind = s[n].target.kind /\ k = s[n].made
       /\ k <= s[n].target.size /\ s[n].target.mode # "all" /\ s[n].path = Top.path
       /\ SameCall(Top, s[n])
  BY <1>2, <1>4, <1>10 DEF SameCall
<1>12. PromiseKept(w, CallOf(s[n]))
  <2>1. PICK d \in Int : d = k - 1
    BY <1>3
  <2>2. SoundAfter(s, w, n, d) /\ AttemptedIn(w, Append(s[n].path, k))
    BY <1>9, <1>11, <2>1
  <2> QED BY <1>3, <1>8, <1>10, <1>11, <2>1, <2>2, EndedPromise
<1>13. PromiseKept(w, CallOf(Top))
  BY <1>4, <1>10, <1>12
<1>14. s[n].path \in Seq(1 .. MaxCalls) /\ EndIn(w, "succeed", gas)
  BY <1>2, <1>7, <1>11
<1> QED BY <1>1, <1>8, <1>9, <1>10, <1>11, <1>13, <1>14, EndWords

\* A batch logs its k-th call and looks at the next.
LEMMA LogsAndGoesOn ==
    ASSUME IInv, WInv, Ranged(stack, answer), stack # <<>>, Top.kind = "batch",
           NEW k \in 1 .. MaxCalls, NEW ok \in BOOLEAN,
           \/ answer = <<>> /\ k = Top.made + 1 /\ ok = FALSE
           \/ answer # <<>> /\ k = Top.made /\ ok = (answer[1].outcome = "succeed"),
           Top.target.mode # "some" => ok,
           NEW gas \in Nat, GoOn(gas, k), world' = Logged(k, ok)
    PROVE  WInv'
<1>1. PICK n \in Nat \ {0} : n = Len(stack)
  BY FrontOf DEF IInv, Typed
<1>2. Top \in Frames /\ Top = stack[n]
  BY <1>1, TopSound
<1>3. k \in Nat /\ k - 1 \in Int /\ (k - 1) + 1 = k
  BY CostsAssumption
<1> DEFINE f == [Top EXCEPT !.gas = gas, !.made = k]
<1>4. f \in Frames /\ SameCall(Top, f) /\ f.made = k
  BY <1>2, <1>3 DEF Frames, SameCall
<1>5. PICK s : s = stack'
  OBVIOUS
<1>6. s = Append(Front(stack), f)
  BY <1>5 DEF GoOn
<1> HIDE DEF f
<1>7. Changed(s, f, n)
  BY <1>1, <1>4, <1>6, LastChanged
<1>8. PICK w : w = Logged(k, ok)
  OBVIOUS
<1>9. /\ SoundAfter(s, w, n, k - 1)
      /\ AttemptedIn(w, Append(Top.path, k))
      /\ ok => KeepsIn(w, Append(Top.path, k))
  <2>1. /\ SoundAfter(s, Logged(k, ok), n, k - 1)
        /\ AttemptedIn(Logged(k, ok), Append(Top.path, k))
        /\ ok => KeepsIn(Logged(k, ok), Append(Top.path, k))
    BY <1>1, <1>4, <1>7, LogWords
  <2> QED BY <1>8, <2>1
<1>10. s[n].path = Top.path /\ s[n].target = Top.target
  BY <1>4, <1>7 DEF Changed, SameCall
<1>11. Sound(s, w, n, k)
  <2>1. PICK d \in Int : d = k - 1
    BY <1>3
  <2>2. d + 1 = k
    BY <1>3, <2>1
  <2>3. /\ Sound(s, w, n, d) /\ AttemptedIn(w, Append(s[n].path, d + 1))
        /\ s[n].target.mode # "some" => KeepsIn(w, Append(s[n].path, d + 1))
    BY <1>9, <1>10, <2>1, <2>2 DEF SoundAfter
  <2>4. Sound(s, w, n, d + 1)
    BY <2>3, MoreThrough
  <2> QED BY <2>2, <2>4
<1>12. SoundAfter(s, w, n, k)
  BY <1>9, <1>11 DEF SoundAfter
<1>13. SoundAfter(stack', world', Len(stack), k)
  BY <1>1, <1>5, <1>8, <1>12
<1> QED BY <1>3, <1>13, GoOnWords

LEMMA BatchWords ==
    ASSUME IInv, WInv, Ranged(stack, answer),
           BatchEnds \/ BatchRunsOut \/ BatchSkips \/ BatchCalls \/ BatchGets
    PROVE  WInv'
<1>1. stack # <<>> /\ Top.kind = "batch" /\ Top.gas \in Nat /\ Top.made \in Nat
      /\ Top.caller \in Callers /\ Top.target \in Targets
      /\ world \in WorldStates /\ CallCost \in Nat /\ LogCost \in Nat
  BY FrontOf, CostsAssumption
     DEF IInv, Typed, BatchEnds, BatchRunsOut, BatchSkips, BatchCalls, BatchGets, Running,
         Answered, Frames
<1>2. PICK n \in Nat \ {0} : n = Len(stack)
  BY <1>1, FrontOf DEF IInv, Typed
<1>3. /\ stack \in Seq(Frames) /\ Top = stack[n] /\ n \in 1 .. Len(stack) /\ Trail(stack)
      /\ Top.kind = Top.target.kind
  BY <1>1, <1>2, TopSound
<1>4. Top.made <= Top.target.size /\ (answer # <<>> => Top.made >= 1)
  BY <1>2, <1>3 DEF Ranged
<1>5. Top.target.size \in 0 .. MaxCalls /\ MaxCalls \in Nat /\ Top.target.mode \in Modes
  <2>1. Top.target.mode \in Modes
    BY <1>1 DEF Targets, Modes
  <2> QED BY <1>1, <2>1, SizeBounded, CostsAssumption
<1>6. ASSUME answer = <<>>, Top.target.mode = "all" => Top.made = Top.target.size, NEW gas,
             EndIn(world, "succeed", gas)
      PROVE  WInv'
  <2>1. SoundAfter(stack, world, n, Top.made)
    BY <1>1, <1>2, <1>6, TopSound
  <2>2. PICK s : s = stack
    OBVIOUS
  <2>3. PICK m \in Nat : m = Top.made
    BY <1>1
  <2>4. /\ s \in Seq(Frames) /\ Trail(s) /\ n = Len(s) /\ s[n].kind = "batch"
        /\ m = s[n].made /\ m <= s[n].target.size /\ s[n].kind = s[n].target.kind
        /\ s[n].target.mode = "all" => m = s[n].target.size
    BY <1>1, <1>2, <1>3, <1>4, <1>6, <2>2, <2>3
  <2>5. PICK w \in WorldStates : w = world
    BY <1>1
  <2>6. PICK d \in Int : d = m
    OBVIOUS
  <2>7. SoundAfter(s, w, n, d) /\ d = m /\ (s[n].target.mode = "all" => m = s[n].target.size)
    BY <2>1, <2>2, <2>3, <2>4, <2>5, <2>6
  <2>8. PromiseKept(w, CallOf(s[n]))
    BY <2>4, <2>7, EndedPromise
  <2>9. PromiseKept(world, CallOf(Top))
    BY <1>3, <2>2, <2>5, <2>8
  <2> QED BY <1>1, <1>2, <1>6, <2>1, <2>9, EndsHere
<1>7. CASE BatchEnds
  <2>1. EndIn(world, "succeed", Top.gas) /\ answer = <<>> /\ Top.made = Top.target.size
    BY <1>7 DEF BatchEnds, End, Running
  <2> QED BY <1>6, <2>1
<1>8. CASE BatchRunsOut
  <2>1. answer = <<>> /\ EndIn(world, IF Mode = "all" THEN "error" ELSE "succeed", Top.gas)
    BY <1>8 DEF BatchRunsOut, End, Running
  <2>2. CASE Mode = "all"
    <3>1. EndIn(world, "error", Top.gas)
      BY <2>1, <2>2
    <3> QED BY <1>1, <3>1, EndsInFailure
  <2>3. CASE Mode # "all"
    <3>1. EndIn(world, "succeed", Top.gas) /\ Top.target.mode # "all"
      BY <2>1, <2>3 DEF Mode
    <3> QED BY <1>6, <2>1, <3>1
  <2> QED BY <2>2, <2>3
<1>9. CASE BatchSkips
  <2> DEFINE left == Top.gas - LogCost
  <2>1. PICK k \in 1 .. MaxCalls : k = Top.made + 1 /\ k <= Top.target.size
    BY <1>1, <1>5, <1>9 DEF BatchSkips
  <2>2. answer = <<>> /\ left \in Nat
    BY <1>1, <1>9 DEF BatchSkips, Running
  <2>3. k \in Nat /\ Logged(k, FALSE) \in WorldStates
    <3>1. k \in Nat /\ FALSE \in BOOLEAN
      BY <1>5
    <3> QED BY <1>1, <3>1, LoggedWorld
  <2>4. \/ EndIn(Logged(k, FALSE), "error", 0)
        \/ Top.target.mode = "untilFailure" /\ EndIn(Logged(k, FALSE), "succeed", left)
        \/ Top.target.mode = "some" /\ GoOn(left, k) /\ world' = Logged(k, FALSE)
    BY <1>9, <2>1 DEF BatchSkips, Mode
  <2> HIDE DEF left
  <2>5. CASE EndIn(Logged(k, FALSE), "error", 0)
    BY <1>1, <2>3, <2>5, EndsInFailure
  <2>6. CASE Top.target.mode = "untilFailure" /\ EndIn(Logged(k, FALSE), "succeed", left)
    BY <1>1, <2>1, <2>2, <2>6, LogsAndEnds
  <2>7. CASE Top.target.mode = "some" /\ GoOn(left, k) /\ world' = Logged(k, FALSE)
    BY <1>1, <2>1, <2>2, <2>7, LogsAndGoesOn
  <2> QED BY <2>4, <2>5, <2>6, <2>7
<1>10. CASE BatchCalls
  <2>1. PICK limit \in Limits, target \in Targets :
          /\ limit <= Room
          /\ Call(world, Top.gas, target, IF limit = 0 THEN Room ELSE limit, Top.caller)
    BY <1>10 DEF BatchCalls
  <2>2. answer = <<>> /\ Room >= 0
    BY <1>10 DEF BatchCalls, Running
  <2>3. PICK gas \in Nat : gas = (IF limit = 0 THEN Room ELSE limit)
    <3>1. Room \in Nat /\ limit \in Nat
      BY <1>1, <2>2, CostsAssumption DEF Room
    <3> QED BY <3>1
  <2>4. Top.gas - CallCost - gas \in Nat
    <3>1. gas <= Room
      BY <2>1, <2>2, <2>3
    <3> QED BY <1>1, <2>3, <3>1 DEF Room
  <2>5. Top.gas \in Int /\ CallsAs(Top, Top.caller)
    BY <1>1 DEF CallsAs
  <2>6. Call(world, Top.gas, target, gas, Top.caller)
    BY <2>1, <2>3
  <2> QED BY <1>1, <1>2, <2>2, <2>4, <2>5, <2>6, CallWords
<1>11. CASE BatchGets
  <2> DEFINE left == Top.gas + answer[1].gas - LogCost
  <2>1. PICK ok \in BOOLEAN : ok = (answer[1].outcome = "succeed")
    OBVIOUS
  <2>2. answer # <<>> /\ answer[1] \in Answers
    BY <1>11, Answer DEF BatchGets, Answered
  <2>3. left \in Int
    BY <1>1, <2>2 DEF Answers
  <2>4. PICK k \in 1 .. MaxCalls : k = Top.made /\ k <= Top.target.size
    BY <1>1, <1>4, <1>5, <2>2
  <2>5. k \in Nat /\ Logged(k, ok) \in WorldStates
    BY <1>1, <1>5, <2>4, LoggedWorld
  <2>6. \/ EndIn(world, "fatal", 0)
        \/ EndIn(world, "error", 0)
        \/ /\ ok \/ Top.target.mode = "some"
           /\ left >= 0 /\ GoOn(left, k) /\ world' = Logged(k, ok)
        \/ EndIn(Logged(k, ok), answer[1].outcome, left) /\ ~ok
        \/ Top.target.mode # "all" /\ EndIn(Logged(k, ok), "succeed", left)
    <3>1. Logged(k, ok) = Logged(Top.made, answer[1].outcome = "succeed")
      BY <2>1, <2>4
    <3>2. CASE answer[1].outcome = "fatal"
      BY <1>11, <3>2 DEF BatchGets, End
    <3>3. CASE answer[1].outcome # "fatal" /\ left < 0
      BY <1>11, <3>3 DEF BatchGets, End
    <3>4. CASE /\ answer[1].outcome # "fatal" /\ ~(left < 0)
               /\ answer[1].outcome = "succeed" \/ Mode = "some"
      <4>1. GoOn(left, Top.made) /\ world' = Logged(Top.made, answer[1].outcome = "succeed")
        BY <1>11, <3>4 DEF BatchGets
      <4>2. left >= 0
        BY <2>3, <3>4
      <4> QED BY <2>1, <2>4, <3>1, <3>4, <4>1, <4>2 DEF Mode
    <3>5. CASE /\ answer[1].outcome # "fatal" /\ ~(left < 0)
               /\ ~(answer[1].outcome = "succeed" \/ Mode = "some")
      <4>1. EndIn(Logged(Top.made, answer[1].outcome = "succeed"),
                  IF Mode = "all" THEN answer[1].outcome ELSE "succeed", left)
        BY <1>11, <3>5 DEF BatchGets
      <4> QED BY <2>1, <3>1, <3>5, <4>1 DEF Mode
    <3> QED BY <3>2, <3>3, <3>4, <3>5
  <2> HIDE DEF left
  <2>7. CASE EndIn(world, "fatal", 0) \/ EndIn(world, "error", 0)
    BY <1>1, <2>7, EndsInFailure
  <2>8. CASE /\ ok \/ Top.target.mode = "some"
             /\ left >= 0 /\ GoOn(left, k) /\ world' = Logged(k, ok)
    <3>1. left \in Nat /\ (Top.target.mode # "some" => ok)
      BY <2>3, <2>8
    <3> QED BY <1>1, <2>1, <2>2, <2>4, <2>8, <3>1, LogsAndGoesOn
  <2>9. CASE EndIn(Logged(k, ok), answer[1].outcome, left) /\ ~ok
    BY <1>1, <2>1, <2>5, <2>9, EndsInFailure
  <2>10. CASE Top.target.mode # "all" /\ EndIn(Logged(k, ok), "succeed", left)
    BY <1>1, <2>1, <2>2, <2>4, <2>10, LogsAndEnds
  <2> QED BY <2>6, <2>7, <2>8, <2>9, <2>10
<1> QED BY <1>7, <1>8, <1>9, <1>10, <1>11

\* Using up a permit's nonce leaves what is kept and logged.
LEMMA SpentWorld ==
    ASSUME IInv, NEW permit \in Permits
    PROVE  LET spent == [world EXCEPT !.nonce = @ + 1,
                                      !.spent = Append(@, [permit |-> permit, at |-> now])]
           IN  spent \in WorldStates /\ spent.kept = world.kept /\ spent.logs = world.logs
<1> DEFINE spent == [world EXCEPT !.nonce = @ + 1,
                                  !.spent = Append(@, [permit |-> permit, at |-> now])]
<1>0. world \in WorldStates /\ now \in Nat
  BY DEF IInv, Typed
<1>1. world.nonce \in Nat /\ world.spent \in Seq([permit : Permits, at : Nat])
  BY <1>0 DEF WorldStates
<1>2. PICK entry \in [permit : Permits, at : Nat] : entry = [permit |-> permit, at |-> now]
  BY <1>0
<1>3. PICK list \in Seq([permit : Permits, at : Nat]) : list = Append(world.spent, entry)
  <2>1. PICK S : S = [permit : Permits, at : Nat]
    OBVIOUS
  <2>2. entry \in S /\ world.spent \in Seq(S)
    BY <1>1, <2>1
  <2>3. Append(world.spent, entry) \in Seq(S)
    BY <2>2, Extended
  <2> QED BY <2>1, <2>3
<1>4. PICK m \in Nat : m = world.nonce + 1
  BY <1>1
<1>5. spent = [world EXCEPT !.nonce = m, !.spent = list]
  BY <1>2, <1>3, <1>4
<1> HIDE DEF spent
<1>6. spent \in WorldStates /\ spent.kept = world.kept /\ spent.logs = world.logs
  BY <1>0, <1>5 DEF WorldStates
<1> QED BY <1>6 DEF spent

LEMMA PermitWords ==
    ASSUME IInv, WInv, Ranged(stack, answer), PermitCalls \/ PermitGets
    PROVE  WInv'
<1>1. stack # <<>> /\ Top.kind = "permit" /\ Top.gas \in Nat /\ Top.target \in Targets
      /\ world \in WorldStates /\ CallCost \in Nat /\ DispatchCost \in Nat /\ now \in Nat
  BY FrontOf, CostsAssumption
     DEF IInv, Typed, PermitCalls, PermitGets, Running, Answered, Frames
<1>2. PICK n \in Nat \ {0} : n = Len(stack)
  BY <1>1, FrontOf DEF IInv, Typed
<1>3. CASE PermitCalls
  <2> DEFINE permit == Top.target.permit
             left == Top.gas - DispatchCost
             spent == [world EXCEPT !.nonce = @ + 1,
                                    !.spent = Append(@, [permit |-> permit, at |-> now])]
  <2>1. Top.target.kind = "permit"
    BY <1>1, <1>2, TopSound
  <2>2. permit \in Permits
    BY <1>1, <2>1 DEF Targets
  <2>3. permit.limit \in Nat /\ left \in Int
    <3>1. permit.limit \in PermitLimits
      BY <2>2 DEF Permits
    <3>2. PermitLimits \subseteq Nat
      BY CostsAssumption
    <3>3. left \in Int
      BY <1>1
    <3> QED BY <3>1, <3>2, <3>3
  <2>4. answer = <<>>
    BY <1>3 DEF PermitCalls, Running
  <2>5. \/ EndIn(world, "error", 0)
        \/ EndIn(world, "revert", left)
        \/ /\ left >= 0 /\ ~Refused(permit, left)
           /\ \E target \in Targets : Call(spent, left, target, permit.limit, "signer")
    BY <1>3, <2>3 DEF PermitCalls, End
  <2>6. spent \in WorldStates /\ spent.kept = world.kept /\ spent.logs = world.logs
    BY <2>2, SpentWorld
  <2> HIDE DEF spent, left, permit
  <2>7. CASE EndIn(world, "error", 0) \/ EndIn(world, "revert", left)
    BY <1>1, <2>7, EndsInFailure
  <2>8. CASE /\ left >= 0 /\ ~Refused(permit, left)
             /\ \E target \in Targets : Call(spent, left, target, permit.limit, "signer")
    <3>1. PICK target \in Targets : Call(spent, left, target, permit.limit, "signer")
      BY <2>8, Zenon
    <3>2. left - CallCost - permit.limit \in Nat
      <4>1. ~Refused(permit, left)
        BY <2>8, Zenon
      <4> QED BY <1>1, <2>3, <4>1 DEF Refused
    <3>3. "signer" \in Callers /\ CallsAs(Top, "signer")
      BY <1>1 DEF Callers, CallsAs
    <3> QED BY <1>1, <1>2, <2>3, <2>4, <2>6, <3>1, <3>2, <3>3, CallWords
  <2> QED BY <2>5, <2>7, <2>8
<1>4. CASE PermitGets
  <2>1. answer # <<>> /\ EndIn(world, answer[1].outcome, Top.gas + answer[1].gas)
    BY <1>4 DEF PermitGets, Answered, End
  <2>2. SoundAfter(stack, world, n, Top.made - 1) /\ Top.kind # "batch"
    BY <1>1, <1>2, <2>1, TopSound
  <2> QED BY <1>1, <1>2, <2>1, <2>2, EndsHere
<1> QED BY <1>3, <1>4

LEMMA WordsKept ==
    ASSUME IInv, WInv, Ranged(stack, answer), [Next]_vars
    PROVE  WInv'
<1>1. CASE UNCHANGED vars
  BY <1>1 DEF vars, WInv, WorldsSound, Top
<1> QED BY <1>1, CodeWords, BatchWords, PermitWords, TransactWords, ForgetWords DEF Next

LEMMA WordsBegin ==
    ASSUME Init
    PROVE  WInv
<1>1. /\ stack = <<>> /\ answer = <<>> /\ world.kept = {} /\ world.logs = {}
  BY DEF Init
<1>2. \A s, d : SoundAfter(s, world, 0, d) /\ Paths(world) = {}
  <2>1. PICK w : w = world
    OBVIOUS
  <2>2. w.kept = {} /\ w.logs = {}
    BY <1>1, <2>1
  <2> QED BY <2>1, <2>2, EmptySound
<1> QED BY <1>1, <1>2 DEF WInv, Trail, WorldsSound

-----------------------------------------------------------------------------
(* The bounds                                                              *)

\* The last frame, and what its caller is told, have what it and its last call had.
LEMMA BudgetChanged ==
    ASSUME NEW s \in Seq(Frames), NEW n \in Nat \ {0}, n = Len(s), NEW a, Budgeted(s, a),
           NEW spare \in Nat, spare = Spare(a),
           NEW t, Len(t) = n, \A i \in 1 .. n - 1 : t[i] = s[i],
           NEW gas \in Nat, gas = t[n].gas, NEW b, NEW extra \in Nat, extra = Spare(b),
           gas + extra <= s[n].gas + spare
    PROVE  Budgeted(t, b) /\ Spare(b) <= TxGas
<1>1. PICK given \in [1 .. n -> 0 .. TxGas] : \A i \in 1 .. n :
        s[i].gas + (IF i < n THEN given[i + 1] ELSE Spare(a)) <= given[i]
  BY Zenon DEF Budgeted
<1>2. \A i \in 1 .. n : s[i].gas \in Nat /\ given[i] \in 0 .. TxGas
  <2> TAKE i \in 1 .. n
  <2>1. s[i] \in Frames
    BY ElementOf
  <2>2. s[i].gas \in Nat
    BY <2>1 DEF Frames
  <2> QED BY <2>2
<1>3. n \in 1 .. n /\ TxGas \in Nat
  BY CostsAssumption
<1>4. gas + extra <= given[n]
  <2>1. s[n].gas + spare <= given[n]
    BY <1>1, <1>3
  <2> QED BY <1>2, <1>3, <2>1
<1>5. ASSUME NEW i \in 1 .. n
      PROVE  t[i].gas + (IF i < n THEN given[i + 1] ELSE extra) <= given[i]
  <2>1. CASE i = n
    BY <1>4, <2>1
  <2>2. CASE i # n
    <3>1. i \in 1 .. n - 1 /\ i < n
      BY <2>2
    <3> QED BY <1>1, <3>1
  <2> QED BY <2>1, <2>2
<1>6. extra <= TxGas
  BY <1>2, <1>3, <1>4
<1>7. given \in [1 .. Len(t) -> 0 .. TxGas]
  OBVIOUS
<1>8. \A i \in 1 .. Len(t) :
         t[i].gas + (IF i < Len(t) THEN given[i + 1] ELSE Spare(b)) <= given[i]
  BY <1>5
<1>9. Budgeted(t, b)
  BY <1>7, <1>8, Zenon DEF Budgeted
<1> QED BY <1>6, <1>9

\* It ends, and hands back no more than that.
LEMMA BudgetEnded ==
    ASSUME NEW s \in Seq(Frames), NEW n \in Nat \ {0}, n = Len(s), NEW a, Budgeted(s, a),
           NEW spare \in Nat, spare = Spare(a),
           NEW t, Len(t) = n - 1, \A i \in 1 .. n - 1 : t[i] = s[i],
           NEW b, NEW extra \in Nat, extra = Spare(b), extra <= s[n].gas + spare
    PROVE  Budgeted(t, b) /\ Spare(b) <= TxGas
<1>1. PICK given \in [1 .. n -> 0 .. TxGas] : \A i \in 1 .. n :
        s[i].gas + (IF i < n THEN given[i + 1] ELSE Spare(a)) <= given[i]
  BY Zenon DEF Budgeted
<1>2. \A i \in 1 .. n : s[i].gas \in Nat /\ given[i] \in 0 .. TxGas
  <2> TAKE i \in 1 .. n
  <2>1. s[i] \in Frames
    BY ElementOf
  <2>2. s[i].gas \in Nat
    BY <2>1 DEF Frames
  <2> QED BY <2>2
<1>3. n \in 1 .. n /\ TxGas \in Nat
  BY CostsAssumption
<1>4. extra <= given[n]
  <2>1. s[n].gas + spare <= given[n]
    BY <1>1, <1>3
  <2> QED BY <1>2, <1>3, <2>1
<1> DEFINE m == n - 1
           less == [i \in 1 .. m |-> given[i]]
<1>5. m \in Nat /\ \A i \in 1 .. m : i \in 1 .. n /\ i < n
  OBVIOUS
<1>6. less \in [1 .. m -> 0 .. TxGas] /\ \A i \in 1 .. m : less[i] = given[i]
  BY <1>2, <1>5
<1>7. ASSUME NEW i \in 1 .. m
      PROVE  t[i].gas + (IF i < m THEN less[i + 1] ELSE extra) <= less[i]
  <2>1. s[i].gas + given[i + 1] <= given[i] /\ t[i] = s[i] /\ s[i].gas \in Nat
    BY <1>1, <1>2, <1>5
  <2>2. CASE i < m
    <3>1. i + 1 \in 1 .. m
      BY <1>5, <2>2
    <3> QED BY <1>6, <2>1, <2>2, <3>1
  <2>3. CASE ~(i < m)
    <3>1. i + 1 = n
      BY <2>3
    <3>2. s[i].gas + extra <= given[i]
      <4>1. given[n] \in Nat /\ given[i] \in Nat /\ s[i].gas + given[n] <= given[i]
        BY <1>2, <1>3, <1>5, <2>1, <3>1
      <4> HIDE DEF less
      <4> QED BY <1>4, <2>1, <4>1
    <3> QED BY <1>6, <2>1, <2>3, <3>2
  <2> QED BY <2>2, <2>3
<1>8. extra <= TxGas
  BY <1>2, <1>3, <1>4
<1> HIDE DEF less
<1>9. less \in [1 .. Len(t) -> 0 .. TxGas]
  BY <1>6
<1>10. \A i \in 1 .. Len(t) :
          t[i].gas + (IF i < Len(t) THEN less[i + 1] ELSE Spare(b)) <= less[i]
  BY <1>7
<1>11. Budgeted(t, b)
  BY <1>9, <1>10, Zenon DEF Budgeted
<1> QED BY <1>8, <1>11

\* It gives some of what it has to a call.
LEMMA BudgetPushed ==
    ASSUME NEW s \in Seq(Frames), NEW n \in Nat \ {0}, n = Len(s), Budgeted(s, <<>>),
           NEW t, Len(t) = n + 1, \A i \in 1 .. n - 1 : t[i] = s[i],
           NEW left \in Nat, left = t[n].gas, NEW gas \in Nat, gas = t[n + 1].gas,
           left + gas <= s[n].gas
    PROVE  Budgeted(t, <<>>) /\ Spare(<<>>) <= TxGas
<1>0. Spare(<<>>) = 0
  BY DEF Spare
<1>1. PICK given \in [1 .. n -> 0 .. TxGas] : \A i \in 1 .. n :
        s[i].gas + (IF i < n THEN given[i + 1] ELSE Spare(<<>>)) <= given[i]
  BY Zenon DEF Budgeted
<1>2. \A i \in 1 .. n : s[i].gas \in Nat /\ given[i] \in 0 .. TxGas
  <2> TAKE i \in 1 .. n
  <2>1. s[i] \in Frames
    BY ElementOf
  <2>2. s[i].gas \in Nat
    BY <2>1 DEF Frames
  <2> QED BY <2>2
<1>3. n \in 1 .. n /\ TxGas \in Nat
  BY CostsAssumption
<1>4. left + gas <= given[n] /\ gas \in 0 .. TxGas
  <2>1. s[n].gas + 0 <= given[n]
    BY <1>0, <1>1, <1>3
  <2> QED BY <1>2, <1>3, <2>1
<1> DEFINE m == n + 1
           more == [i \in 1 .. m |-> IF i = m THEN gas ELSE given[i]]
<1>5. m \in Nat /\ m # n /\ \A i \in 1 .. m : i = m \/ i \in 1 .. n
  OBVIOUS
<1>6. more \in [1 .. m -> 0 .. TxGas] /\ more[m] = gas /\ \A i \in 1 .. n : more[i] = given[i]
  BY <1>2, <1>4, <1>5
<1> HIDE DEF more
<1>7. ASSUME NEW i \in 1 .. m
      PROVE  t[i].gas + (IF i < m THEN more[i + 1] ELSE 0) <= more[i]
  <2>1. CASE i = m
    BY <1>6, <2>1
  <2>2. CASE i = n
    BY <1>3, <1>4, <1>5, <1>6, <2>2
  <2>3. CASE i # m /\ i # n
    <3>1. i \in 1 .. n - 1 /\ i < n /\ i + 1 \in 1 .. n /\ i < m
      BY <1>5, <2>3
    <3>2. s[i].gas + given[i + 1] <= given[i]
      BY <1>1, <3>1
    <3>3. t[i] = s[i] /\ more[i] = given[i] /\ more[i + 1] = given[i + 1]
      BY <1>6, <3>1
    <3> QED BY <3>1, <3>2, <3>3, Zenon
  <2> QED BY <2>1, <2>2, <2>3
<1>8. Len(t) = m
  OBVIOUS
<1>9. more \in [1 .. Len(t) -> 0 .. TxGas]
  BY <1>6, <1>8
<1>10. \A i \in 1 .. Len(t) :
          t[i].gas + (IF i < Len(t) THEN more[i + 1] ELSE Spare(<<>>)) <= more[i]
  BY <1>0, <1>7, <1>8
<1>11. Budgeted(t, <<>>)
  BY <1>9, <1>10, Zenon DEF Budgeted
<1> QED BY <1>0, <1>3, <1>11

LEMMA TopBounded ==
    ASSUME IInv, Bounded, stack # <<>>, NEW n \in Nat \ {0}, n = Len(stack)
    PROVE  /\ stack \in Seq(Frames) /\ Top \in Frames /\ Top = stack[n] /\ n \in 1 .. n
           /\ Top.gas \in Nat /\ Top.made \in Nat /\ Top.target \in Targets
           /\ Top.made <= Top.target.size /\ Top.target.size \in 0 .. MaxCalls
           /\ Top.path \in Seq(1 .. MaxCalls) /\ Top.kind = Top.target.kind
           /\ Spare(answer) \in Nat
<1>1. /\ stack \in Seq(Frames) /\ Top \in Frames /\ Top = stack[n] /\ n \in 1 .. n
  BY FrontOf DEF IInv, Typed, Top
<1>2. Top.gas \in Nat /\ Top.made \in Nat /\ Top.target \in Targets
  BY <1>1 DEF Frames
<1>3. Top.made <= Top.target.size /\ Top.path \in Seq(1 .. MaxCalls)
  BY <1>1 DEF Bounded, Ranged
<1>4. Top.kind = Top.target.kind
  BY <1>1 DEF IInv, Chained
<1>5. Spare(answer) \in Nat
  <2>1. CASE answer = <<>>
    BY <2>1 DEF Spare
  <2>2. CASE answer # <<>>
    BY <2>2, Answer DEF Spare, Answers
  <2> QED BY <2>1, <2>2
<1> QED BY <1>1, <1>2, <1>3, <1>4, <1>5, SizeBounded

\* The frames below the last, which wait, are within their bounds.
LEMMA WaitingRanged ==
    ASSUME IInv, Bounded, stack # <<>>, NEW n \in Nat \ {0}, n = Len(stack),
           NEW i \in 1 .. n - 1
    PROVE  /\ stack[i].made <= stack[i].target.size /\ stack[i].made >= 1
           /\ stack[i].path \in Seq(1 .. MaxCalls)
<1>1. i \in 1 .. Len(stack) /\ i < Len(stack)
  OBVIOUS
<1> QED BY <1>1 DEF Bounded, Ranged

LEMMA GoOnBounded ==
    ASSUME IInv, Bounded, stack # <<>>, NEW gas \in Nat, NEW made \in Nat, GoOn(gas, made),
           made <= Top.target.size, gas <= Top.gas + Spare(answer), UNCHANGED now
    PROVE  Bounded'
<1>1. PICK n \in Nat \ {0} : n = Len(stack)
  BY FrontOf DEF IInv, Typed
<1>2. /\ stack \in Seq(Frames) /\ Top \in Frames /\ Top = stack[n] /\ n \in 1 .. n
      /\ Top.path \in Seq(1 .. MaxCalls) /\ Spare(answer) \in Nat
  BY <1>1, TopBounded
<1> DEFINE f == [Top EXCEPT !.gas = gas, !.made = made]
<1>3. /\ f \in Frames /\ f.target = Top.target /\ f.path = Top.path /\ f.made = made
      /\ f.gas = gas
  BY <1>2 DEF Frames
<1>4. PICK t : t = stack'
  OBVIOUS
<1>5. t = Append(Front(stack), f) /\ answer' = <<>>
  BY <1>4 DEF GoOn
<1> HIDE DEF f
<1>6. Len(t) = n /\ t[n] = f /\ \A i \in 1 .. n - 1 : t[i] = stack[i]
  BY <1>1, <1>2, <1>3, <1>5, Replaced
<1>7. Ranged(t, <<>>)
  <2>1. ASSUME NEW i \in 1 .. n
        PROVE  /\ t[i].made <= t[i].target.size
               /\ i < n \/ <<>> # <<>> => t[i].made >= 1
               /\ t[i].path \in Seq(1 .. MaxCalls)
    <3>1. CASE i = n
      BY <1>2, <1>3, <1>6, <3>1
    <3>2. CASE i # n
      <4>1. i \in 1 .. n - 1
        BY <3>2
      <4> QED BY <1>1, <1>6, <4>1, WaitingRanged
    <3> QED BY <3>1, <3>2
  <2> QED BY <1>6, <2>1 DEF Ranged
<1>8. Budgeted(t, <<>>) /\ Spare(<<>>) <= TxGas
  <2>1. PICK spare \in Nat : spare = Spare(answer)
    BY <1>2
  <2>2. PICK s \in Seq(Frames) : s = stack
    BY <1>2
  <2>3. PICK a : a = answer
    OBVIOUS
  <2>4. /\ Budgeted(s, a) /\ n = Len(s) /\ spare = Spare(a)
        /\ gas + 0 <= s[n].gas + spare /\ \A i \in 1 .. n - 1 : t[i] = s[i]
    BY <1>1, <1>2, <1>6, <2>1, <2>2, <2>3 DEF Bounded
  <2>5. gas = t[n].gas /\ Spare(<<>>) = 0 /\ 0 \in Nat
    BY <1>3, <1>6 DEF Spare
  <2> QED BY <1>6, <2>4, <2>5, BudgetChanged
<1> QED BY <1>4, <1>5, <1>7, <1>8 DEF Bounded

LEMMA EndBounded ==
    ASSUME IInv, Bounded, stack # <<>>, NEW w, NEW outcome, NEW gas \in Nat,
           EndIn(w, outcome, gas), gas <= Top.gas + Spare(answer), UNCHANGED now
    PROVE  Bounded'
<1>1. PICK n \in Nat \ {0} : n = Len(stack)
  BY FrontOf DEF IInv, Typed
<1>2. /\ stack \in Seq(Frames) /\ Top = stack[n] /\ Top.gas \in Nat /\ Spare(answer) \in Nat
  BY <1>1, TopBounded
<1>3. PICK t : t = stack'
  OBVIOUS
<1>4. Len(t) = n - 1 /\ \A i \in 1 .. n - 1 : t[i] = stack[i]
  BY <1>1, <1>2, <1>3, FrontOf DEF EndIn
<1>5. PICK b : b = answer'
  OBVIOUS
<1>6. PICK extra \in Nat : extra = Spare(b) /\ extra <= gas
  <2> DEFINE left == IF outcome \in {"succeed", "revert"} THEN gas ELSE 0
             reply == [outcome |-> outcome, gas |-> left]
  <2>1. left \in Nat /\ left <= gas
    OBVIOUS
  <2>2. b = <<reply>> /\ reply.gas = left
    BY <1>5 DEF EndIn
  <2> HIDE DEF left, reply
  <2>3. Spare(b) = left
    BY <2>2 DEF Spare
  <2> QED BY <2>1, <2>3
<1>7. Ranged(t, b)
  <2>1. \A i \in 1 .. n - 1 : /\ t[i].made <= t[i].target.size /\ t[i].made >= 1
                              /\ t[i].path \in Seq(1 .. MaxCalls)
    BY <1>1, <1>4, WaitingRanged
  <2> QED BY <1>4, <2>1 DEF Ranged
<1>8. Budgeted(t, b) /\ Spare(b) <= TxGas
  <2>1. PICK spare \in Nat : spare = Spare(answer)
    BY <1>2
  <2>2. PICK s \in Seq(Frames) : s = stack
    BY <1>2
  <2>3. PICK a : a = answer
    OBVIOUS
  <2>4. /\ Budgeted(s, a) /\ n = Len(s) /\ spare = Spare(a)
        /\ \A i \in 1 .. n - 1 : t[i] = s[i]
    BY <1>1, <1>4, <2>1, <2>2, <2>3 DEF Bounded
  <2>5. extra <= s[n].gas + spare
    <3>1. s[n].gas = Top.gas /\ spare = Spare(answer)
      BY <1>2, <2>1, <2>2
    <3> QED BY <1>2, <1>6, <3>1
  <2> QED BY <1>4, <1>6, <2>4, <2>5, BudgetEnded
<1> QED BY <1>3, <1>5, <1>7, <1>8 DEF Bounded

LEMMA CallBounded ==
    ASSUME IInv, Bounded, stack # <<>>, answer = <<>>,
           NEW w \in WorldStates, NEW left \in Int, NEW target \in Targets, NEW gas \in Nat,
           NEW caller \in Callers, left - CallCost - gas \in Nat, left <= Top.gas,
           Top.made < Top.target.size, Call(w, left, target, gas, caller), UNCHANGED now
    PROVE  Bounded'
<1>1. PICK n \in Nat \ {0} : n = Len(stack)
  BY FrontOf DEF IInv, Typed
<1>2. /\ stack \in Seq(Frames) /\ Top \in Frames /\ Top = stack[n] /\ n \in 1 .. n
      /\ Top.path \in Seq(1 .. MaxCalls) /\ Top.made \in Nat /\ Top.gas \in Nat
      /\ Top.target.size \in 0 .. MaxCalls
  BY <1>1, TopBounded
<1> DEFINE calling == [Top EXCEPT !.gas = left - CallCost - gas, !.made = @ + 1]
           called == [target |-> target, kind |-> target.kind, gas |-> gas,
                      caller |-> caller, made |-> 0,
                      path |-> Append(Top.path, calling.made), before |-> w]
           reply == [outcome |-> "revert", gas |-> gas]
           below == Append(Front(stack), calling)
<1>3. PICK g \in Nat : g = left - CallCost - gas
  OBVIOUS
<1>4. PICK made \in 1 .. MaxCalls : made = Top.made + 1 /\ made <= Top.target.size
  <2>1. MaxCalls \in Nat
    BY CostsAssumption
  <2>2. PICK a \in Nat, b \in 0 .. MaxCalls : a = Top.made /\ b = Top.target.size /\ a < b
    BY <1>2
  <2>3. a + 1 \in 1 .. MaxCalls /\ a + 1 <= b
    BY ONLY <2>1, <2>2
  <2> QED BY <2>2, <2>3
<1>5. made \in Nat /\ made >= 1 /\ g + gas <= Top.gas
  <2>1. made \in Nat /\ made >= 1
    BY CostsAssumption
  <2>2. g + gas <= Top.gas
    <3>1. CallCost \in Nat
      BY CostsAssumption
    <3> QED BY <1>2, <1>3, <3>1
  <2> QED BY <2>1, <2>2
<1>6. /\ calling \in Frames /\ calling.target = Top.target /\ calling.path = Top.path
      /\ calling.made = made /\ calling.gas = g
  <2>1. calling = [Top EXCEPT !.gas = g, !.made = made]
    BY <1>3, <1>4
  <2> HIDE DEF calling
  <2> QED BY <1>2, <1>5, <2>1 DEF Frames
<1>7. /\ called.made = 0 /\ called.target = target /\ called.gas = gas
      /\ called.path \in Seq(1 .. MaxCalls) /\ called.path \in Seq(Nat) /\ called \in Frames
  <2>1. target.kind \in {"batch", "permit", "code"}
    BY DEF Targets
  <2>2. PICK path \in Seq(1 .. MaxCalls) : path = Append(Top.path, calling.made)
    <3>1. PICK p \in Seq(1 .. MaxCalls) : p = Top.path
      BY <1>2
    <3>2. Append(p, made) \in Seq(1 .. MaxCalls)
      OBVIOUS
    <3> HIDE DEF calling
    <3> QED BY <1>6, <3>1, <3>2
  <2>3. path \in Seq(Nat)
    BY CostsAssumption
  <2>4. called = [target |-> target, kind |-> target.kind, gas |-> gas, caller |-> caller,
                  made |-> 0, path |-> path, before |-> w]
    BY <2>2
  <2> HIDE DEF called
  <2> QED BY <2>1, <2>3, <2>4 DEF Frames
<1>8. /\ \/ stack' = Append(below, called) /\ answer' = <<>>
         \/ stack' = below /\ answer' = <<reply>>
  BY DEF Call
<1>9. reply.gas = gas
  OBVIOUS
<1> HIDE DEF calling, called, reply
<1>10. /\ below \in Seq(Frames) /\ Len(below) = n /\ below[n] = calling
       /\ \A i \in 1 .. n - 1 : below[i] = stack[i]
  BY <1>1, <1>2, <1>6, Replaced
<1> HIDE DEF below
<1>11. \A i \in 1 .. n : /\ below[i].made <= below[i].target.size /\ below[i].made >= 1
                         /\ below[i].path \in Seq(1 .. MaxCalls)
  <2> TAKE i \in 1 .. n
  <2>1. CASE i = n
    BY <1>2, <1>4, <1>5, <1>6, <1>10, <2>1
  <2>2. CASE i # n
    <3>1. i \in 1 .. n - 1
      BY <2>2
    <3> QED BY <1>1, <1>10, <3>1, WaitingRanged
  <2> QED BY <2>1, <2>2
<1>12. PICK s \in Seq(Frames) : s = stack
  BY <1>2
<1>13. Budgeted(s, <<>>) /\ n = Len(s) /\ s[n].gas = Top.gas
  BY <1>1, <1>2, <1>12 DEF Bounded
<1>14. CASE stack' = below /\ answer' = <<reply>>
  <2>1. Ranged(below, <<reply>>)
    BY <1>10, <1>11 DEF Ranged
  <2>2. Spare(<<reply>>) = gas /\ Spare(<<>>) = 0 /\ 0 \in Nat
    BY <1>9 DEF Spare
  <2>3. PICK b : b = <<reply>>
    OBVIOUS
  <2>4. PICK a : a = <<>>
    OBVIOUS
  <2> PICK spare \in Nat : spare = 0
    OBVIOUS
  <2> PICK t : t = below
    OBVIOUS
  <2>5. /\ Budgeted(s, a) /\ n = Len(s) /\ spare = Spare(a) /\ gas = Spare(b)
        /\ Len(t) = n /\ g = t[n].gas /\ g + gas <= s[n].gas + spare
        /\ \A i \in 1 .. n - 1 : t[i] = s[i]
    <3>1. g = below[n].gas /\ \A i \in 1 .. n - 1 : below[i] = s[i]
      BY <1>6, <1>10, <1>12
    <3>2. g + gas <= s[n].gas + 0
      <4>1. s[n].gas + 0 = Top.gas
        BY <1>2, <1>13
      <4> QED BY <1>5, <4>1
    <3> QED BY <1>10, <1>13, <2>2, <2>3, <2>4, <3>1, <3>2
  <2>6. Budgeted(t, b) /\ Spare(b) <= TxGas
    BY <2>5, BudgetChanged
  <2> QED BY <1>14, <2>1, <2>3, <2>6 DEF Bounded
<1>15. CASE stack' = Append(below, called) /\ answer' = <<>>
  <2>1. PICK t : t = Append(below, called)
    OBVIOUS
  <2>2. /\ Len(t) = n + 1 /\ t[n + 1] = called /\ \A i \in 1 .. n : t[i] = below[i]
    BY <1>7, <1>10, <2>1, Pushed
  <2>3. Ranged(t, <<>>)
    <3>1. ASSUME NEW i \in 1 .. n + 1
          PROVE  /\ t[i].made <= t[i].target.size
                 /\ i < n + 1 \/ <<>> # <<>> => t[i].made >= 1
                 /\ t[i].path \in Seq(1 .. MaxCalls)
      <4>1. CASE i = n + 1
        <5>1. 0 <= target.size
          BY SizeBounded, CostsAssumption
        <5> QED BY <1>7, <2>2, <4>1, <5>1
      <4>2. CASE i # n + 1
        <5>1. i \in 1 .. n
          BY <4>2
        <5> QED BY <1>11, <2>2, <5>1
      <4> QED BY <4>1, <4>2
    <3> QED BY <2>2, <3>1 DEF Ranged
  <2>4. /\ g = t[n].gas /\ gas = t[n + 1].gas /\ g + gas <= s[n].gas
        /\ \A i \in 1 .. n - 1 : t[i] = s[i]
    BY <1>2, <1>5, <1>6, <1>7, <1>10, <1>12, <1>13, <2>2
  <2>5. Budgeted(t, <<>>) /\ Spare(<<>>) <= TxGas
    BY <1>13, <2>2, <2>4, BudgetPushed
  <2> QED BY <1>15, <2>1, <2>3, <2>5 DEF Bounded
<1> QED BY <1>8, <1>14, <1>15

LEMMA AnswerSpare ==
    ASSUME IInv
    PROVE  /\ Spare(answer) \in Nat
           /\ answer # <<>> => answer[1].gas = Spare(answer)
           /\ answer = <<>> => Spare(answer) = 0
<1>1. CASE answer = <<>>
  BY <1>1 DEF Spare
<1>2. CASE answer # <<>>
  BY <1>2, Answer DEF Spare, Answers
<1> QED BY <1>1, <1>2

LEMMA CodeBounded ==
    ASSUME IInv, Bounded, CodeCalls \/ CodeGets \/ CodeEnds
    PROVE  Bounded'
<1>1. stack # <<>> /\ Top.kind = "code" /\ world \in WorldStates /\ CallCost \in Nat
  BY CostsAssumption DEF IInv, Typed, CodeCalls, CodeGets, CodeEnds, Running, Answered
<1>2. PICK n \in Nat \ {0} : n = Len(stack)
  BY <1>1, FrontOf DEF IInv, Typed
<1>3. /\ Top.gas \in Nat /\ Top.made \in Nat /\ Top.target \in Targets
      /\ Top.target.kind = "code" /\ Top.made <= Top.target.size
  BY <1>1, <1>2, TopBounded
<1>4. Top.target.size = MaxCalls
  BY <1>3 DEF Targets
<1>5. /\ Spare(answer) \in Nat
      /\ answer # <<>> => answer[1].gas = Spare(answer)
      /\ answer = <<>> => Spare(answer) = 0
  BY AnswerSpare
<1>6. UNCHANGED now
  BY DEF CodeCalls, CodeGets, CodeEnds
<1>7. CASE CodeCalls
  <2>1. PICK target \in Targets, gas \in 0 .. Top.gas - CallCost :
          Call(world, Top.gas, target, gas, "contract")
    BY <1>7 DEF CodeCalls
  <2>2. answer = <<>> /\ Top.made < Top.target.size
    BY <1>4, <1>7 DEF CodeCalls, Running
  <2>3. gas \in Nat /\ Top.gas - CallCost - gas \in Nat
    BY <1>1, <1>3, <2>1
  <2>4. "contract" \in Callers /\ Top.gas \in Int /\ Top.gas <= Top.gas
    BY <1>3 DEF Callers
  <2> QED BY <1>1, <1>6, <2>1, <2>2, <2>3, <2>4, CallBounded
<1>8. CASE CodeGets
  <2>1. answer # <<>>
    BY <1>8 DEF CodeGets, Answered
  <2>2. CASE answer[1].outcome = "fatal"
    <3>1. EndIn(world, "fatal", 0)
      BY <1>8, <2>2 DEF CodeGets, End
    <3>2. 0 \in Nat /\ 0 <= Top.gas + Spare(answer)
      BY <1>3, <1>5
    <3> QED BY <1>1, <1>6, <3>1, <3>2, EndBounded
  <2>3. CASE answer[1].outcome # "fatal"
    <3>1. GoOn(Top.gas + answer[1].gas, Top.made)
      BY <1>8, <2>3 DEF CodeGets
    <3>2. PICK gas \in Nat : gas = Top.gas + answer[1].gas /\ gas <= Top.gas + Spare(answer)
      BY <1>3, <1>5, <2>1
    <3>3. GoOn(gas, Top.made)
      BY <3>1, <3>2
    <3> QED BY <1>1, <1>3, <1>6, <3>2, <3>3, GoOnBounded
  <2> QED BY <2>2, <2>3
<1>9. CASE CodeEnds
  <2>1. PICK outcome \in {"succeed", "revert", "error", "fatal"}, gas \in {0, Top.gas} :
          EndIn(world, outcome, gas)
    BY <1>9 DEF CodeEnds, End
  <2>2. gas \in Nat /\ gas <= Top.gas + Spare(answer)
    BY <1>3, <1>5
  <2> QED BY <1>1, <1>6, <2>1, <2>2, EndBounded
<1> QED BY <1>7, <1>8, <1>9

LEMMA BatchBounded ==
    ASSUME IInv, Bounded, BatchEnds \/ BatchRunsOut \/ BatchSkips \/ BatchCalls \/ BatchGets
    PROVE  Bounded'
<1>1. /\ stack # <<>> /\ Top.kind = "batch" /\ world \in WorldStates
      /\ CallCost \in Nat /\ LogCost \in Nat
  BY CostsAssumption
     DEF IInv, Typed, BatchEnds, BatchRunsOut, BatchSkips, BatchCalls, BatchGets, Running,
         Answered
<1>2. PICK n \in Nat \ {0} : n = Len(stack)
  BY <1>1, FrontOf DEF IInv, Typed
<1>3. /\ Top.gas \in Nat /\ Top.made \in Nat /\ Top.target \in Targets
      /\ Top.made <= Top.target.size /\ Top \in Frames
      /\ Top.target.size \in Int
  <2>1. /\ Top.gas \in Nat /\ Top.made \in Nat /\ Top.target \in Targets
        /\ Top.made <= Top.target.size /\ Top \in Frames
        /\ Top.target.size \in 0 .. MaxCalls
    BY <1>1, <1>2, TopBounded
  <2> QED BY <2>1
<1>4. /\ Spare(answer) \in Nat
      /\ answer # <<>> => answer[1].gas = Spare(answer)
      /\ answer = <<>> => Spare(answer) = 0
  BY AnswerSpare
<1>5. UNCHANGED now
  BY DEF BatchEnds, BatchRunsOut, BatchSkips, BatchCalls, BatchGets
<1>6. ASSUME NEW w, NEW outcome, EndIn(w, outcome, 0) PROVE Bounded'
  <2>1. 0 \in Nat /\ 0 <= Top.gas + Spare(answer)
    BY <1>3, <1>4
  <2> QED BY <1>1, <1>5, <1>6, <2>1, EndBounded
<1>7. ASSUME NEW w, NEW outcome, EndIn(w, outcome, Top.gas) PROVE Bounded'
  <2>1. Top.gas <= Top.gas + Spare(answer)
    BY <1>3, <1>4
  <2> QED BY <1>1, <1>3, <1>5, <1>7, <2>1, EndBounded
<1>8. CASE BatchEnds
  BY <1>7, <1>8 DEF BatchEnds, End
<1>9. CASE BatchRunsOut
  BY <1>7, <1>9 DEF BatchRunsOut, End
<1>10. CASE BatchSkips
  <2> DEFINE logged == Logged(Top.made + 1, FALSE)
             left == Top.gas - LogCost
  <2>1. PICK k \in Nat : k = Top.made + 1 /\ k <= Top.target.size
    BY <1>3, <1>10 DEF BatchSkips
  <2>2. left \in Nat /\ left <= Top.gas + Spare(answer)
    BY <1>1, <1>3, <1>4, <1>10 DEF BatchSkips
  <2>3. EndIn(logged, "error", 0) \/ EndIn(logged, "succeed", left) \/ GoOn(left, k)
    BY <1>10, <2>1 DEF BatchSkips
  <2> HIDE DEF logged, left
  <2>4. CASE EndIn(logged, "error", 0)
    BY <1>6, <2>4
  <2>5. CASE EndIn(logged, "succeed", left)
    BY <1>1, <1>5, <2>2, <2>5, EndBounded
  <2>6. CASE GoOn(left, k)
    BY <1>1, <1>5, <2>1, <2>2, <2>6, GoOnBounded
  <2> QED BY <2>3, <2>4, <2>5, <2>6
<1>11. CASE BatchCalls
  <2>1. PICK limit \in Limits, target \in Targets :
          /\ limit <= Room
          /\ Call(world, Top.gas, target, IF limit = 0 THEN Room ELSE limit, Top.caller)
    BY <1>11 DEF BatchCalls
  <2>2. answer = <<>> /\ Room >= 0 /\ Top.made < Top.target.size
    BY <1>11 DEF BatchCalls, Running
  <2>3. PICK gas \in Nat : gas = (IF limit = 0 THEN Room ELSE limit)
    <3>1. Room \in Nat /\ limit \in Nat
      BY <1>1, <1>3, <2>2, CostsAssumption DEF Room
    <3> QED BY <3>1
  <2>4. Top.gas - CallCost - gas \in Nat
    <3>1. gas <= Room
      BY <2>1, <2>2, <2>3
    <3> QED BY <1>1, <1>3, <2>3, <3>1 DEF Room
  <2>5. Top.gas \in Int /\ Top.gas <= Top.gas /\ Top.caller \in Callers
    BY <1>3 DEF Frames
  <2>6. Call(world, Top.gas, target, gas, Top.caller)
    BY <2>1, <2>3
  <2> QED BY <1>1, <1>5, <2>2, <2>4, <2>5, <2>6, CallBounded
<1>12. CASE BatchGets
  <2> DEFINE outcome == answer[1].outcome
             logged == Logged(Top.made, outcome = "succeed")
             left == Top.gas + answer[1].gas - LogCost
  <2>1. \/ EndIn(world, "fatal", 0)
        \/ EndIn(world, "error", 0)
        \/ left >= 0 /\ GoOn(left, Top.made)
        \/ left >= 0 /\ \E o : EndIn(logged, o, left)
    BY <1>1, <1>3, <1>4, <1>12 DEF BatchGets, End, Answered
  <2>2. answer[1].gas = Spare(answer)
    BY <1>4, <1>12 DEF BatchGets, Answered
  <2>3. left \in Int /\ left <= Top.gas + Spare(answer)
    BY <1>1, <1>3, <1>4, <2>2
  <2> HIDE DEF logged, left
  <2>4. CASE EndIn(world, "fatal", 0) \/ EndIn(world, "error", 0)
    BY <1>6, <2>4
  <2>5. CASE left >= 0 /\ GoOn(left, Top.made)
    <3>1. left \in Nat
      BY <2>3, <2>5
    <3> QED BY <1>1, <1>3, <1>5, <2>3, <2>5, <3>1, GoOnBounded
  <2>6. CASE left >= 0 /\ \E o : EndIn(logged, o, left)
    <3>1. left \in Nat
      BY <2>3, <2>6
    <3> QED BY <1>1, <1>5, <2>3, <2>6, <3>1, EndBounded
  <2> QED BY <2>1, <2>4, <2>5, <2>6
<1> QED BY <1>8, <1>9, <1>10, <1>11, <1>12

LEMMA PermitBounded ==
    ASSUME IInv, Bounded, PermitCalls \/ PermitGets
    PROVE  Bounded'
<1>1. /\ stack # <<>> /\ Top.kind = "permit" /\ world \in WorldStates
      /\ CallCost \in Nat /\ DispatchCost \in Nat /\ now \in Nat
  BY CostsAssumption DEF IInv, Typed, PermitCalls, PermitGets, Running, Answered
<1>2. PICK n \in Nat \ {0} : n = Len(stack)
  BY <1>1, FrontOf DEF IInv, Typed
<1>3. /\ Top.gas \in Nat /\ Top.made \in Nat /\ Top.target \in Targets
      /\ Top.target.kind = "permit" /\ Top = stack[n] /\ n \in 1 .. n
  BY <1>1, <1>2, TopBounded
<1>4. /\ Spare(answer) \in Nat
      /\ answer # <<>> => answer[1].gas = Spare(answer)
  BY AnswerSpare
<1>5. UNCHANGED now
  BY DEF PermitCalls, PermitGets
<1>6. CASE PermitCalls
  <2> DEFINE permit == Top.target.permit
             left == Top.gas - DispatchCost
             spent == [world EXCEPT !.nonce = @ + 1,
                                    !.spent = Append(@, [permit |-> permit, at |-> now])]
  <2>1. permit \in Permits /\ Top.target.size = 1
    BY <1>3 DEF Targets
  <2>2. permit.limit \in Nat /\ left \in Int /\ left <= Top.gas
    <3>1. permit.limit \in PermitLimits
      BY <2>1 DEF Permits
    <3>2. PermitLimits \subseteq Nat
      BY CostsAssumption
    <3>3. left \in Int /\ left <= Top.gas
      BY <1>1, <1>3
    <3> QED BY <3>1, <3>2, <3>3
  <2>3. answer = <<>>
    BY <1>6 DEF PermitCalls, Running
  <2>4. Top.made = 0
    BY <1>1, <1>2, <1>3, <2>3 DEF IInv, Chained
  <2>5. \/ EndIn(world, "error", 0)
        \/ left >= 0 /\ EndIn(world, "revert", left)
        \/ /\ left >= 0 /\ ~Refused(permit, left)
           /\ \E target \in Targets : Call(spent, left, target, permit.limit, "signer")
    BY <1>6, <2>2 DEF PermitCalls, End
  <2>6. spent \in WorldStates
    BY <2>1, SpentWorld
  <2> HIDE DEF spent, left, permit
  <2>7. CASE EndIn(world, "error", 0)
    <3>1. 0 \in Nat /\ 0 <= Top.gas + Spare(answer)
      BY <1>3, <1>4
    <3> QED BY <1>1, <1>5, <2>7, <3>1, EndBounded
  <2>8. CASE left >= 0 /\ EndIn(world, "revert", left)
    <3>1. left \in Nat /\ left <= Top.gas + Spare(answer)
      BY <1>3, <1>4, <2>2, <2>8
    <3> QED BY <1>1, <1>5, <2>8, <3>1, EndBounded
  <2>9. CASE /\ left >= 0 /\ ~Refused(permit, left)
             /\ \E target \in Targets : Call(spent, left, target, permit.limit, "signer")
    <3>1. PICK target \in Targets : Call(spent, left, target, permit.limit, "signer")
      BY <2>9, Zenon
    <3>2. left - CallCost - permit.limit \in Nat
      <4>1. ~Refused(permit, left)
        BY <2>9, Zenon
      <4> QED BY <1>1, <2>2, <4>1 DEF Refused
    <3>3. "signer" \in Callers /\ Top.made < Top.target.size
      BY <2>1, <2>4 DEF Callers
    <3> QED BY <1>1, <1>5, <2>2, <2>3, <2>6, <3>1, <3>2, <3>3, CallBounded
  <2> QED BY <2>5, <2>7, <2>8, <2>9
<1>7. CASE PermitGets
  <2>1. answer # <<>> /\ EndIn(world, answer[1].outcome, Top.gas + answer[1].gas)
    BY <1>7 DEF PermitGets, Answered, End
  <2>2. Top.gas + answer[1].gas \in Nat
        /\ Top.gas + answer[1].gas <= Top.gas + Spare(answer)
    BY <1>3, <1>4, <2>1
  <2> QED BY <1>1, <1>5, <2>1, <2>2, EndBounded
<1> QED BY <1>6, <1>7

LEMMA TransactBounded ==
    ASSUME IInv, Bounded, Transact
    PROVE  Bounded'
<1>1. PICK target \in Targets :
        stack' = <<[target |-> target, kind |-> target.kind, gas |-> TxGas,
                    caller |-> "sender", made |-> 0, path |-> <<>>, before |-> world]>>
  BY DEF Transact
<1> DEFINE f == [target |-> target, kind |-> target.kind, gas |-> TxGas,
                 caller |-> "sender", made |-> 0, path |-> <<>>, before |-> world]
<1>2. answer = <<>> /\ UNCHANGED <<answer, now>>
  BY DEF Transact
<1>3. f.made = 0 /\ f.target = target /\ f.path = <<>> /\ f.gas = TxGas
  OBVIOUS
<1>4. PICK t : t = stack'
  OBVIOUS
<1>5. t = <<f>>
  BY <1>1, <1>4
<1> HIDE DEF f
<1>6. Len(t) = 1 /\ t[1] = f
  BY <1>5
<1>7. Ranged(t, <<>>)
  <2>1. 0 <= target.size
    BY SizeBounded, CostsAssumption
  <2>2. <<>> \in Seq(1 .. MaxCalls)
    OBVIOUS
  <2>3. \A i \in 1 .. Len(t) : i = 1
    BY <1>6
  <2>4. ~(1 < Len(t))
    BY <1>6
  <2> QED BY <1>3, <1>6, <2>1, <2>2, <2>3, <2>4 DEF Ranged
<1>8. Spare(<<>>) = 0 /\ TxGas \in Nat
  BY CostsAssumption DEF Spare
<1>9. Budgeted(t, <<>>)
  <2> DEFINE given == [i \in 1 .. 1 |-> TxGas]
  <2>1. given \in [1 .. Len(t) -> 0 .. TxGas] /\ given[1] = TxGas
    BY <1>6, <1>8
  <2>2. \A i \in 1 .. Len(t) : i = 1 /\ ~(i < Len(t))
    BY <1>6
  <2> HIDE DEF given
  <2>3. \A i \in 1 .. Len(t) :
           t[i].gas + (IF i < Len(t) THEN given[i + 1] ELSE Spare(<<>>)) <= given[i]
    BY <1>3, <1>6, <1>8, <2>1, <2>2
  <2> QED BY <2>1, <2>3 DEF Budgeted
<1> QED BY <1>2, <1>4, <1>7, <1>8, <1>9 DEF Bounded

\* Of no frames at all, nothing is asked.
LEMMA EmptyBounded ==
    ASSUME NEW s, s = <<>>, NEW a, a = <<>>
    PROVE  Ranged(s, a) /\ Budgeted(s, a) /\ Spare(a) <= TxGas
<1>1. Len(s) = 0 /\ 1 .. Len(s) = {}
  OBVIOUS
<1>2. Spare(a) <= TxGas
  BY CostsAssumption DEF Spare
<1>3. [i \in {} |-> 0] \in [1 .. Len(s) -> 0 .. TxGas]
  BY <1>1
<1> QED BY <1>1, <1>2, <1>3 DEF Ranged, Budgeted

LEMMA BoundsKept ==
    ASSUME IInv, Bounded, [Next]_vars
    PROVE  Bounded'
<1>1. CASE UNCHANGED vars
  BY <1>1 DEF vars, Bounded
<1>2. CASE Forget
  <2>1. stack' = <<>> /\ answer' = <<>> /\ now' < MaxTxs
    <3>1. now \in Nat /\ MaxTxs \in Nat
      BY CostsAssumption DEF IInv, Typed
    <3> QED BY <1>2, <3>1 DEF Forget
  <2>2. PICK s, a : s = stack' /\ a = answer'
    OBVIOUS
  <2>3. Ranged(s, a) /\ Budgeted(s, a) /\ Spare(a) <= TxGas
    BY <2>1, <2>2, EmptyBounded
  <2> QED BY <2>1, <2>2, <2>3 DEF Bounded
<1> QED BY <1>1, <1>2, CodeBounded, BatchBounded, PermitBounded, TransactBounded DEF Next

LEMMA BoundsBegin ==
    ASSUME Init
    PROVE  Bounded
<1>1. stack = <<>> /\ answer = <<>> /\ now = 0
  BY DEF Init
<1>2. PICK s, a : s = stack /\ a = answer
  OBVIOUS
<1>3. Ranged(s, a) /\ Budgeted(s, a) /\ Spare(a) <= TxGas
  BY <1>1, <1>2, EmptyBounded
<1>4. now < MaxTxs
  BY <1>1, CostsAssumption
<1> QED BY <1>2, <1>3, <1>4 DEF Bounded

-----------------------------------------------------------------------------
(* What the properties need                                                *)

LEMMA ElementsIn ==
    ASSUME NEW S, NEW T, NEW s \in Seq(S), \A i \in 1 .. Len(s) : s[i] \in T
    PROVE  s \in Seq(T)
OBVIOUS

LEMMA SameElements ==
    ASSUME NEW S, NEW p \in Seq(S), NEW q \in Seq(S), Len(p) = Len(q),
           \A k \in 1 .. Len(p) : p[k] = q[k]
    PROVE  p = q
OBVIOUS

\* What TypeOK says of a world follows from what is accounted for in it.
LEMMA WorldWithinBounds ==
    ASSUME NEW w \in WorldStates, Paths(w) \subseteq Seq(1 .. MaxCalls),
           NEW underWay, NEW t \in Nat, t < MaxTxs, Accounted(w, underWay, t)
    PROVE  w \in Worlds
<1>1. w.kept \in SUBSET [path : Seq(1 .. MaxCalls), target : Targets,
                         caller : {"sender", "signer", "contract"}]
  <2> SUFFICES ASSUME NEW c \in w.kept
               PROVE  c \in [path : Seq(1 .. MaxCalls), target : Targets,
                             caller : {"sender", "signer", "contract"}]
    OBVIOUS
  <2>1. c.path \in Seq(1 .. MaxCalls)
    BY DEF Paths
  <2>2. c \in Kept
    BY DEF WorldStates
  <2> QED BY <2>1, <2>2 DEF Kept, Callers
<1>2. w.logs \in SUBSET [path : Seq(1 .. MaxCalls), ok : BOOLEAN]
  <2> SUFFICES ASSUME NEW log \in w.logs
               PROVE  log \in [path : Seq(1 .. MaxCalls), ok : BOOLEAN]
    OBVIOUS
  <2>1. log.path \in Seq(1 .. MaxCalls)
    BY DEF Paths
  <2>2. log \in [path : Seq(Nat), ok : BOOLEAN]
    BY DEF WorldStates
  <2> QED BY <2>1, <2>2
<1>3. PICK n \in Nat : n = Len(w.spent)
  BY DEF WorldStates
<1>4. w.nonce = n /\ DOMAIN w.spent = 1 .. n /\ w.spent \in Seq([permit : Permits, at : Nat])
  BY <1>3 DEF WorldStates, Accounted, InOrder
<1>5. \A m \in 1 .. n : /\ w.spent[m].permit \in Permits /\ w.spent[m].at \in Nat
                        /\ w.spent[m].permit.nonce = m - 1 /\ w.spent[m].at <= t
                        /\ w.spent[m] \in [permit : Permits, at : Nat]
  <2> TAKE m \in 1 .. n
  <2>1. w.spent[m] \in [permit : Permits, at : Nat]
    BY <1>3, <1>4, ElementOf
  <2>2. w.spent[m].permit.nonce = m - 1 /\ w.spent[m].at <= t
    BY <1>3, <1>4 DEF Accounted, InOrder
  <2> QED BY <2>1, <2>2
<1>6. w.nonce \in 0 .. MaxNonce
  <2>1. MaxNonce \in Nat
    BY CostsAssumption
  <2>2. CASE n = 0
    BY <1>4, <2>1, <2>2
  <2>3. CASE n # 0
    <3>1. n \in 1 .. n
      BY <2>3
    <3>2. w.spent[n].permit.nonce = n - 1 /\ w.spent[n].permit \in Permits
      BY <1>5, <3>1
    <3>3. n - 1 \in 0 .. MaxNonce - 1
      BY <3>2 DEF Permits
    <3> QED BY <1>4, <2>1, <3>3
  <2> QED BY <2>2, <2>3
<1>7. w.spent \in Seq([permit : Permits, at : 0 .. MaxTxs - 1])
  <2>1. MaxTxs \in Nat
    BY CostsAssumption
  <2>2. \A m \in 1 .. n : w.spent[m] \in [permit : Permits, at : 0 .. MaxTxs - 1]
    <3> TAKE m \in 1 .. n
    <3>1. w.spent[m].at \in 0 .. MaxTxs - 1
      BY <1>5, <2>1
    <3>2. w.spent[m] \in [permit : Permits, at : Nat]
      BY <1>5
    <3> QED BY <3>1, <3>2
  <2>3. PICK S, T : S = [permit : Permits, at : Nat] /\ T = [permit : Permits, at : 0 .. MaxTxs - 1]
    OBVIOUS
  <2>4. w.spent \in Seq(S) /\ \A m \in 1 .. Len(w.spent) : w.spent[m] \in T
    BY <1>3, <1>4, <2>2, <2>3
  <2>5. w.spent \in Seq(T)
    BY <2>4, ElementsIn
  <2> QED BY <2>3, <2>5
<1> QED BY <1>1, <1>2, <1>6, <1>7 DEF Worlds, WorldStates

LEMMA TypeFollows ==
    ASSUME IInv, WInv, Bounded
    PROVE  TypeOK
<1>1. PICK n \in Nat : n = Len(stack)
  BY DEF IInv, Typed
<1>2. /\ stack \in Seq(Frames) /\ DOMAIN stack = 1 .. n /\ world \in WorldStates
      /\ now \in Nat /\ now < MaxTxs
  BY <1>1 DEF IInv, Typed, Bounded
<1>3. now \in 0 .. MaxTxs - 1
  BY <1>2, CostsAssumption
<1>4. world \in Worlds
  <2>1. Paths(world) \subseteq Seq(1 .. MaxCalls)
    BY DEF WInv, WorldsSound, SoundAfter, Sound
  <2>2. Accounted(world, PermitsUpTo(n), now)
    BY <1>1, WorldAccounted
  <2>3. PICK w : w = world
    OBVIOUS
  <2>4. PICK t : t = now
    OBVIOUS
  <2>5. /\ w \in WorldStates /\ Paths(w) \subseteq Seq(1 .. MaxCalls) /\ t \in Nat /\ t < MaxTxs
        /\ Accounted(w, PermitsUpTo(n), t)
    BY <1>2, <2>1, <2>2, <2>3, <2>4
  <2>6. w \in Worlds
    BY <2>5, WorldWithinBounds
  <2> QED BY <2>3, <2>6
<1>5. Spare(answer) \in 0 .. TxGas /\ TxGas \in Nat
  BY AnswerSpare, CostsAssumption DEF Bounded
<1>6. ASSUME NEW i \in 1 .. n
      PROVE  /\ stack[i].target \in Targets /\ stack[i].gas \in 0 .. TxGas
             /\ stack[i].made \in 0 .. MaxCalls /\ stack[i].before \in Worlds
  <2>1. stack[i] \in Frames
    BY <1>1, <1>2, ElementOf
  <2>2. /\ stack[i].target \in Targets /\ stack[i].gas \in Nat /\ stack[i].made \in Nat
        /\ stack[i].before \in WorldStates
    BY <2>1 DEF Frames
  <2>3. stack[i].gas \in 0 .. TxGas
    <3>1. PICK given \in [1 .. n -> 0 .. TxGas] : \A j \in 1 .. n :
            stack[j].gas + (IF j < n THEN given[j + 1] ELSE Spare(answer)) <= given[j]
      BY <1>1 DEF Bounded, Budgeted
    <3>2. given[i] \in 0 .. TxGas /\ (i < n => given[i + 1] \in 0 .. TxGas)
      BY <1>1
    <3>3. PICK more \in Nat : more = (IF i < n THEN given[i + 1] ELSE Spare(answer))
      BY <1>5, <3>2
    <3>4. stack[i].gas + more <= given[i]
      BY <3>1, <3>3
    <3> QED BY <1>5, <2>2, <3>2, <3>4
  <2>4. stack[i].made \in 0 .. MaxCalls
    <3>1. stack[i].made <= stack[i].target.size
      BY <1>1 DEF Bounded, Ranged
    <3>2. stack[i].target.size \in 0 .. MaxCalls
      BY <2>2, SizeBounded
    <3> QED BY <2>2, <3>1, <3>2, CostsAssumption
  <2>5. stack[i].before \in Worlds
    <3>1. PICK k \in 0 .. n - 1 : k + 1 = i
      BY <1>1
    <3>2. k \in 0 .. n /\ k # n
      BY <1>1
    <3>3. Paths(stack[i].before) \subseteq Seq(1 .. MaxCalls)
      BY <1>1, <3>1 DEF WInv, WorldsSound, SoundBefore, Sound
    <3>4. WorldAt(k) = stack[i].before
      BY <1>1, <3>1, <3>2 DEF WorldAt
    <3>5. Accounted(WorldAt(k), PermitsUpTo(k), now)
      BY <1>1, <3>2 DEF IInv, WorldsAccounted
    <3>6. PICK w : w = stack[i].before
      OBVIOUS
    <3>7. PICK t : t = now
      OBVIOUS
    <3>8. /\ w \in WorldStates /\ Paths(w) \subseteq Seq(1 .. MaxCalls) /\ t \in Nat
          /\ t < MaxTxs /\ Accounted(w, PermitsUpTo(k), t)
      BY <1>2, <2>2, <3>3, <3>4, <3>5, <3>6, <3>7
    <3>9. w \in Worlds
      BY <3>8, WorldWithinBounds
    <3> QED BY <3>6, <3>9
  <2> QED BY <2>2, <2>3, <2>4, <2>5
<1>7. /\ answer \in Seq([outcome : {"succeed", "revert", "error", "fatal"}, gas : 0 .. TxGas])
      /\ Len(answer) <= 1
  <2>1. CASE answer = <<>>
    BY <2>1
  <2>2. CASE answer # <<>>
    <3>1. PICK a \in Answers : answer = <<a>>
      BY <2>2 DEF IInv, Typed
    <3>2. a.gas \in 0 .. TxGas
      BY <1>5, <2>2, <3>1, AnswerSpare
    <3>3. a \in [outcome : {"succeed", "revert", "error", "fatal"}, gas : 0 .. TxGas]
      BY <3>2 DEF Answers
    <3> QED BY <3>1, <3>3
  <2> QED BY <2>1, <2>2
<1> QED BY <1>2, <1>3, <1>4, <1>6, <1>7 DEF TypeOK

\* Nothing is below a frame that has made no call.
LEMMA NothingUnderTop ==
    ASSUME NEW s \in Seq(Frames), Trail(s), NEW n \in Nat \ {0}, n = Len(s), s[n].made = 0,
           NEW w \in WorldStates, NEW d, SoundAfter(s, w, n, d),
           NEW c \in w.kept \cup Begun(s, n)
    PROVE  ~IsStrictPrefix(s[n].path, c.path)
<1>1. n \in 1 .. Len(s) /\ n - 1 \in Nat /\ n - 1 \in 0 .. Len(s) /\ 0 \in Nat
  OBVIOUS
<1>2. /\ s[n].path \in Seq(Nat) /\ Len(s[n].path) = n - 1 /\ Along(s, s[n].path, n - 1)
  BY <1>1, WayToCall
<1> SUFFICES ASSUME IsStrictPrefix(s[n].path, c.path) PROVE FALSE
  OBVIOUS
<1>3. IsPrefix(s[n].path, c.path) /\ s[n].path # c.path
  BY DEF IsStrictPrefix
<1>4. CASE c \in w.kept
  <2>1. PICK q \in Seq(Nat) : q = c.path /\ q \in Paths(w)
    BY <1>4, PathsTyped
  <2>2. q \in Seq(1 .. MaxCalls)
    BY <2>1 DEF SoundAfter, Sound
  <2>3. Before(s, q, n) \/ Along(s, q, n)
    BY <2>1 DEF SoundAfter
  <2>4. ~(n <= Len(q) /\ q[n] < 1)
    <3>1. ASSUME n <= Len(q) PROVE q[n] \in 1 .. MaxCalls
      <4>1. n \in 1 .. Len(q)
        BY <2>1, <3>1
      <4> QED BY <2>2, <4>1, ElementOf
    <3> QED BY <3>1, CostsAssumption
  <2>5. CASE Along(s, q, n)
    <3>1. n <= Len(q) /\ q[n] = 0
      BY <1>1, <2>5 DEF Along
    <3> QED BY <2>4, <3>1
  <2>6. CASE Before(s, q, n)
    <3>1. PICK m \in 1 .. n : m <= Len(q) /\ q[m] < s[m].made /\ \A j \in 1 .. m - 1 : q[j] = s[j].made
      BY <2>6 DEF Before
    <3>2. m # n
      <4>1. ASSUME m = n PROVE FALSE
        <5>1. n <= Len(q) /\ q[n] < 0
          BY <3>1, <4>1
        <5>2. q[n] \in Nat
          BY <2>1, <5>1, <1>1, ElementOf
        <5> QED BY <5>1, <5>2
      <4> QED BY <4>1
    <3>3. m \in 1 .. n - 1
      BY <3>2
    <3>4. Before(s, q, n - 1)
      BY <3>1, <3>3 DEF Before
    <3>5. PICK p \in Seq(Nat) : p = s[n].path
      BY <1>2
    <3>6. PICK i \in 0 .. Len(s) : i = n - 1
      BY <1>1
    <3>7. Before(s, q, i) /\ Along(s, p, i)
      BY <1>2, <3>4, <3>5, <3>6
    <3>8. ~IsPrefix(p, q)
      BY <3>7, OffTheWay
    <3> QED BY <1>3, <2>1, <3>5, <3>8
  <2> QED BY <2>3, <2>5, <2>6
<1>5. CASE c \in Begun(s, n)
  <2>1. PICK j \in 1 .. n : c.path = s[j].path
    BY <1>5 DEF Begun, CallOf
  <2>2. j \in 1 .. Len(s)
    OBVIOUS
  <2>3. c.path \in Seq(Nat) /\ Len(c.path) = j - 1
    BY <1>1, <2>1, <2>2, WayToCall
  <2>4. PICK p \in Seq(Nat), q \in Seq(Nat) : p = s[n].path /\ q = c.path
    BY <1>2, <2>3
  <2>5. Len(p) <= Len(q) /\ \A k \in 1 .. Len(p) : p[k] = q[k]
    BY <1>3, <2>4, PrefixIs
  <2>6. Len(p) = n - 1 /\ Len(q) = j - 1
    BY <1>2, <2>3, <2>4
  <2>7. Len(p) = Len(q)
    BY <2>5, <2>6
  <2>8. p = q
    BY <2>5, <2>7, SameElements
  <2> QED BY <1>3, <2>4, <2>8
<1> QED BY <1>4, <1>5

-----------------------------------------------------------------------------
(* The theorems                                                            *)

\* However frames end and whatever they restore: the invariant the theorems below rest on.
THEOREM Invariance == Spec => []IInv
<1>1. Init => IInv
  <2> SUFFICES ASSUME Init PROVE IInv
    OBVIOUS
  <2>1. /\ stack = <<>> /\ answer = <<>> /\ now = 0
        /\ world = [kept |-> {}, logs |-> {}, nonce |-> 0, spent |-> <<>>]
    BY DEF Init
  <2>2. world \in WorldStates
    BY <2>1 DEF WorldStates
  <2>3. Accounted(world, {}, now)
    BY <2>1 DEF Accounted, InOrder, SpentAt, KeptPermits
  <2>4. WorldAt(0) = world /\ PermitsUpTo(0) = {}
    BY <2>1 DEF WorldAt, PermitsUpTo
  <2>5. WorldsAccounted
    <3>1. \A i \in 0 .. Len(stack) : i = 0
      BY <2>1
    <3>2. \A i \in 0 .. Len(stack) : Accounted(WorldAt(i), PermitsUpTo(i), now)
      BY <2>3, <2>4, <3>1
    <3> QED BY <3>2 DEF WorldsAccounted
  <2> QED BY <2>1, <2>2, <2>5 DEF IInv, Typed, LogsReserved, Chained, AnswerHonest
<1>2. ASSUME IInv, [Next]_vars PROVE IInv'
  <2>1. CASE UNCHANGED vars
    BY <1>2, <2>1 DEF IInv, vars, Typed, LogsReserved, Chained, WorldsAccounted, WorldAt,
       PermitsUpTo, AnswerHonest, Top
  <2> QED BY <1>2, <2>1, CodeKeeps, BatchKeeps, PermitKeeps, TransactKeeps, ForgetKeeps
          DEF Next
<1> QED BY <1>1, <1>2, PTL DEF Spec

\* For any costs, limits and lists, and whatever a call burned: the gas put aside before a
\* call of a batch pays for the log of its outcome ("this should not OOG").
THEOREM ReserveAlwaysSuffices == Spec => []ReserveSuffices
<1>1. IInv => ReserveSuffices
  <2> SUFFICES ASSUME IInv, Answered("batch")
               PROVE  Top.gas + answer[1].gas >= LogCost
    BY DEF ReserveSuffices
  <2>1. stack # <<>> /\ answer # <<>> /\ Top.kind = "batch" /\ stack \in Seq(Frames)
    BY DEF Answered, IInv, Typed
  <2>2. Len(stack) \in 1 .. Len(stack) /\ Top.gas \in Nat
    BY <2>1, FrontOf DEF Frames
  <2>3. Top.gas >= LogCost
    BY <2>1, <2>2 DEF IInv, LogsReserved, Top
  <2>4. answer[1].gas \in Nat
    BY <2>1, Answer DEF Answers
  <2> QED BY <2>2, <2>3, <2>4, CostsAssumption
<1> QED BY <1>1, Invariance, PTL

\* For any nesting of dispatches, batches and contracts, and whatever reverts: permits are
\* spent in order, each once and in time, and exactly those whose call is under way or kept.
THEOREM PermitsAreSpentOnce == Spec => []PermitsSpentOnce
<1>1. ASSUME IInv PROVE PermitsSpentOnce
  <2>1. Accounted(world, PermitsUpTo(Len(stack)), now)
    BY <1>1, WorldAccounted
  <2>2. stack \in Seq(Frames) /\ DOMAIN stack = 1 .. Len(stack)
    BY <1>1 DEF IInv, Typed
  <2>3. {d.target.permit : d \in Dispatches}
          = KeptPermits(world) \cup PermitsUpTo(Len(stack))
    <3> DEFINE call(i) == [path |-> stack[i].path, target |-> stack[i].target,
                           caller |-> stack[i].caller]
    <3>1. ASSUME NEW d \in Dispatches
          PROVE  d.target.permit \in KeptPermits(world) \cup PermitsUpTo(Len(stack))
      <4>1. CASE d \in world.kept
        BY <4>1 DEF Dispatches, KeptPermits
      <4>2. CASE d \notin world.kept
        <5>1. PICK i \in DOMAIN stack :
                 d = call(i) /\ (stack[i].kind # "permit" \/ stack[i].made = 1)
          BY <4>2 DEF Dispatches, Calls
        <5>2. stack[i].kind = "permit" /\ d.target = stack[i].target
          BY <1>1, <2>2, <5>1 DEF Dispatches, IInv, Chained
        <5> QED BY <2>2, <5>1, <5>2 DEF PermitsUpTo
      <4> QED BY <4>1, <4>2
    <3>2. ASSUME NEW p \in KeptPermits(world)
          PROVE  p \in {d.target.permit : d \in Dispatches}
      BY DEF KeptPermits, Dispatches, Calls
    <3>3. ASSUME NEW p \in PermitsUpTo(Len(stack))
          PROVE  p \in {d.target.permit : d \in Dispatches}
      <4>1. PICK j \in 1 .. Len(stack) :
               stack[j].kind = "permit" /\ stack[j].made = 1 /\ p = stack[j].target.permit
        BY DEF PermitsUpTo
      <4>2. call(j) \in Calls /\ call(j).target = stack[j].target
        BY <2>2, <4>1 DEF Calls
      <4>3. call(j) \in Dispatches
        BY <1>1, <4>1, <4>2 DEF Dispatches, IInv, Chained
      <4> QED BY <4>1, <4>2, <4>3
    <3> QED BY <3>1, <3>2, <3>3
  <2>4. \A d \in Dispatches \cap world.kept : Keeps(Append(d.path, 1))
    BY <2>1 DEF Accounted, Dispatches, Keeps
  <2> QED BY <2>1, <2>3, <2>4 DEF PermitsSpentOnce, Accounted
<1> QED BY <1>1, Invariance, PTL

\* However calls are nested and whatever they leave or give back: in the world of every frame
\* the logs are true, promises kept and names lent.
THEOREM WordsInvariance == Spec => [](IInv /\ WInv /\ Bounded)
<1> DEFINE All == IInv /\ WInv /\ Bounded
<1>1. Init => WInv /\ Bounded
  BY WordsBegin, BoundsBegin
<1>2. IInv /\ WInv /\ Bounded /\ [Next]_vars => WInv' /\ Bounded'
  <2> SUFFICES ASSUME IInv, WInv, Bounded, [Next]_vars PROVE WInv' /\ Bounded'
    OBVIOUS
  <2>1. Ranged(stack, answer)
    BY DEF Bounded
  <2> QED BY <2>1, WordsKept, BoundsKept
<1> QED BY <1>1, <1>2, Invariance, PTL DEF Spec

\* For any costs, limits, lists and nesting, and whatever reverts: what is logged as succeeded
\* is kept, and of what is logged as failed nothing is.
THEOREM LogsAreTrue == Spec => []LogsTellTheTruth
<1>1. WInv => LogsTellTheTruth
  <2> SUFFICES ASSUME WInv PROVE LogsTellTheTruth
    OBVIOUS
  <2>1. TruthIn(world)
    BY DEF WInv, WorldsSound, SoundAfter, Sound
  <2> QED BY <2>1 DEF TruthIn, LogsTellTheTruth, Keeps, KeepsAnyBelow, KeepsIn, KeepsBelowIn
<1> QED BY <1>1, WordsInvariance, PTL

\* For any costs, limits, lists and nesting: frames and worlds are well formed, gas never
\* exceeds what the transaction came with, and every batch that has effects keeps what its
\* mode promises.
THEOREM BatchesKeepTheirWords == Spec => []BatchesKeepTheirWord
<1>1. IInv /\ WInv /\ Bounded => TypeOK
  BY TypeFollows
<1>2. WInv => BatchesKeepPromises
  <2> SUFFICES ASSUME WInv, NEW b \in world.kept, b.target.kind = "batch"
               PROVE  LET call(i) == Append(b.path, i)
                          size    == b.target.size
                      IN  /\ \A i \in 1 .. size : ~(LogOf(call(i), TRUE) /\ LogOf(call(i), FALSE))
                          /\ \A i \in 2 .. size : Attempted(call(i)) => Attempted(call(i - 1))
                          /\ b.target.mode = "all" => \A i \in 1 .. size : Keeps(call(i))
                          /\ b.target.mode = "untilFailure" =>
                                \A i \in 2 .. size : Attempted(call(i)) => Keeps(call(i - 1))
    BY DEF BatchesKeepPromises
  <2>1. PromisesIn(world)
    BY DEF WInv, WorldsSound, SoundAfter, Sound
  <2>2. PromiseKept(world, b)
    BY <2>1 DEF PromisesIn
  <2>3. \A p, ok : LoggedIn(world, p, ok) <=> LogOf(p, ok)
    BY DEF LoggedIn, LogOf
  <2>4. \A p : AttemptedIn(world, p) <=> Attempted(p)
    BY <2>3 DEF AttemptedIn, Attempted
  <2>5. \A p : KeepsIn(world, p) <=> Keeps(p)
    BY DEF KeepsIn, Keeps
  <2> QED BY <2>2, <2>3, <2>4, <2>5 DEF PromiseKept
<1> QED BY <1>1, <1>2, WordsInvariance, PTL DEF BatchesKeepTheirWord

\* For any nesting of dispatches, batches and contracts: nobody's name is used but by leave,
\* whether of what runs or of what is kept of it.
THEOREM NamesAreOnlyLent == Spec => []NamesAreLent
<1>1. IInv /\ WInv /\ Bounded => NamesAreLent
  <2> SUFFICES ASSUME IInv, WInv, Bounded, NEW c \in Calls, c.caller # "contract"
               PROVE  \/ c.caller = "sender" /\ \A b \in Calls :
                            IsStrictPrefix(b.path, c.path) => b.target.kind = "batch"
                      \/ c.caller = "signer" /\ \E d \in Dispatches :
                            /\ IsStrictPrefix(d.path, c.path)
                            /\ \A b \in Calls :
                                  IsStrictPrefix(d.path, b.path) /\ IsStrictPrefix(b.path, c.path)
                                     => b.target.kind = "batch"
    BY DEF NamesAreLent
  <2>1. PICK n \in Nat : n = Len(stack)
    BY DEF IInv, Typed
  <2>2. /\ stack \in Seq(Frames) /\ DOMAIN stack = 1 .. n /\ world \in WorldStates /\ Trail(stack)
    BY <2>1 DEF IInv, Typed, WInv
  <2> DEFINE C == world.kept \cup Begun(stack, n)
             begun(j) == [path |-> stack[j].path, target |-> stack[j].target,
                          caller |-> stack[j].caller]
  <2>3. Calls \subseteq C
    BY <2>1, <2>2 DEF Calls, Begun, CallOf
  <2>4. LentFor(C, c)
    <3>1. NamesLentIn(stack, world, n)
      BY <2>1 DEF WInv, WorldsSound, SoundAfter, Sound
    <3> QED BY <2>3, <3>1 DEF NamesLentIn
  <2>5. ASSUME NEW d \in C, d.target.kind = "permit", IsStrictPrefix(d.path, c.path)
        PROVE  d \in Dispatches
    <3>1. CASE d \in world.kept
      BY <2>5, <3>1 DEF Dispatches, Calls
    <3>2. CASE d \in Begun(stack, n)
      <4>1. PICK j \in 1 .. n : d = begun(j)
        BY <3>2 DEF Begun, CallOf
      <4>2. d.path = stack[j].path /\ d.target = stack[j].target
        BY <4>1
      <4>3. stack[j].kind = "permit"
        BY <2>1, <2>5, <4>2 DEF IInv, Chained
      <4>4. CASE stack[j].made = 1
        <5>1. d \in Calls
          BY <2>2, <4>1, <4>4 DEF Calls
        <5> QED BY <2>5, <5>1 DEF Dispatches
      <4>5. CASE stack[j].made # 1
        <5>1. j = n /\ stack[n].made = 0 /\ n \in Nat \ {0}
          BY <2>1, <4>3, <4>5 DEF IInv, Chained
        <5>2. PICK s \in Seq(Frames) : s = stack
          BY <2>2
        <5>3. PICK w \in WorldStates : w = world
          BY <2>2
        <5>4. PICK e : e = (IF answer = <<>> THEN Top.made ELSE Top.made - 1)
          OBVIOUS
        <5>5. /\ Trail(s) /\ n = Len(s) /\ s[n].made = 0 /\ SoundAfter(s, w, n, e)
              /\ c \in w.kept \cup Begun(s, n)
          BY <2>1, <2>2, <2>3, <5>1, <5>2, <5>3, <5>4 DEF WInv, WorldsSound
        <5>6. ~IsStrictPrefix(s[n].path, c.path)
          BY <5>1, <5>5, NothingUnderTop
        <5> QED BY <2>5, <4>2, <5>1, <5>2, <5>6
      <4> QED BY <4>4, <4>5
    <3> QED BY <3>1, <3>2
  <2> HIDE DEF C
  <2>6. CASE c.caller = "sender"
    <3>1. \A b \in C : IsStrictPrefix(b.path, c.path) => b.target.kind = "batch"
      BY <2>4, <2>6 DEF LentFor
    <3> QED BY <2>3, <2>6, <3>1
  <2>7. CASE c.caller # "sender"
    <3>1. c.caller = "signer"
      BY <2>4, <2>7 DEF LentFor
    <3>2. PICK d \in C : /\ d.target.kind = "permit" /\ IsStrictPrefix(d.path, c.path)
                         /\ \A b \in C : IsStrictPrefix(d.path, b.path) /\ IsStrictPrefix(b.path, c.path)
                               => b.target.kind = "batch"
      BY <2>4, <2>7 DEF LentFor
    <3>3. d \in Dispatches
      BY <2>5, <3>2
    <3> QED BY <2>3, <3>1, <3>2, <3>3
  <2> QED BY <2>6, <2>7
<1> QED BY <1>1, WordsInvariance, PTL
=============================================================================
