------------------------------ MODULE Subcalls ------------------------------
(***************************************************************************)
(* The precompiles that make calls of their own: batch, which makes a list *)
(* of calls on behalf of its caller, and call-permit, which makes the call *)
(* that somebody signed a permit for, once.                                *)
(*                                                                         *)
(* The EVM is external: a stack of frames, each with its gas and with the  *)
(* world as it was when the frame began, which a frame that does not       *)
(* succeed restores.  So are contracts ("code"), which call and end as     *)
(* they like.  A batch may be nested in two others but is not to be called *)
(* by contracts; call-permit may be, but not below itself.                 *)
(*                                                                         *)
(* A call is named by its path: <<2, 1>> is the first call of the second   *)
(* call of the transaction.  `kept' and `spent' of the world are history.  *)
(***************************************************************************)
EXTENDS Integers, Sequences, SequencesExt, FiniteSets

CONSTANTS
    TxGas, LogCost, CallCost, DispatchCost,
    Limits,        \* the gas limits a call of a batch is given; 0 is none
    PermitLimits,  \* those that permits are signed for
    MaxCalls,      \* bound: the calls one frame makes
    MaxTxs,        \* bound: the transactions
    MaxNonce       \* bound: permits are signed for the nonces below it

ASSUME CostsAssumption ==
    /\ {TxGas, LogCost, CallCost, DispatchCost, MaxCalls, MaxTxs, MaxNonce} \subseteq Nat
    /\ {MaxCalls, MaxTxs} \subseteq Nat \ {0}
    /\ Limits \subseteq Nat /\ PermitLimits \subseteq Nat

Modes == {"some", "untilFailure", "all"}
Permits == [nonce : 0 .. MaxNonce - 1, limit : PermitLimits, deadline : 0 .. MaxTxs - 1]

VARIABLES
    stack,    \* the frames of calls, the innermost last
    answer,   \* what the last call returned, while its caller has not seen it
    world,    \* the state that reverts: logs, call-permit's nonce of the signer, history
    now       \* the block timestamp; it also counts transactions

vars == <<stack, answer, world, now>>

Top == stack[Len(stack)]
Running(kind) == stack # <<>> /\ answer = <<>> /\ Top.kind = kind
Answered(kind) == stack # <<>> /\ answer # <<>> /\ Top.kind = kind

\* A call to something: a batch has a mode and a size, a dispatch the permit it is given.
NoPermit == [nonce |-> -1, limit |-> 0, deadline |-> 0]
Targets ==
    [kind : {"batch"}, mode : Modes, size : 0 .. MaxCalls, permit : {NoPermit}]
        \cup [kind : {"permit"}, mode : {"all"}, size : {1}, permit : Permits]
        \cup [kind : {"code"}, mode : {"some"}, size : {MaxCalls}, permit : {NoPermit}]

MaxNesting == [batch |-> 2, permit |-> 0]

Admitted(target, caller) ==
    \/ target.kind = "code"
    \/ /\ Cardinality({i \in DOMAIN stack : stack[i].kind = target.kind})
            <= MaxNesting[target.kind]
       /\ target.kind = "batch" => caller # "contract"

-----------------------------------------------------------------------------
(* The EVM                                                                 *)

\* The top frame, left with `left' in the world w, calls with `gas' of its own, as
\* `caller'.  A precompile that does not admit the call reverts.
Call(w, left, target, gas, caller) ==
    LET calling == [Top EXCEPT !.gas = left - CallCost - gas, !.made = @ + 1]
        below   == Append(Front(stack), calling)
    IN  /\ world' = w
        /\ IF Admitted(target, caller)
             THEN /\ stack' = Append(below, [target |-> target, kind |-> target.kind,
                                             gas |-> gas, caller |-> caller, made |-> 0,
                                             path |-> Append(Top.path, calling.made),
                                             before |-> w])
                  /\ answer' = <<>>
             ELSE /\ stack' = below
                  /\ answer' = <<[outcome |-> "revert", gas |-> gas]>>

\* The top frame ends in the world w: an error leaves no gas, and only success leaves a trace.
EndIn(w, outcome, gas) ==
    /\ stack' = Front(stack)
    /\ answer' = <<[outcome |-> outcome,
                    gas |-> IF outcome \in {"succeed", "revert"} THEN gas ELSE 0]>>
    /\ world' = IF outcome = "succeed"
                  THEN [w EXCEPT !.kept = @ \cup
                           {[path |-> Top.path, target |-> Top.target, caller |-> Top.caller]}]
                  ELSE Top.before

End(outcome, gas) == EndIn(world, outcome, gas)

\* The top frame goes on with `gas'.
GoOn(gas, made) ==
    /\ stack' = Append(Front(stack), [Top EXCEPT !.gas = gas, !.made = made])
    /\ answer' = <<>>

\* A contract is at liberty to do anything its gas allows.
CodeCalls ==
    /\ Running("code")
    /\ Top.made < MaxCalls
    /\ \E target \in Targets, gas \in 0 .. Top.gas - CallCost :
          Call(world, Top.gas, target, gas, "contract")
    /\ UNCHANGED now

CodeGets ==
    /\ Answered("code")
    /\ IF answer[1].outcome = "fatal"
         THEN End("fatal", 0)
         ELSE GoOn(Top.gas + answer[1].gas, Top.made) /\ UNCHANGED world
    /\ UNCHANGED now

CodeEnds ==
    /\ Running("code")
    /\ \E outcome \in {"succeed", "revert", "error", "fatal"}, gas \in {0, Top.gas} :
         End(outcome, gas)
    /\ UNCHANGED now

-----------------------------------------------------------------------------
(* batch                                                                   *)

Mode == Top.target.mode

Logged(index, ok) ==
    [world EXCEPT !.logs = @ \cup {[path |-> Append(Top.path, index), ok |-> ok]}]

BatchEnds ==
    /\ Running("batch")
    /\ Top.made = Top.target.size
    /\ End("succeed", Top.gas)
    /\ UNCHANGED now

BatchRunsOut_quietly ==
    /\ Running("batch")
    /\ Top.made < Top.target.size
    /\ Top.gas < LogCost
    /\ End("succeed", Top.gas)
    /\ UNCHANGED now

\* There is not even the gas to log a failure.
BatchRunsOut ==
    /\ Running("batch")
    /\ Top.made < Top.target.size
    /\ Top.gas < LogCost
    /\ End(IF Mode = "all" THEN "error" ELSE "succeed", Top.gas)
    /\ UNCHANGED now

Room_unreserved == Top.gas - CallCost

\* What a call may have, once the gas of its log is put aside.
Room == Top.gas - LogCost - CallCost

BatchSkips_retries ==
    /\ Running("batch")
    /\ Top.made < Top.target.size
    /\ Top.gas >= LogCost
    /\ \E limit \in Limits : Room < 0 \/ limit > Room
    /\ LET index  == Top.made + 1
           logged == Logged(index, FALSE)
           left   == Top.gas - LogCost
       IN  \/ Mode = "all" /\ EndIn(logged, "error", 0)
           \/ Mode = "untilFailure" /\ EndIn(logged, "succeed", left)
           \/ Mode = "some" /\ GoOn(left, Top.made) /\ world' = logged
    /\ UNCHANGED now

\* A call that the gas does not suffice for is one that failed.
BatchSkips ==
    /\ Running("batch")
    /\ Top.made < Top.target.size
    /\ Top.gas >= LogCost
    /\ \E limit \in Limits : Room < 0 \/ limit > Room
    /\ LET index  == Top.made + 1
           logged == Logged(index, FALSE)
           left   == Top.gas - LogCost
       IN  \/ Mode = "all" /\ EndIn(logged, "error", 0)
           \/ Mode = "untilFailure" /\ EndIn(logged, "succeed", left)
           \/ Mode = "some" /\ GoOn(left, index) /\ world' = logged
    /\ UNCHANGED now

BatchCalls_asSender ==
    /\ Running("batch")
    /\ Top.made < Top.target.size
    /\ Room >= 0
    /\ \E limit \in Limits, target \in Targets :
          /\ limit <= Room
          /\ Call(world, Top.gas, target, IF limit = 0 THEN Room ELSE limit, "sender")
    /\ UNCHANGED now

BatchCalls ==
    /\ Running("batch")
    /\ Top.made < Top.target.size
    /\ Room >= 0
    /\ \E limit \in Limits, target \in Targets :
          /\ limit <= Room
          /\ Call(world, Top.gas, target, IF limit = 0 THEN Room ELSE limit, Top.caller)
    /\ UNCHANGED now

\* The outcome is logged before the mode is asked what to do about it.
BatchGets ==
    /\ Answered("batch")
    /\ LET outcome == answer[1].outcome
           logged  == Logged(Top.made, outcome = "succeed")
           left    == Top.gas + answer[1].gas - LogCost
       IN  IF outcome = "fatal" THEN End("fatal", 0)
           ELSE IF left < 0 THEN End("error", 0)
           ELSE IF outcome = "succeed" \/ Mode = "some"
             THEN GoOn(left, Top.made) /\ world' = logged
             ELSE EndIn(logged, IF Mode = "all" THEN outcome ELSE "succeed", left)
    /\ UNCHANGED now

-----------------------------------------------------------------------------
(* call-permit                                                             *)

\* The gas is looked at first; then whether what was signed is a permit of this nonce.
Refused(permit, left) ==
    \/ permit.limit + CallCost > left
    \/ permit.deadline < now
    \/ permit.nonce # world.nonce

\* The nonce is used up before the call, and given back with everything else if the call
\* does not succeed.
PermitCalls ==
    /\ Running("permit")
    /\ LET permit == Top.target.permit
           left   == Top.gas - DispatchCost
           spent  == [world EXCEPT !.nonce = @ + 1, !.spent = Append(@, [permit |-> permit, at |-> now])]
       IN  IF left < 0 THEN End("error", 0)
           ELSE IF Refused(permit, left)
             THEN End("revert", left)
             ELSE \E target \in Targets : Call(spent, left, target, permit.limit, "signer")
    /\ UNCHANGED now

PermitGets_swallows ==
    /\ Answered("permit")
    /\ End(IF answer[1].outcome = "revert" THEN "succeed" ELSE answer[1].outcome,
           Top.gas + answer[1].gas)
    /\ UNCHANGED now

\* A dispatch ends as its call does.
PermitGets ==
    /\ Answered("permit")
    /\ End(answer[1].outcome, Top.gas + answer[1].gas)
    /\ UNCHANGED now

-----------------------------------------------------------------------------
(* Transactions                                                            *)

Init ==
    /\ stack = <<>>
    /\ answer = <<>>
    /\ world = [kept |-> {}, logs |-> {}, nonce |-> 0, spent |-> <<>>]
    /\ now = 0

\* The sender calls one of the precompiles, or a contract.
Transact ==
    /\ stack = <<>>
    /\ answer = <<>>
    /\ \E target \in Targets :
          stack' = <<[target |-> target, kind |-> target.kind, gas |-> TxGas,
                      caller |-> "sender", made |-> 0, path |-> <<>>, before |-> world]>>
    /\ UNCHANGED <<answer, world, now>>

\* The next transaction, in a later block.
Forget ==
    /\ stack = <<>>
    /\ answer # <<>>
    /\ now < MaxTxs - 1
    /\ now' = now + 1
    /\ answer' = <<>>
    /\ world' = [world EXCEPT !.kept = {}, !.logs = {}]
    /\ UNCHANGED stack

Next ==
    \/ CodeCalls \/ CodeGets \/ CodeEnds
    \/ BatchEnds \/ BatchRunsOut \/ BatchSkips \/ BatchCalls \/ BatchGets
    \/ PermitCalls \/ PermitGets
    \/ Transact \/ Forget

Spec == Init /\ [][Next]_vars

-----------------------------------------------------------------------------
(* Properties                                                              *)

Worlds ==
    [kept : SUBSET [path : Seq(1 .. MaxCalls), target : Targets,
                    caller : {"sender", "signer", "contract"}],
     logs : SUBSET [path : Seq(1 .. MaxCalls), ok : BOOLEAN],
     nonce : 0 .. MaxNonce,
     spent : Seq([permit : Permits, at : 0 .. MaxTxs - 1])]

TypeOK ==
    /\ \A i \in DOMAIN stack :
          /\ stack[i].target \in Targets
          /\ stack[i].gas \in 0 .. TxGas
          /\ stack[i].made \in 0 .. MaxCalls
          /\ stack[i].before \in Worlds
    /\ answer \in Seq([outcome : {"succeed", "revert", "error", "fatal"}, gas : 0 .. TxGas])
    /\ Len(answer) <= 1
    /\ world \in Worlds
    /\ now \in 0 .. MaxTxs - 1

Keeps(p) == \E c \in world.kept : c.path = p
KeepsAnyBelow(p) == \E c \in world.kept : IsPrefix(p, c.path)
LogOf(p, ok) == [path |-> p, ok |-> ok] \in world.logs

\* lib.rs: "We reserved enough gas so this should not OOG": however much a call burned,
\* and whatever ran below it, its batch can log what came of it.
ReserveSuffices ==
    Answered("batch") => Top.gas + answer[1].gas >= LogCost

\* What is logged as succeeded is kept, and of what is logged as failed nothing is, not
\* even of what succeeded below it.
LogsTellTheTruth ==
    \A log \in world.logs :
        IF log.ok THEN Keeps(log.path) ELSE ~KeepsAnyBelow(log.path)

Attempted(p) == LogOf(p, TRUE) \/ LogOf(p, FALSE)

\* A batch that has effects keeps what its mode promises: all its calls, or those before
\* the first that failed; the calls it made are the first of its list, none logged both ways,
\* and one of all its calls never ends early for want of gas.
BatchesKeepPromises ==
    \A batch \in {c \in world.kept : c.target.kind = "batch"} :
        LET call(i) == Append(batch.path, i)
            size    == batch.target.size
        IN  /\ \A i \in 1 .. size : ~(LogOf(call(i), TRUE) /\ LogOf(call(i), FALSE))
            /\ \A i \in 2 .. size : Attempted(call(i)) => Attempted(call(i - 1))
            /\ batch.target.mode = "all" => \A i \in 1 .. size : Keeps(call(i))
            /\ batch.target.mode = "untilFailure" =>
                  \A i \in 2 .. size : Attempted(call(i)) => Keeps(call(i - 1))

\* What a batch has done is what its mode says, on a stack of well-formed frames.
BatchesKeepTheirWord == TypeOK /\ BatchesKeepPromises

\* The calls that run or are kept.
Calls == world.kept \cup
    {[path |-> stack[i].path, target |-> stack[i].target, caller |-> stack[i].caller] :
        i \in {j \in DOMAIN stack : stack[j].kind # "permit" \/ stack[j].made = 1}}

Dispatches == {c \in Calls : c.target.kind = "permit"}

\* A permit is spent once, in the order of the nonces and before its deadline.
InOrder(w) ==
    /\ w.nonce = Len(w.spent)
    /\ \A n \in DOMAIN w.spent :
          w.spent[n].permit.nonce = n - 1 /\ w.spent[n].at <= w.spent[n].permit.deadline

SpentAt(w, t) == {w.spent[n].permit : n \in {m \in DOMAIN w.spent : w.spent[m].at = t}}

\* Permits are spent in order, each once; and every one spent in this transaction has the
\* call it was signed for under way or kept: none is used up by a dispatch that came to
\* nothing, and none that came to something is left to be used again.
PermitsSpentOnce ==
    /\ InOrder(world)
    /\ SpentAt(world, now) = {d.target.permit : d \in Dispatches}
    /\ \A d \in Dispatches \cap world.kept : Keeps(Append(d.path, 1))

\* Nobody's name is used but by leave: what runs as the signer of a permit is below its
\* dispatch, and what runs as the sender below the transaction, with nothing but batches
\* in between.
NamesAreLent ==
    \A c \in Calls : c.caller # "contract" =>
        \/ c.caller = "sender" /\ \A b \in Calls :
              IsStrictPrefix(b.path, c.path) => b.target.kind = "batch"
        \/ c.caller = "signer" /\ \E d \in Dispatches :
              /\ IsStrictPrefix(d.path, c.path)
              /\ \A b \in Calls : IsStrictPrefix(d.path, b.path) /\ IsStrictPrefix(b.path, c.path)
                    => b.target.kind = "batch"
=============================================================================
