------------------------------ MODULE CallList ------------------------------
(***************************************************************************)
(* The listener that turns the events of the EVM into call traces          *)
(* (client/evm-tracing/src/listeners/call_list.rs), driven by an EVM that  *)
(* replays a block.  The node runs the block with the listener attached    *)
(* and afterwards hands out one trace for each Ethereum transaction.       *)
(*                                                                         *)
(* Every handler of the listener is an operator from a listener to the     *)
(* listener it leaves; an action is one step of the EVM with all events    *)
(* it emits, in their order.  The EVM itself is not in this repository:    *)
(* its events and their order are those of the unit tests of the listener  *)
(* and of the comments on its handlers.                                    *)
(*                                                                         *)
(* Left out: gas and the cost of the transaction, values, input, output    *)
(* and logs, which are copied.  A contract is the pair of a transaction    *)
(* and the frame it runs in.                                               *)
(***************************************************************************)
EXTENDS Integers, SequencesExt, FiniteSetsExt

CONSTANTS
    CallTypes,         \* the kinds of calls contracts make
    Reasons,           \* what the EVM says of how a frame ended
    MaxTransactions,   \* bound: Ethereum transactions of the block
    MaxFrames          \* bound: frames of the whole block

ASSUME CallListAssumption ==
    /\ CallTypes \subseteq {"call", "callcode", "delegatecall", "staticcall"}
    /\ {"succeed", "error"} \subseteq Reasons
    /\ Reasons \subseteq {"succeed", "error", "revert", "fatal"}
    /\ MaxTransactions \in Nat \ {0} /\ MaxFrames \in Nat \ {0}

NoType == "none"

(* What a trace shows of frames that ended without a reason *)
EarlyExit == "early exit"
UnpaidData == "could not pay its own data cost"

VARIABLES
    listener,   \* the listener
    block,      \* the EVM: the frames of each transaction, in order of start
    open,       \* the EVM: the frames running in the last transaction
    done        \* the block has been replayed

vars == <<listener, block, open, done>>

-----------------------------------------------------------------------------
(* The listener *)

NewListener ==
    [version |-> "legacy", entries |-> <<>>, entriesNextIndex |-> 0,
     contextStack |-> <<>>, callType |-> NoType, skipNextContext |-> FALSE,
     stepResultEntry |-> <<>>, firstTransaction |-> TRUE,
     recordTransactionOnly |-> FALSE]

Entry(type, to, trace, subtraces, res) ==
    [type |-> type, to |-> to, trace |-> trace, subtraces |-> subtraces, res |-> res]

(* insert_entry: into the last map; the first entry makes the first map *)
InsertEntry(l, key, entry) ==
    LET Into(map) == [k \in DOMAIN map \cup {key} |-> IF k = key THEN entry ELSE map[k]]
        maps == l.entries
    IN  [l EXCEPT !.entries =
            IF maps = <<>> THEN <<Into(<<>>)>>
            ELSE [maps EXCEPT ![Len(maps)] = Into(@)]]

EntryOf(context, res) ==
    Entry(context.type, context.to, context.trace, context.subtraces, res)

(* pop_context_to_entry: the entry of the innermost context, if there is one *)
PoppedEntry(l, reason) ==
    IF l.contextStack = <<>> THEN <<>>
    ELSE LET context == Last(l.contextStack)
         IN  <<context.index, EntryOf(context, reason)>>

PopContext(l) ==
    [l EXCEPT !.contextStack = IF @ = <<>> THEN @ ELSE Front(@)]

PushContext(l, type, to, trace) ==
    [l EXCEPT
        !.contextStack = Append(@, [index |-> l.entriesNextIndex, type |-> type,
                                    to |-> to, trace |-> trace, subtraces |-> 0]),
        !.entriesNextIndex = @ + 1]

(* The place of a child: the path of the innermost context and its number *)
ChildTrace(l) ==
    IF l.contextStack = <<>> THEN <<>>
    ELSE Append(Last(l.contextStack).trace, Last(l.contextStack).subtraces)

CountSubtrace(l) ==
    IF l.contextStack = <<>> THEN l
    ELSE [l EXCEPT !.contextStack[Len(l.contextStack)].subtraces = @ + 1]

(* EvmEvent::TransactCall, TransactCreate and TransactCreate2 *)
OnTransact(l, type, to) ==
    PushContext([l EXCEPT !.recordTransactionOnly = FALSE, !.version = "early",
                          !.skipNextContext = TRUE], type, to, <<>>)

(* GasometerEvent::RecordTransaction *)
OnRecordTransaction(l) == [l EXCEPT !.recordTransactionOnly = TRUE]

(* A context for an EvmEvent::Call or Create, unless EvmEvent::TransactX made it *)
EnterContext(l, type, to) ==
    LET seen == [l EXCEPT !.recordTransactionOnly = FALSE, !.skipNextContext = FALSE]
    IN  IF l.skipNextContext THEN seen
        ELSE PushContext(CountSubtrace(seen), type, to, ChildTrace(l))

OnCall(l, isStatic, to) ==
    EnterContext(l,
        IF l.callType # NoType THEN l.callType
        ELSE IF isStatic THEN "staticcall" ELSE "call", to)

OnCreate(l, to) == EnterContext(l, "create", to)

(* RuntimeEvent::StepResult, trapped at a call or a create *)
OnTrap(l, type) == IF type \in CallTypes THEN [l EXCEPT !.callType = type] ELSE l

(* EvmEvent::PrecompileSubcall *)
OnPrecompileSubcall(l) == [l EXCEPT !.callType = "call"]

(* EvmEvent::Suicide *)
OnSuicide(l, target) ==
    LET inserted == InsertEntry(CountSubtrace(l), l.entriesNextIndex,
                                Entry("selfdestruct", target, ChildTrace(l), 0, "none"))
    IN  [inserted EXCEPT !.entriesNextIndex = @ + 1]

(* RuntimeEvent::StepResult, at the exit of a context *)
OnStepExit(l, reason) ==
    LET entry == PoppedEntry(l, reason)
    IN  IF entry = <<>> THEN l
        ELSE IF l.version = "legacy"
        THEN InsertEntry(PopContext(l), entry[1], entry[2])
        ELSE [PopContext(l) EXCEPT !.stepResultEntry = entry]

(* EvmEvent::Exit, wrong: pops a context even if StepResult has left an entry *)
OnExit_popsToo(l, reason) ==
    LET popped == PopContext([l EXCEPT !.recordTransactionOnly = FALSE, !.stepResultEntry = <<>>])
        entry == IF l.stepResultEntry # <<>> THEN l.stepResultEntry
                 ELSE PoppedEntry(l, reason)
    IN  IF entry = <<>> THEN popped ELSE InsertEntry(popped, entry[1], entry[2])

(* EvmEvent::Exit: takes the entry StepResult left, or else pops a context *)
OnExit(l, reason) ==
    LET seen  == [l EXCEPT !.recordTransactionOnly = FALSE, !.stepResultEntry = <<>>]
        entry == IF l.stepResultEntry # <<>> THEN l.stepResultEntry
                 ELSE PoppedEntry(l, reason)
        left  == IF l.stepResultEntry # <<>> THEN seen ELSE PopContext(seen)
    IN  IF entry = <<>> THEN left ELSE InsertEntry(left, entry[1], entry[2])

(* finish_transaction *)
FinishTransaction(l) ==
    IF l.contextStack # <<>>
    THEN LET context == Head(l.contextStack)
         IN  [InsertEntry([l EXCEPT !.contextStack = <<>>], context.index,
                          EntryOf(context, EarlyExit))
                EXCEPT !.entriesNextIndex = context.index + 1]
    ELSE IF l.recordTransactionOnly
    THEN [InsertEntry(l, l.entriesNextIndex, Entry("call", <<>>, <<>>, 0, UnpaidData))
            EXCEPT !.entriesNextIndex = @ + 1]
    ELSE l

(* Event::CallListNew *)
OnCallListNew(l) ==
    IF l.firstTransaction THEN [l EXCEPT !.firstTransaction = FALSE]
    ELSE LET finished == FinishTransaction(l)
         IN  [finished EXCEPT !.skipNextContext = FALSE,
                              !.entries = Append(@, <<>>)]

-----------------------------------------------------------------------------
(* The EVM: one transaction after the other, in each a tree of frames *)

Transaction == Len(block)
Frames == block[Transaction]
NextContract == <<Transaction, Len(Frames) + 1>>
Running == open # <<>>
RootEntered == Frames[1].entered

OpenFrame(type) ==
    /\ block' = [block EXCEPT ![Transaction] = Append(@,
                    [type |-> type, parent |-> IF Running THEN Last(open) ELSE 0,
                     res |-> "open", entered |-> Running])]
    /\ open' = Append(open, Len(Frames) + 1)

CloseFrame(res) ==
    /\ block' = [block EXCEPT ![Transaction][Last(open)].res = res]
    /\ open' = Front(open)

InContract == Running /\ RootEntered
HasRoom == Len(FlattenSeq(block)) < MaxFrames

Init ==
    /\ listener = NewListener
    /\ block = <<>>
    /\ open = <<>>
    /\ done = FALSE

(* The replay comes to the next Ethereum transaction of the block *)
NewTransaction ==
    /\ ~done /\ ~Running /\ Transaction < MaxTransactions
    /\ listener' = OnCallListNew(listener)
    /\ block' = Append(block, <<>>)
    /\ UNCHANGED <<open, done>>

(* The transaction starts and is charged for its data *)
Transact(type) ==
    /\ ~done /\ block # <<>> /\ HasRoom /\ Frames = <<>>
    /\ listener' = OnRecordTransaction(OnTransact(listener, type, NextContract))
    /\ OpenFrame(type)
    /\ UNCHANGED done

(* It cannot pay for its data and exits *)
DataUnpaid ==
    /\ Running /\ ~RootEntered
    /\ listener' = OnExit(listener, "error")
    /\ CloseFrame("error")
    /\ UNCHANGED done

(* Its root frame is entered *)
EnterRoot ==
    /\ Running /\ ~RootEntered
    /\ listener' = IF Frames[1].type = "create" THEN OnCreate(listener, <<Transaction, 1>>)
                   ELSE OnCall(listener, FALSE, <<Transaction, 1>>)
    /\ block' = [block EXCEPT ![Transaction][1].entered = TRUE]
    /\ UNCHANGED <<open, done>>

(* The innermost frame calls or creates a contract *)
SubCall(type) ==
    /\ InContract /\ HasRoom
    /\ listener' = OnCall(OnTrap(listener, type), type = "staticcall", NextContract)
    /\ OpenFrame(type)
    /\ UNCHANGED done

SubCreate ==
    /\ InContract /\ HasRoom
    /\ listener' = OnCreate(OnTrap(listener, "create"), NextContract)
    /\ OpenFrame("create")
    /\ UNCHANGED done

(* The innermost frame is a precompile that calls a contract *)
PrecompileSubcall ==
    /\ InContract /\ HasRoom /\ Frames[Last(open)].type # "create"
    /\ listener' = OnCall(OnPrecompileSubcall(listener), FALSE, NextContract)
    /\ OpenFrame("call")
    /\ UNCHANGED done

(* The innermost frame destroys its contract, which ends it *)
SelfDestruct ==
    /\ InContract /\ HasRoom
    /\ listener' = OnExit(OnStepExit(OnSuicide(listener, NextContract), "succeed"), "succeed")
    /\ block' = [block EXCEPT ![Transaction] =
                    Append([@ EXCEPT ![Last(open)].res = "succeed"],
                           [type |-> "selfdestruct", parent |-> Last(open),
                            res |-> "none", entered |-> TRUE])]
    /\ open' = Front(open)
    /\ UNCHANGED done

(* The innermost frame ends in its code, or before or without running any *)
ExitFromCode(reason) ==
    /\ InContract
    /\ listener' = OnExit(OnStepExit(listener, reason), reason)
    /\ CloseFrame(reason)
    /\ UNCHANGED done

ExitWithoutCode(reason) ==
    /\ InContract
    /\ listener' = OnExit(listener, reason)
    /\ CloseFrame(reason)
    /\ UNCHANGED done

(* The block has been replayed; the RPC finishes the last transaction *)
EndOfBlock ==
    /\ ~done /\ ~Running
    /\ listener' = FinishTransaction(listener)
    /\ done' = TRUE
    /\ UNCHANGED <<block, open>>

Next ==
    \/ NewTransaction
    \/ \E type \in {"call", "create"} : Transact(type)
    \/ DataUnpaid
    \/ EnterRoot
    \/ \E type \in CallTypes : SubCall(type)
    \/ SubCreate
    \/ PrecompileSubcall
    \/ SelfDestruct
    \/ \E reason \in Reasons : ExitFromCode(reason) \/ ExitWithoutCode(reason)
    \/ EndOfBlock

Spec == Init /\ [][Next]_vars

-----------------------------------------------------------------------------
(* What the traces must say *)

(* The number of frame f among its siblings, and its path from the root *)
SiblingsBefore(frames, f) ==
    {g \in 1..(f - 1) : frames[g].parent = frames[f].parent}

PathTo(frames, f) ==
    LET path[g \in 1..f] ==
            IF frames[g].parent = 0 THEN <<>>
            ELSE Append(path[frames[g].parent], Cardinality(SiblingsBefore(frames, g)))
    IN  path[f]

Children(frames, f) == {g \in DOMAIN frames : frames[g].parent = f}

TrueTrace(t) ==
    [f \in DOMAIN block[t] |->
        Entry(block[t][f].type, <<t, f>>, PathTo(block[t], f),
              Cardinality(Children(block[t], f)), block[t][f].res)]

(* The entries of a map in the order of their keys *)
InKeyOrder(map) == [i \in 1..Cardinality(DOMAIN map) |->
    map[CHOOSE k \in DOMAIN map : Cardinality({j \in DOMAIN map : j < k}) = i - 1]]

TypeOK ==
    /\ listener.version \in {"legacy", "early"}
    /\ listener.entriesNextIndex \in Nat
    /\ listener.callType \in CallTypes \cup {"call", NoType}
    /\ listener.stepResultEntry = <<>>
    /\ open \in Seq(Nat)
    /\ Len(block) <= MaxTransactions
    /\ done \in BOOLEAN

(* The contexts of the listener are the frames that are running *)
ContextsAreFrames ==
    [i \in DOMAIN listener.contextStack |->
        [to |-> listener.contextStack[i].to, subtraces |-> listener.contextStack[i].subtraces]]
      = [i \in DOMAIN open |->
            [to |-> <<Transaction, open[i]>>,
             subtraces |-> Cardinality(Children(Frames, open[i]))]]

(* The transactions that have a trace: all but a first one without events *)
Traced ==
    IF block # <<>> /\ block[1] = <<>> THEN 2..Len(block) ELSE 1..Len(block)

FinishedTraces ==
    [t \in DOMAIN listener.entries |-> InKeyOrder(listener.entries[t])]
      = [i \in 1..Cardinality(Traced) |-> TrueTrace(Len(block) - Cardinality(Traced) + i)]

(***************************************************************************)
(* While frames are running, the contexts of the listener are those frames *)
(* and nothing else.  Whenever none is running, it holds exactly what was  *)
(* executed: one trace for each transaction, in order, and in it one entry *)
(* for each frame, parents before children, with the type, path, number of *)
(* children and result of that frame, whatever mixture of calls, creates,  *)
(* precompiles, self-destructions and early exits came before it.  The one *)
(* exception is a first transaction without events: the next takes its     *)
(* place, for Event::CallListNew only opens a map from the second on.      *)
(***************************************************************************)
TracesMatchExecution ==
    /\ TypeOK
    /\ ContextsAreFrames
    /\ ~Running => FinishedTraces
=============================================================================
