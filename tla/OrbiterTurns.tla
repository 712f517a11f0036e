---------------------------- MODULE OrbiterTurns ----------------------------
(***************************************************************************)
(* What the orbiters program promises to the orbiters of a collator: they  *)
(* stand in a queue.  At a rotation the first of the queue takes the place *)
(* of the collator and goes to the end; whoever joins goes to the end too. *)
(* Orbiters is shown to implement this.                                    *)
(***************************************************************************)
EXTENDS Sequences, SequencesExt

CONSTANTS Collators, Orbiters

VARIABLES
    queue,    \* collators of the program, each with its orbiters, the next one first
    serving   \* the orbiter in the place of a collator, or nobody

turnVars == <<queue, serving>>

ToEnd(q) == IF q = <<>> THEN q ELSE Append(Tail(q), Head(q))

TurnsInit == queue = <<>> /\ serving = [c \in Collators |-> {}]

Open(c) ==
    /\ c \notin DOMAIN queue
    /\ queue' = [d \in DOMAIN queue \cup {c} |-> IF d = c THEN <<>> ELSE queue[d]]
    /\ UNCHANGED serving

\* The collator leaves the program; who is in its place stays for the time being.
Close(c) ==
    /\ c \in DOMAIN queue
    /\ queue' = [d \in DOMAIN queue \ {c} |-> queue[d]]
    /\ UNCHANGED serving

Join(c, o) ==
    /\ c \in DOMAIN queue
    /\ o \notin ToSet(queue[c])
    /\ queue' = [queue EXCEPT ![c] = Append(@, o)]
    /\ UNCHANGED serving

\* The departure of one may cost the first of the others its turn, and only that.
Leave(c, o) ==
    /\ c \in DOMAIN queue
    /\ \E i \in DOMAIN queue[c] :
        LET others == RemoveAt(queue[c], i)
        IN  /\ queue[c][i] = o
            /\ \E q \in {others, ToEnd(others)} : queue' = [queue EXCEPT ![c] = q]
    /\ UNCHANGED serving

Rotate ==
    /\ queue' = [c \in DOMAIN queue |-> ToEnd(queue[c])]
    /\ serving' = [c \in Collators |->
                      IF c \in DOMAIN queue /\ queue[c] # <<>> THEN {Head(queue[c])} ELSE {}]

TurnsNext ==
    \/ Rotate
    \/ \E c \in Collators :
        \/ Open(c) \/ Close(c)
        \/ \E o \in Orbiters : Join(c, o) \/ Leave(c, o)

TurnsSpec == TurnsInit /\ [][TurnsNext]_turnVars
=============================================================================
