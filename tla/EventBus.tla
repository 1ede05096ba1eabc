------------------------------- MODULE EventBus -------------------------------
(***************************************************************************)
(* What the ingestion and detection loops of one process may rely on when  *)
(* they share an InMemoryBus (src/pipeline/bus.py): an idempotency key is  *)
(* spent at most once, a message is handed out at most once, and only a    *)
(* message that was accepted is handed out.  The bus never holds more than *)
(* Capacity messages, and refuses one, or gives up one, only when it holds *)
(* that many.  Nothing promises that an accepted message is handed out.    *)
(***************************************************************************)
EXTENDS Naturals, FiniteSets

CONSTANTS Events, Keys, KeyOf, Capacity

VARIABLES
    waiting,     \* accepted and not yet handed out
    handed,      \* handed out by consume
    spent        \* idempotency keys that were used up

vars == <<waiting, handed, spent>>

Init == waiting = {} /\ handed = {} /\ spent = {}

IsFull == Cardinality(waiting) = Capacity

\* publish: the key is spent; the message enters the bus or not, and a full bus may
\* give up a message it held.
Publish(e, lost, accepted) ==
    /\ KeyOf[e] \notin spent
    /\ \A m, n \in lost : m = n
    /\ lost # {} \/ ~accepted => IsFull
    /\ spent' = spent \cup {KeyOf[e]}
    /\ waiting' = (waiting \ lost) \cup (IF accepted THEN {e} ELSE {})
    /\ Cardinality(waiting') <= Capacity
    /\ UNCHANGED handed

Consume(batch) ==
    /\ batch \subseteq waiting
    /\ waiting' = waiting \ batch
    /\ handed' = handed \cup batch
    /\ UNCHANGED spent

\* close forgets everything.
Close == waiting' = {} /\ handed' = {} /\ spent' = {}

Next ==
    \/ \E e \in Events, lost \in SUBSET waiting, accepted \in BOOLEAN :
          Publish(e, lost, accepted)
    \/ \E batch \in SUBSET waiting : Consume(batch)
    \/ Close

Spec == Init /\ [][Next]_vars
=============================================================================
