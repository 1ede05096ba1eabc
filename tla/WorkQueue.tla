------------------------------ MODULE WorkQueue ------------------------------
(***************************************************************************)
(* What several workers may rely on when they share the Redis Streams bus  *)
(* (src/pipeline/bus.py): a numbered entry is taken by one worker, oldest  *)
(* first, the newest Capacity entries are never given up before a worker   *)
(* takes them, and what a worker has taken it delivers or loses, and       *)
(* nobody takes it again.                                                  *)
(***************************************************************************)
EXTENDS Naturals

CONSTANTS Workers, Capacity

VARIABLES
    newest,      \* the number of the newest entry
    waiting,     \* entries no worker has taken yet
    held,        \* [Workers -> SUBSET Nat] taken and not yet delivered
    done         \* delivered

vars == <<newest, waiting, held, done>>

Init ==
    /\ newest = 0 /\ waiting = {} /\ done = {}
    /\ held = [w \in Workers |-> {}]

\* An entry is added, and the queue may give up some that are Capacity or more behind it.
Add(lost) ==
    /\ newest' = newest + 1
    /\ \A n \in lost : n + Capacity <= newest'
    /\ waiting' = (waiting \ lost) \cup {newest'}
    /\ UNCHANGED <<held, done>>

\* A worker with empty hands takes the oldest entries, and gets none of them when the answer
\* is lost.
Take(w, oldest, got) ==
    /\ held[w] = {} /\ oldest # {} /\ got \in {oldest, {}}
    /\ \A m \in oldest, n \in waiting \ oldest : m < n
    /\ waiting' = waiting \ oldest
    /\ held' = [held EXCEPT ![w] = got]
    /\ UNCHANGED <<newest, done>>

\* A call fails, or the worker dies.
Lose(w, kept) ==
    /\ held' = [held EXCEPT ![w] = kept]
    /\ UNCHANGED <<newest, waiting, done>>

Deliver(w) ==
    /\ done' = done \cup held[w]
    /\ held' = [held EXCEPT ![w] = {}]
    /\ UNCHANGED <<newest, waiting>>

Next ==
    \/ \E lost \in SUBSET waiting : Add(lost)
    \/ \E w \in Workers :
          \/ \E oldest, got \in SUBSET waiting : Take(w, oldest, got)
          \/ \E kept \in SUBSET held[w] : Lose(w, kept)
          \/ Deliver(w)

Spec == Init /\ [][Next]_vars
=============================================================================
