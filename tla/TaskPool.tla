------------------------------ MODULE TaskPool ------------------------------
(***************************************************************************)
(* What the shared task queue promises to its callers, without threads,    *)
(* locks, coroutines or waiters: a FIFO pool.  A caller offers tasks; an   *)
(* offered task joins the pool behind the older ones, or goes directly to  *)
(* a session, but only while no older task is pooled; a session holds one  *)
(* task at a time and completes it or offers it again; only a closed pool  *)
(* refuses tasks.                                                          *)
(***************************************************************************)
EXTENDS Sequences, Functions

CONSTANTS Sessions, Tasks, NoTask

VARIABLES
    pool,       \* the pooled tasks, oldest first
    offered,    \* tasks inside a caller's offer
    held,       \* the task each session holds
    fresh,      \* tasks never offered
    completed,
    refused,
    closed

poolVars == <<pool, offered, held, fresh, completed, refused, closed>>

Init ==
    /\ pool = <<>>
    /\ offered = {}
    /\ held = [s \in Sessions |-> NoTask]
    /\ fresh = Tasks
    /\ completed = {}
    /\ refused = {}
    /\ closed = FALSE

\* The tasks S go into an offer, or are refused by a closed pool.
Present(S) ==
    \/ /\ offered' = offered \cup S
       /\ UNCHANGED refused
    \/ /\ closed
       /\ refused' = refused \cup S
       /\ UNCHANGED offered

Offer ==
    /\ \E S \in SUBSET fresh :
          /\ fresh' = fresh \ S
          /\ Present(S)
    /\ UNCHANGED <<pool, held, completed, closed>>

OfferAgain(s) ==
    /\ held[s] # NoTask
    /\ Present({held[s]})
    /\ held' = [held EXCEPT ![s] = NoTask]
    /\ UNCHANGED <<pool, fresh, completed, closed>>

\* Some offered tasks join the pool, behind the ones it has.
Accept ==
    /\ LET new == SubSeq(pool', Len(pool) + 1, Len(pool'))
       IN  /\ pool' = pool \o new
           /\ IsInjective(new)
           /\ Range(new) \subseteq offered
           /\ offered' = offered \ Range(new)
    /\ UNCHANGED <<held, fresh, completed, refused, closed>>

Take(s) ==
    /\ held[s] = NoTask
    /\ pool # <<>>
    /\ held' = [held EXCEPT ![s] = Head(pool)]
    /\ pool' = Tail(pool)
    /\ UNCHANGED <<offered, fresh, completed, refused, closed>>

HandOver(s) ==
    /\ held[s] = NoTask
    /\ pool = <<>>
    /\ \E t \in offered :
          /\ offered' = offered \ {t}
          /\ held' = [held EXCEPT ![s] = t]
    /\ UNCHANGED <<pool, fresh, completed, refused, closed>>

Complete(s) ==
    /\ held[s] # NoTask
    /\ completed' = completed \cup {held[s]}
    /\ held' = [held EXCEPT ![s] = NoTask]
    /\ UNCHANGED <<pool, offered, fresh, refused, closed>>

Close ==
    /\ closed' = TRUE
    /\ UNCHANGED <<pool, offered, held, fresh, completed, refused>>

Next ==
    \/ Offer
    \/ Accept
    \/ Close
    \/ \E s \in Sessions : OfferAgain(s) \/ Take(s) \/ HandOver(s) \/ Complete(s)

Spec == Init /\ [][Next]_poolVars
=============================================================================
