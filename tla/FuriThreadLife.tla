--------------------------- MODULE FuriThreadLife ---------------------------
(***************************************************************************)
(* What furi/core/thread.c promises the owners of threads, for modules     *)
(* that use threads; FuriThread implements it.  An owner allocates a       *)
(* thread and starts it; its callback runs and ends; one thread of the     *)
(* system, the scrubber, takes the ended threads in the order they ended,  *)
(* and does not go on to the next until the state callback of the one has  *)
(* returned.  A thread that has been released is its owner's again.        *)
(***************************************************************************)
EXTENDS Integers, SequencesExt

CONSTANTS
    Thread,         \* memory for FuriThread
    Joined          \* the threads whose owner calls furi_thread_join

VARIABLES
    life,           \* where each thread is in its life
    ended,          \* the ended threads; the head is the one being scrubbed
    released        \* the state of that thread is Stopped

thread_vars == <<life, ended, released>>

LifeInit ==
    /\ life = [th \in Thread |-> "none"]
    /\ ended = <<>>
    /\ released = FALSE

LifeStep(th, from, to) == life[th] = from /\ life' = [life EXCEPT ![th] = to]

Alloc(th) == LifeStep(th, "none", "ready") /\ UNCHANGED <<ended, released>>

Free(th) == LifeStep(th, "ready", "none") /\ UNCHANGED <<ended, released>>

Start(th) == LifeStep(th, "ready", "running") /\ UNCHANGED <<ended, released>>

\* The callback has returned and the thread waits for the scrubber.
End(th) ==
    /\ LifeStep(th, "running", "ended")
    /\ ended' = Append(ended, th)
    /\ UNCHANGED released

\* The thread has no task any more and its state is Stopped, which its owner
\* may see in furi_thread_join.
Stop ==
    /\ ended # <<>>
    /\ ~released
    /\ released' = TRUE
    /\ IF Head(ended) \in Joined THEN LifeStep(Head(ended), "ended", "ready") ELSE UNCHANGED life
    /\ UNCHANGED ended

\* The state callback, which tells an owner who does not join.
Report ==
    /\ released
    /\ released' = FALSE
    /\ ended' = Tail(ended)
    /\ IF Head(ended) \in Joined THEN UNCHANGED life ELSE LifeStep(Head(ended), "ended", "ready")

LifeNext ==
    \/ \E th \in Thread : Alloc(th) \/ Free(th) \/ Start(th) \/ End(th)
    \/ Stop \/ Report

LifeSpec == LifeInit /\ [][LifeNext]_thread_vars
=============================================================================
