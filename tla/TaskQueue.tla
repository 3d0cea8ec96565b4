----------------------------- MODULE TaskQueue ------------------------------
(***************************************************************************)
(* What an EventLoop promises to the callers of queueInLoop(): one single  *)
(* executor that takes the functors in the order in which they were        *)
(* queued, one at a time, each exactly once.  Nothing here knows of two    *)
(* buffers, a swap, a mutex, an eventfd or a poll: EventLoop is shown to   *)
(* implement this specification.                                           *)
(***************************************************************************)
EXTENDS Sequences, Functions

CONSTANTS Tasks,    \* the identities of the functors
          NoTask    \* no functor is being executed; not one of Tasks

VARIABLES queue,    \* the functors that wait, oldest first
          current   \* the functor being executed, or NoTask

vars == <<queue, current>>

Init == queue = <<>> /\ current = NoTask

(* A caller hands over a functor that is not waiting already. *)
Submit(t) ==
    /\ t \notin Range(queue)
    /\ queue' = Append(queue, t)
    /\ UNCHANGED current

(* The executor takes the oldest functor ... *)
Begin ==
    /\ current = NoTask
    /\ queue # <<>>
    /\ current' = Head(queue)
    /\ queue' = Tail(queue)

(* ... and returns from it. *)
End ==
    /\ current # NoTask
    /\ current' = NoTask
    /\ UNCHANGED queue

Next == (\E t \in Tasks : Submit(t)) \/ Begin \/ End

Spec == Init /\ [][Next]_vars
=============================================================================
