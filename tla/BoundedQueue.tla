---------------------------- MODULE BoundedQueue ----------------------------
(***************************************************************************)
(* What the queue of the thread pool promises: a first-in first-out buffer *)
(* of at most Capacity items that can be closed.  Nothing is put into a    *)
(* closed queue; what was put into it before can still be taken out.       *)
(***************************************************************************)
EXTENDS Naturals, Sequences

CONSTANTS Item, Capacity

VARIABLES items, closed

qvars == <<items, closed>>

QInit == items = <<>> /\ closed = FALSE

Put(x) ==
  /\ ~closed
  /\ Len(items) < Capacity
  /\ items' = Append(items, x)
  /\ UNCHANGED closed

Get ==
  /\ items # <<>>
  /\ items' = Tail(items)
  /\ UNCHANGED closed

Close == closed' = TRUE /\ UNCHANGED items

QNext == (\E x \in Item : Put(x)) \/ Get \/ Close

QSpec == QInit /\ [][QNext]_qvars
=============================================================================
