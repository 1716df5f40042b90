---------------------------- MODULE JobExecution ----------------------------
(***************************************************************************)
(* What the owner of a job's thread may rely on: nothing happens to the    *)
(* job's tasks on its account but while the thread lives, a cancellation   *)
(* is only ever pending on such a thread, and it leaves no child process   *)
(* behind when it ends.  Other runners of the same job write to the tasks  *)
(* when they like.  Module Worker reduces the job threads of JobRunner to  *)
(* this.                                                                   *)
(***************************************************************************)
EXTENDS Naturals

VARIABLES state,     \* of the thread: "free" before create and after join
          cancel,    \* a cancellation is pending
          record,    \* what the job's tasks say of themselves
          children,  \* the tasks that have a child process of this thread
          others     \* how often other runners of the job have written

vars == <<state, cancel, record, children, others>>

(* As the first half of a restart, the join may be part of the step.        *)
Create ==
  /\ state # "live"
  /\ state' = "live"
  /\ cancel' = FALSE
  /\ UNCHANGED <<record, children, others>>

(* The tasks go on, in any way.                                             *)
Work ==
  /\ state = "live"
  /\ UNCHANGED <<state, cancel, others>>

Cancel ==
  /\ state = "live"
  /\ cancel' = TRUE
  /\ UNCHANGED <<state, record, children, others>>

End ==
  /\ state = "live"
  /\ children = {}
  /\ state' = "exited"
  /\ UNCHANGED <<cancel, record, children, others>>

Join ==
  /\ state # "live"
  /\ state' = "free"
  /\ cancel' = FALSE
  /\ UNCHANGED <<record, children, others>>

(* Another runner of the job writes to its record.                          *)
Other ==
  /\ others' = others + 1
  /\ UNCHANGED <<state, cancel, children>>

Next == Create \/ Work \/ Cancel \/ End \/ Join \/ Other

Spec == /\ state = "free" /\ cancel = FALSE /\ children = {} /\ others = 0
        /\ [][Next]_vars
=============================================================================
