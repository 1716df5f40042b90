------------------------------ MODULE Exchange ------------------------------
(***************************************************************************)
(* What a connection is meant to be: the client sends a text, the service  *)
(* applies what the text asks for at most once, answers at most once after *)
(* that, and closes.  Nothing else changes the job of the service.         *)
(***************************************************************************)
CONSTANTS Nothing,        \* no text
          Asks(_, _, _)   \* text, the job before and the job after

VARIABLES phase,   \* of the connection
          sent,    \* the text the client has sent
          job      \* the job of the service

vars == <<phase, sent, job>>

Open ==
  /\ phase = "closed"
  /\ phase' = "open"
  /\ UNCHANGED <<sent, job>>

Send ==
  /\ phase # "closed"
  /\ sent = Nothing
  /\ sent' # Nothing
  /\ UNCHANGED <<phase, job>>

Apply ==
  /\ phase = "open"
  /\ phase' = "applied"
  /\ Asks(sent, job, job')
  /\ UNCHANGED sent

Reply ==
  /\ phase \in {"open", "applied"}
  /\ phase' = "replied"
  /\ UNCHANGED <<sent, job>>

(* A text that is not answered, or an answer that does not get through.     *)
Close ==
  /\ phase # "closed"
  /\ phase' = "closed"
  /\ sent' = Nothing
  /\ UNCHANGED job

Next == Open \/ Send \/ Apply \/ Reply \/ Close

Spec == phase = "closed" /\ sent = Nothing /\ [][Next]_vars
=============================================================================
