---------------------------- MODULE LogDelivery ----------------------------
(***************************************************************************)
(* What capturing a log promises, whatever readers and files do it: a      *)
(* session starts at the oldest message the log holds and takes the wanted *)
(* ones in order, leaving out none that is held; the message in hand is    *)
(* saved or lost before the next one is taken; a new session takes         *)
(* everything still held again; and what is saved stays saved.             *)
(***************************************************************************)
EXTENDS Naturals

CONSTANT wanted  \* the messages the capture asks for

VARIABLES
  base, logged,  \* the log holds base..logged
  streaming,     \* there is a session
  next,          \* where it goes on
  taken,         \* the message in hand, 0 for none
  saved, lost

log == <<base, logged>>
session == <<streaming, next, taken>>
vars == <<log, session, saved, lost>>

Init ==
  /\ base = 1 /\ logged = 0
  /\ ~streaming
  /\ taken = 0
  /\ saved = {} /\ lost = {}

\* The log grows and forgets at its old end.
Grow ==
  /\ logged' \in {logged, logged + 1}
  /\ base' \in base..logged' + 1
  /\ streaming' \in {streaming, FALSE}
  /\ UNCHANGED <<next, taken, saved, lost>>

Connect ==
  /\ ~streaming /\ taken = 0
  /\ streaming' = TRUE
  /\ next' = base
  /\ UNCHANGED <<log, taken, saved, lost>>

\* The session ends; the message in hand is abandoned, or still to be saved.
Disconnect ==
  /\ streaming' = FALSE
  /\ taken' \in {taken, 0}
  /\ UNCHANGED <<log, next, saved, lost>>

Due == {m \in base..logged : m >= next /\ m \in wanted}

Take ==
  /\ streaming /\ taken = 0
  /\ taken' \in Due
  /\ \A m \in Due : taken' <= m
  /\ next' = taken' + 1
  /\ UNCHANGED <<log, streaming, saved, lost>>

Save ==
  /\ taken # 0
  /\ saved' = saved \cup {taken}
  /\ taken' = 0
  /\ UNCHANGED <<log, streaming, next, lost>>

Lose ==
  /\ taken # 0
  /\ lost' = lost \cup {taken}
  /\ taken' = 0
  /\ UNCHANGED <<log, streaming, next, saved>>

Next == Grow \/ Connect \/ Disconnect \/ Take \/ Save \/ Lose

Spec == Init /\ [][Next]_vars

=============================================================================
