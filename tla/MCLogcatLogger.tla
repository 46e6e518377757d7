--------------------------- MODULE MCLogcatLogger ---------------------------
(***************************************************************************)
(* Instances of LogcatLogger: two log buffers in turn, short and long      *)
(* lines, and the budgets of the runs.                                     *)
(***************************************************************************)
EXTENDS LogcatLogger, TLC

CONSTANTS n1, n2, n3, n4, n5, n6, n7, n8, n9

\* RadioLogDevice's own buffer does not belong to MainLogDevice's logger.
MCDev == [m \in Msgs |-> <<"main", "radio", "system", "main", "system">>[m]]

\* MainLogDevice: LogcatLogger(String8("main"), String8("system"), String8("crash"))
MCArgs == <<"main", "system", "crash", "", "">>

\* A threshold of three is met exactly from the first message on, and crossed by a
\* byte by a reader that begins later.
MCSize == [m \in Msgs |-> IF m = 1 THEN 1 ELSE 2]

Budgets(setup, rotate, drop, kill, error, crash) ==
  [e \in Events |->
     CASE e = "setup" -> setup [] e = "rotate" -> rotate [] e = "drop" -> drop
       [] e = "kill" -> kill [] e = "error" -> error [] e = "crash" -> crash]

\* One of everything, and two errors that make a new reader.
CaptureBudget == Budgets(1, 1, 1, 1, 2, 1)

RecoveryBudget == Budgets(1, 1, 1, 1, 2, 1)

\* Nothing fails but one burst of read errors.
ErrorBudget == Budgets(0, 0, 0, 0, 2, 0)

\* Nothing fails at all.
QuietBudget == Budgets(0, 0, 0, 0, 0, 0)

\* File names are interchangeable.
NameSymmetry == Permutations(Names)

=============================================================================
