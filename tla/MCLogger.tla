------------------------------ MODULE MCLogger ------------------------------
(***************************************************************************)
(* Small instances of Logger and LoggerTasks; a behaviour is one of the    *)
(* two.  One task: messages shorter than, as long as and longer than the   *)
(* log, and a block that divides neither the log nor every length to       *)
(* rotate by.  Two tasks: a counter wide enough to go wrong by more than   *)
(* a log.                                                                  *)
(***************************************************************************)
EXTENDS Logger, LoggerTasks

LoggingInit == Init /\ TasksInit

OneTask == TasksInit /\ Next /\ UNCHANGED taskVars

\* LoggerTasks has no text: one of the texts to start from is enough.
SeveralTasks ==
    /\ Init /\ g_log.text = [i \in 1..Size |-> Tag]
    /\ TasksNext /\ UNCHANGED vars

LoggingSpec ==
    /\ LoggingInit /\ [][OneTask \/ SeveralTasks]_<<vars, taskVars>>
    /\ WF_vars(Reading) /\ TasksFairness
=============================================================================
