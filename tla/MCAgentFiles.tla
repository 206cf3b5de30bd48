---------------------------- MODULE MCAgentFiles ----------------------------
(* A small instance of AgentFiles: courses in which the log is disturbed, and  *)
(* courses in which the uploads are.                                           *)
EXTENDS AgentFiles

Course == [appends |-> 4, partial |-> FALSE, renames |-> 0, truncates |-> 0, syncs |-> 0, failures |-> 0, crashes |-> 0, signals |-> 0]
MCCourses ==
    {[Course EXCEPT !.partial = TRUE, !.renames = 1],
     [Course EXCEPT !.partial = TRUE, !.truncates = 1, !.signals = 1],
     [Course EXCEPT !.appends = 3, !.renames = 2, !.truncates = 1],
     [Course EXCEPT !.appends = 3, !.syncs = 2, !.failures = 1, !.signals = 1],
     [Course EXCEPT !.appends = 3, !.syncs = 2, !.crashes = 1, !.signals = 1],
     [Course EXCEPT !.appends = 2, !.failures = 3, !.signals = 1]}
=============================================================================
