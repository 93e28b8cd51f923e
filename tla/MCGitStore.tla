------------------------------ MODULE MCGitStore ------------------------------
(* GitStore with one project and one task below it, or with one task alone. *)
EXTENDS GitStore

CONSTANTS project, task, project_yaml, task_yaml, transitions_yaml

MCEntity == {project, task}
MCTask == {task}
MCTaskFile == {task_yaml, transitions_yaml}
MCFile == MCTaskFile \union {project_yaml}
MCLog == {transitions_yaml}
MCOwner == [f \in File |-> IF f = project_yaml THEN project ELSE task]

\* The task's directory is projects/<project>/tasks/<task>.
MCUnder == [e \in Entity |-> IF e = project THEN File ELSE MCTaskFile]
=============================================================================
