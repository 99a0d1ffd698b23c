------------------------------ MODULE Parsers ------------------------------
(***************************************************************************)
(* A file of an entry in the hands of a writer: insertDockerfiles and      *)
(* insertCIConfig (internal/dbwriter/postgresql.go), and                   *)
(* ConvertDockerfileFeatures and ConvertCI (internal/bqwriter/bqwriter.go) *)
(* call the parser of the file's kind and store what it returns.           *)
(***************************************************************************)
EXTENDS Dockerfile, Workflow

ParsersInit ==
    \/ DockerfileInit /\ NoWorkflow
    \/ NoDockerfile /\ WorkflowInit

ParsersNext ==
    \/ ParseDockerfile /\ UNCHANGED workflowVars
    \/ ParseCIConfig /\ UNCHANGED dockerVars

ParsersSpec == ParsersInit /\ [][ParsersNext]_<<dockerVars, workflowVars>>

ParsersTypeOK == DockerTypeOK /\ WorkflowTypeOK

-----------------------------------------------------------------------------
\* The lines with commands that the file's parser judges one by one.
JudgedLines ==
    {instructions[i].value : i \in {j \in DOMAIN instructions : Is(j, "run")}}
    \cup {result[n].words : n \in DOMAIN result}

Reported == features.flags \cup ci.flags

\* A missing flag is reported of a file exactly if on one of its lines the
\* first command that needs the flag does not have it in its own segment: the
\* flag of a command in another segment does not make up for it, and no later
\* command of the line changes the verdict (shellparser.go lines 52-62, called
\* for each line from dockerfileparser.go lines 149-168 and ciparser.go lines
\* 98-118).
CommandsAreJudged ==
    phase = "done" \/ step = "done" =>
        \A f \in DOMAIN Required : f \in Reported <=> \E line \in JudgedLines : FirstLacks(line, f)

\* What splitRunSegments is there for, "so that each individual command can be
\* checked independently" (shellparser.go lines 5-6): a command that lacks its
\* flag is reported wherever it stands on the line.  It does not hold, since
\* commandMissingFlag returns at the first command (lines 56-58).
EachCommandIsChecked ==
    phase = "done" \/ step = "done" =>
        \A f \in DOMAIN Required, line \in JudgedLines : SomeLacks(line, f) => f \in Reported
=============================================================================
