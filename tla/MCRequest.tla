----------------------------- MODULE MCRequest -----------------------------
(***************************************************************************)
(* Two callers, a worker and the page request, that share the resource     *)
(* "core"; the worker also sends GraphQL queries.  The answers are those   *)
(* that differ in what the code does with them: each status alone, and     *)
(* each way of naming an instant, before, at and after the present one.    *)
(***************************************************************************)
EXTENDS Request, TLC

CONSTANTS w1, pager, core, graphql

Plain(status) == [status |-> status, after |-> 0, date |-> 0, exhausted |-> FALSE,
                  reset |-> 0, limited |-> FALSE]

SmallAnswers ==
    {Plain(200), Plain(404), Plain(403)}
    \cup {[Plain(403) EXCEPT !.after = 1, !.exhausted = TRUE, !.reset = 2],
          [Plain(429) EXCEPT !.date = 2],
          [Plain(403) EXCEPT !.exhausted = TRUE], [Plain(403) EXCEPT !.exhausted = TRUE, !.reset = 1],
          [Plain(200) EXCEPT !.exhausted = TRUE, !.reset = 1],
          [Plain(200) EXCEPT !.exhausted = TRUE, !.reset = 1, !.limited = TRUE],
          [Plain(200) EXCEPT !.limited = TRUE]}
=============================================================================
