----------------------------- MODULE MCParsers -----------------------------
(***************************************************************************)
(* Every Dockerfile of at most four lines and every well-formed workflow   *)
(* of at most five, out of these.  Dockerfiles: comments, blank lines and  *)
(* continued lines, an ARG that refers to another, stages named like       *)
(* images and in another case, commands with and without their flag.       *)
(* Workflows: items and keys with run fields of every style, text, names,  *)
(* a mapping called run.                                                   *)
(***************************************************************************)
EXTENDS Parsers

Ends(words) == [words |-> words, continues |-> FALSE]
GoesOn(words) == [words |-> words, continues |-> TRUE]

DockerLines ==
    {Ends(<<>>), Ends(<<"#", "npm ci">>), GoesOn(<<>>), GoesOn(<<"#">>)}
    \cup {Ends(<<"arg">>), Ends(<<"arg", "BASE=">>), Ends(<<"arg", "BASE=node">>),
          Ends(<<"arg", "BASE=$IMG">>), Ends(<<"arg", "IMG=go:1@sha">>)}
    \cup {Ends(<<"from", "--platform">>), Ends(<<"from", "--platform", "$BASE", "as", "Build">>),
          Ends(<<"from", "build">>), Ends(<<"from", "node", "as", "node">>)}
    \cup {GoesOn(<<"run", "npm ci">>), Ends(<<"--ignore-scripts", "&&", "npm ci">>), Ends(<<"user">>)}

SmallTexts == BoundedSeq(DockerLines, 4)

SmallReference == "$BASE" :> "BASE" @@ "$IMG" :> "IMG"

Sets(name, value) == [name |-> name, value |-> value]
SmallAssignment ==
    "BASE=" :> Sets("BASE", "") @@ "BASE=node" :> Sets("BASE", "node")
    @@ "BASE=$IMG" :> Sets("BASE", "$IMG") @@ "IMG=go:1@sha" :> Sets("IMG", "go:1@sha")

Parts(name, tag, digest) == [name |-> name, tag |-> tag, digest |-> digest]
SmallImage == "go:1@sha" :> Parts("go", "1", "sha")

SmallLowerCase == "Build" :> "build"

-----------------------------------------------------------------------------
At(indent, dash, key, style, words) ==
    [indent |-> indent, dash |-> dash, key |-> key, style |-> style, words |-> words]

WorkflowLines ==
    {At(0, FALSE, "", "plain", <<>>), At(0, FALSE, "jobs", "empty", <<>>),
     At(2, FALSE, "run", "empty", <<>>), At(4, FALSE, "shell", "plain", <<"bash">>)}
    \cup {At(2, TRUE, "run", "|", <<>>), At(4, FALSE, "run", ">-", <<>>), At(4, FALSE, "run", "|+", <<>>)}
    \cup {At(2, TRUE, "name", "plain", <<"npm ci">>), At(4, FALSE, "name", "plain", <<"npm install">>)}
    \cup {At(2, TRUE, "run", "plain", <<"npm ci", "||", "npm", "--ignore-scripts">>),
          At(4, FALSE, "run", "plain", <<"npm publish", "--dry-run", ";", "sudo">>)}
    \cup {At(6, FALSE, "", "plain", <<"npm ci", "--ignore-scripts", ";", "npm ci">>),
          At(6, FALSE, "run", "plain", <<"npm publish">>)}

\* A block has text, text stands in a block, a step's key in an item, and no
\* mapping has two run fields.
WellFormed(lines) ==
    LET Blank(k) == lines[k].key = "" /\ lines[k].words = <<>>
        Text(i, j) == \A k \in (i + 1)..j : Blank(k) \/ lines[k].indent > KeyColumn(lines[i])
        Blocks == {i \in DOMAIN lines : lines[i].key = "run" /\ lines[i].style \in YamlBlocks}
        InBlock(j) == \E i \in Blocks : i < j /\ Text(i, j)
    IN  /\ \A i \in Blocks : \E j \in (i + 1)..Len(lines) : ~Blank(j) /\ Text(i, j)
        /\ \A j \in DOMAIN lines :
              /\ lines[j].indent = 6 => InBlock(j)
              /\ lines[j].indent = 4 /\ lines[j].key # "shell" =>
                    \E i \in 1..(j - 1) :
                        /\ lines[i].dash
                        /\ \A k \in i..j : Blank(k) \/ KeyColumn(lines[k]) >= 4
              /\ lines[j].key = "run" /\ ~lines[j].dash /\ ~InBlock(j) =>
                    ~\E i \in 1..(j - 1) :
                        /\ lines[i].key = "run" /\ KeyColumn(lines[i]) = KeyColumn(lines[j])
                        /\ \A k \in (i + 1)..(j - 1) :
                              Blank(k) \/ (KeyColumn(lines[k]) >= KeyColumn(lines[j]) /\ ~lines[k].dash)

Doc(readable, on, secrets) == [readable |-> readable, on |-> on, secrets |-> secrets]
Docs == {Doc(FALSE, <<>>, <<>>), Doc(TRUE, <<>>, <<"TOKEN">>),
         Doc(TRUE, <<{"pull_request_target"}>>, <<"token", "KEY">>),
         Doc(TRUE, <<{"push"}, {"pull_request_target"}>>, <<"KEY", "TOKEN", "token">>)}

SmallWorkflows ==
    {[lines |-> lines, docs |-> <<>>] : lines \in {ls \in BoundedSeq(WorkflowLines, 5) : WellFormed(ls)}}
    \cup {[lines |-> <<>>, docs |-> docs] : docs \in BoundedSeq(Docs, 3)}

SmallUpperCase == "token" :> "TOKEN"
=============================================================================
