------------------------------ MODULE Workflow ------------------------------
(***************************************************************************)
(* ParseCIConfig (internal/parser/ciparser.go), which the writers call for *)
(* every workflow file of an entry: extractRunLines finds the shell lines  *)
(* by their indentation, each is judged, then the YAML documents are       *)
(* decoded twice, for the trigger and for the names of secrets.            *)
(***************************************************************************)
EXTENDS Shell, FiniteSets, SequencesExt, TLC

CONSTANTS
    Workflows,      \* workflow files: their lines and their YAML documents
    UpperCase       \* word -> the same in upper case, if that is another word

File ==
    [lines : Seq([indent : Nat, dash : BOOLEAN, key : STRING, style : STRING, words : Seq(STRING)]),
     docs : Seq([readable : BOOLEAN, on : Seq(SUBSET STRING), secrets : Seq(STRING)])]

ASSUME WorkflowsAssumption == Workflows \subseteq File

VARIABLES
    file,           \* the content
    step,           \* what ParseCIConfig is doing
    next,           \* the loop's next line or document
    inBlock, blockIndent,
    result,         \* what extractRunLines returns, with the numbers of the lines
    ci,             \* the features
    namesByKey

blockVars == <<inBlock, blockIndent>>
workflowVars == <<file, step, next, blockVars, result, ci, namesByKey>>

-----------------------------------------------------------------------------
\* A line is [indent, dash, key, style, words]: its indentation, whether an
\* item's "- " follows, its key or "", how the value is written ("plain", an
\* indicator of a block, or "empty"), and the words of a value or of a block.
\* A document is [readable, on, secrets]: whether it decodes, the events of
\* each of its "on" keys, and the secrets it names, in order.

Steps == {"lines", "commands", "trigger", "secrets", "done", "idle"}

NoCIFeatures == [flags |-> {}, SecretNames |-> {}]

\* A writer calls ParseCIConfig, or has no workflow.
WorkflowStart(content, at) ==
    /\ file = content
    /\ step = at
    /\ next = 1
    /\ inBlock = FALSE /\ blockIndent = 0
    /\ result = <<>>
    /\ ci = NoCIFeatures
    /\ namesByKey = <<>>

NoFile == [lines |-> <<>>, docs |-> <<>>]
NoWorkflow == WorkflowStart(NoFile, "idle")
WorkflowInit == \E content \in Workflows : WorkflowStart(content, "lines")

-----------------------------------------------------------------------------
\* extractRunLines.

YamlLine == file.lines[next]

IsEmpty(line) == line.key = "" /\ line.words = <<>>

\* What is taken for the start of a block; "|+", for one, is not.
BlockStyles == {"empty", "|", ">", "|-", ">-", "|2"}

InlineText(line) == IF line.style = "plain" THEN line.words ELSE <<line.style>>

\* A line of a block as it stands.
WholeText(line) ==
    (IF line.dash THEN <<"-">> ELSE <<>>)
    \o (IF line.key = "" THEN <<>> ELSE <<line.key>>) \o line.words

Extracting == step = "lines" /\ next \in DOMAIN file.lines

NextYamlLine == next' = next + 1 /\ UNCHANGED <<file, step, ci, namesByKey>>

Take(words) == result' = Append(result, [line |-> next, words |-> words])

\* Mutant of Inside: a line as far out as the key is still in its block.
InsideOrBeside(line) == line.indent >= blockIndent

Inside(line) == line.indent > blockIndent

SkipBlank ==
    /\ Extracting
    /\ inBlock /\ IsEmpty(YamlLine)
    /\ NextYamlLine
    /\ UNCHANGED <<blockVars, result>>

TakeBlockLine ==
    /\ Extracting
    /\ inBlock /\ ~IsEmpty(YamlLine) /\ Inside(YamlLine)
    /\ Take(WholeText(YamlLine))
    /\ NextYamlLine
    /\ UNCHANGED blockVars

\* Mutant of IsRun: the line that ends a block is not looked at.
IsRunOutside(line) == line.key = "run" /\ ~inBlock

IsRun(line) == line.key = "run"

\* A line outside of blocks, be it the one that ends a block.
Outside == Extracting /\ (inBlock => ~IsEmpty(YamlLine) /\ ~Inside(YamlLine))

SkipOther ==
    /\ Outside
    /\ ~IsRun(YamlLine)
    /\ inBlock' = FALSE
    /\ NextYamlLine
    /\ UNCHANGED <<blockIndent, result>>

OpenBlock ==
    /\ Outside
    /\ IsRun(YamlLine) /\ YamlLine.style \in BlockStyles
    /\ inBlock' = TRUE
    /\ blockIndent' = YamlLine.indent
    /\ NextYamlLine
    /\ UNCHANGED result

InlineRun ==
    /\ Outside
    /\ IsRun(YamlLine) /\ YamlLine.style \notin BlockStyles
    /\ inBlock' = FALSE
    /\ Take(InlineText(YamlLine))
    /\ NextYamlLine
    /\ UNCHANGED blockIndent

\* A loop is over and the next one starts.
GoTo(where) ==
    /\ step' = where
    /\ next' = 1
    /\ UNCHANGED <<file, blockVars, result>>

EndOfLines ==
    /\ step = "lines" /\ next \notin DOMAIN file.lines
    /\ GoTo("commands")
    /\ UNCHANGED <<ci, namesByKey>>

-----------------------------------------------------------------------------
\* ParseCIConfig.

NextItem == next' = next + 1 /\ UNCHANGED <<file, step, blockVars, result>>

WithCIFlags(more) == [ci EXCEPT !.flags = @ \cup more]

JudgeLine ==
    /\ step = "commands" /\ next \in DOMAIN result
    /\ LET line == result[next].words IN
          ci' = WithCIFlags(ShellFlags(line)
                          \cup {f \in {"UsesSudo"} : isSudo(line)}
                          \cup {f \in {"UsesPackagePublish"} : isPackagePublish(line)})
    /\ NextItem
    /\ UNCHANGED namesByKey

LinesJudged ==
    /\ step = "commands" /\ next \notin DOMAIN result
    /\ GoTo("trigger")
    /\ UNCHANGED <<ci, namesByKey>>

Document == file.docs[next]
Decoded == next \in DOMAIN file.docs /\ Document.readable

\* hasPullRequestTargetInDocument: the first "on" decides.
HasTrigger(doc) == doc.on # <<>> /\ "pull_request_target" \in Head(doc.on)

TriggerNotHere ==
    /\ step = "trigger" /\ Decoded /\ ~HasTrigger(Document)
    /\ NextItem
    /\ UNCHANGED <<ci, namesByKey>>

\* hasPullRequestTargetTrigger returns: found, end of the file, or an error.
TriggerKnown ==
    /\ step = "trigger" /\ (Decoded => HasTrigger(Document))
    /\ ci' = WithCIFlags({f \in {"UsesPullRequestTarget"} : Decoded})
    /\ GoTo("secrets")
    /\ UNCHANGED namesByKey

Upper(name) == IF name \in DOMAIN UpperCase THEN UpperCase[name] ELSE name

\* Mutant of Collected: every spelling of a name is kept.
CollectedBySpelling(doc) ==
    namesByKey @@ [name \in {doc.secrets[i] : i \in DOMAIN doc.secrets} |-> name]

\* collectSecretNames: the first spelling of a name is kept.
Collected(doc) ==
    LET Keys == {Upper(doc.secrets[i]) : i \in DOMAIN doc.secrets}
        First(key) == CHOOSE i \in DOMAIN doc.secrets :
                         /\ Upper(doc.secrets[i]) = key
                         /\ \A j \in 1..(i - 1) : Upper(doc.secrets[j]) # key
    IN  [key \in DOMAIN namesByKey \cup Keys |->
            IF key \in DOMAIN namesByKey THEN namesByKey[key] ELSE doc.secrets[First(key)]]

CollectSecretNames ==
    /\ step = "secrets" /\ Decoded
    /\ namesByKey' = Collected(Document)
    /\ NextItem
    /\ UNCHANGED ci

\* extractSecretNames returns, sorted by keys that all differ.
SecretsKnown ==
    /\ step = "secrets" /\ next \notin DOMAIN file.docs
    /\ ci' = [ci EXCEPT !.SecretNames = {namesByKey[key] : key \in DOMAIN namesByKey}]
    /\ GoTo("done")
    /\ UNCHANGED namesByKey

\* What other documents named is dropped.
SecretsUnknown ==
    /\ step = "secrets" /\ next \in DOMAIN file.docs /\ ~Document.readable
    /\ GoTo("done")
    /\ UNCHANGED <<ci, namesByKey>>

extractRunLines ==
    SkipBlank \/ TakeBlockLine \/ SkipOther \/ OpenBlock \/ InlineRun \/ EndOfLines

ParseCIConfig ==
    \/ extractRunLines
    \/ JudgeLine \/ LinesJudged
    \/ TriggerNotHere \/ TriggerKnown
    \/ CollectSecretNames \/ SecretsKnown \/ SecretsUnknown

WorkflowSpec == WorkflowInit /\ [][ParseCIConfig]_workflowVars

CIFlags == LineFlags \cup {"UsesSudo", "UsesPackagePublish", "UsesPullRequestTarget"}

WordsOfFile ==
    {"-"} \cup UNION {ToSet(file.lines[n].words) \cup {file.lines[n].key, file.lines[n].style} :
                         n \in DOMAIN file.lines}

SecretsOfFile == UNION {ToSet(file.docs[n].secrets) : n \in DOMAIN file.docs}

WorkflowTypeOK ==
    /\ file \in File
    /\ step \in Steps
    /\ next \in Nat \ {0}
    /\ step = "lines" => next <= Len(file.lines) + 1
    /\ step = "commands" => next <= Len(result) + 1
    /\ step \in {"trigger", "secrets"} => next <= Len(file.docs) + 1
    /\ inBlock \in BOOLEAN /\ blockIndent \in Nat
    /\ result \in Seq([line : DOMAIN file.lines, words : Seq(WordsOfFile)])
    /\ DOMAIN ci = DOMAIN NoCIFeatures
    /\ ci.flags \subseteq CIFlags /\ ci.SecretNames \subseteq SecretsOfFile
    /\ \A key \in DOMAIN namesByKey : namesByKey[key] \in SecretsOfFile

-----------------------------------------------------------------------------
\* What the lines mean as YAML.

\* An item's "- " belongs to the indentation of its first key.
KeyColumn(line) == line.indent + (IF line.dash THEN 2 ELSE 0)

\* The lines of the block that the key of line i opens.
BlockOf(i) ==
    {j \in (i + 1)..Len(file.lines) :
        /\ ~IsEmpty(file.lines[j])
        /\ \A k \in (i + 1)..j :
              IsEmpty(file.lines[k]) \/ file.lines[k].indent > KeyColumn(file.lines[i])}

YamlBlocks == {"|", ">", "|-", ">-", "|2", "|+", ">+"}

\* The run fields; text in a block is none, whatever it looks like.
RunFields ==
    LET Runs == {i \in DOMAIN file.lines : file.lines[i].key = "run"}
    IN  {i \in Runs : \A h \in Runs : file.lines[h].style \in YamlBlocks => i \notin BlockOf(h)}

\* The lines with the shell text of the fields written in these styles.
ShellLines(styles) ==
    {i \in RunFields : file.lines[i].style = "plain"}
    \cup UNION {BlockOf(i) : i \in {h \in RunFields : file.lines[h].style \in styles}}

TakenLines == {result[n].line : n \in DOMAIN result}

\* Every shell line of every step is found, whatever ended the block before it
\* (ciparser.go lines 48-86), in the styles the code knows.
ShellLinesAreTaken ==
    step \in {"commands", "done"} => ShellLines(YamlBlocks \cap BlockStyles) \subseteq TakenLines

\* A line is taken only with a run field of its own step: between the two no
\* line is as far out as the field's line (lines 52-58).
TakenInOwnStep ==
    \A n \in TakenLines :
        \E i \in 1..n :
            /\ file.lines[i].key = "run"
            /\ \A k \in (i + 1)..n :
                  IsEmpty(file.lines[k]) \/ file.lines[k].indent > file.lines[i].indent

\* One unreadable document costs the names of all secrets, and hides the
\* trigger only if it comes first; no name is reported in two spellings (lines
\* 133-151 and 212-275).
DocumentsAreRead ==
    step = "done" =>
        LET docs == file.docs
            Readable(n) == \A i \in 1..n : docs[i].readable
        IN  /\ "UsesPullRequestTarget" \in ci.flags
                 <=> \E n \in DOMAIN docs : Readable(n) /\ HasTrigger(docs[n])
            /\ {Upper(name) : name \in ci.SecretNames} =
                 IF ~Readable(Len(docs)) THEN {}
                 ELSE UNION {{Upper(docs[n].secrets[i]) : i \in DOMAIN docs[n].secrets} :
                               n \in DOMAIN docs}
            /\ \A a, b \in ci.SecretNames : Upper(a) = Upper(b) => a = b

-----------------------------------------------------------------------------
\* "This prevents false positives from step `name:` fields" (ciparser.go lines
\* 35-36): the name of a step is not taken for a shell line.
NamesAreNotCommands ==
    \A n \in TakenLines : file.lines[n].key = "name" => n \in ShellLines(YamlBlocks)
=============================================================================
