----------------------------- MODULE Dockerfile -----------------------------
(***************************************************************************)
(* ParseDockerfile (internal/parser/dockerfileparser.go), which the        *)
(* writers call for every Dockerfile of an entry: lines are joined into    *)
(* instructions (parseDockerInstructions), then the instructions are read  *)
(* in order.  A line is a sequence of words and a mark that it ends in a   *)
(* backslash; letter case matters for the names of stages only.  Quotes    *)
(* around values are left out.                                             *)
(***************************************************************************)
EXTENDS Shell, FiniteSets, SequencesExt, TLC

CONSTANTS
    Texts,          \* the texts of Dockerfiles
    Reference,      \* word -> the ARG it refers to, for words like $BASE
    Assignment,     \* word -> the ARG it sets and the value, for words like BASE=node
    Image,          \* word -> its name, tag and digest, if it is more than a name
    LowerCase       \* word -> the same in lower case, if that is another word

TextLine == [words : Seq(STRING), continues : BOOLEAN]

ASSUME TextsAssumption == Texts \subseteq Seq(TextLine)
ASSUME ReferenceAssumption == DOMAIN Reference \cap DOMAIN Image = {}

VARIABLES
    text,           \* the content
    phase,          \* what ParseDockerfile is doing
    pos,            \* the loop's next line, or next instruction
    current,        \* the words of an instruction that goes on
    instructions,
    globalArgs, knownAliases, seenFrom,
    features, stages

scanVars == <<current, instructions>>
argVars == <<globalArgs, knownAliases, seenFrom>>
resultVars == <<features, stages>>
dockerVars == <<text, phase, pos, scanVars, argVars, resultVars>>

-----------------------------------------------------------------------------
Phases == {"scan", "parse", "done", "idle"}

NoFeatures == [BaseImage |-> "", BaseTag |-> "", flags |-> {}]

\* A writer calls ParseDockerfile, or has no Dockerfile.
DockerfileStart(content, at) ==
    /\ text = content
    /\ phase = at
    /\ pos = 1
    /\ current = <<>> /\ instructions = <<>>
    /\ globalArgs = <<>> /\ knownAliases = {} /\ seenFrom = FALSE
    /\ features = NoFeatures /\ stages = <<>>

NoDockerfile == DockerfileStart(<<>>, "idle")
DockerfileInit == \E content \in Texts : DockerfileStart(content, "scan")

Lower(word) == IF word \in DOMAIN LowerCase THEN LowerCase[word] ELSE word

-----------------------------------------------------------------------------
\* parseDockerInstructions.

Line == text[pos]

IsComment(line) == line.words # <<>> /\ Head(line.words) = "#"
IsBlank(line) == line.words = <<>> /\ ~line.continues

Scanning == phase = "scan" /\ pos \in DOMAIN text

NextLine == pos' = pos + 1 /\ UNCHANGED <<text, phase, argVars, resultVars>>

\* Mutant of Ignored: a backslash makes a comment go on.
IgnoredUnlessContinued(line) == IsBlank(line) \/ (IsComment(line) /\ ~line.continues)

\* Comments and blank lines are ignored, but between instructions only.
Ignored(line) == IsBlank(line) \/ IsComment(line)

SkipLine ==
    /\ Scanning
    /\ current = <<>> /\ Ignored(Line)
    /\ NextLine
    /\ UNCHANGED scanVars

Taken == Scanning /\ ~(current = <<>> /\ Ignored(Line))

ContinueInstruction ==
    /\ Taken
    /\ Line.continues
    /\ current' = current \o Line.words
    /\ NextLine
    /\ UNCHANGED instructions

\* flushCurrent
Flushed(words) ==
    IF words = <<>> THEN instructions
    ELSE Append(instructions, [keyword |-> Head(words), value |-> Tail(words)])

EndInstruction ==
    /\ Taken
    /\ ~Line.continues
    /\ instructions' = Flushed(current \o Line.words)
    /\ current' = <<>>
    /\ NextLine

\* Mutant of EndOfText: the second loop starts where the first one ended.
EndOfTextOnly ==
    /\ phase = "scan" /\ pos \notin DOMAIN text
    /\ instructions' = Flushed(current)
    /\ current' = <<>>
    /\ phase' = "parse"
    /\ UNCHANGED <<text, pos, argVars, resultVars>>

EndOfText ==
    /\ phase = "scan" /\ pos \notin DOMAIN text
    /\ instructions' = Flushed(current)
    /\ current' = <<>>
    /\ phase' = "parse"
    /\ pos' = 1
    /\ UNCHANGED <<text, argVars, resultVars>>

-----------------------------------------------------------------------------
\* ParseDockerfile reads the instructions.

Value == instructions[pos].value

Reading(keywords) ==
    /\ phase = "parse"
    /\ pos \in DOMAIN instructions
    /\ instructions[pos].keyword \in keywords

NextInstruction == pos' = pos + 1 /\ UNCHANGED <<text, phase, scanVars>>

WithFlags(more) == [features EXCEPT !.flags = @ \cup more]

SecretWords == {"PASSWORD=x", "API_TOKEN", "secret"}
HasSecret(value) == {f \in {"HasSecretsInEnvOrArg"} : Has(value, SecretWords)}

\* A reference nobody set stays what it is.
Resolvable(word) == word \in DOMAIN Reference => Reference[word] \in DOMAIN globalArgs

resolveArgReferences(word) ==
    IF word \in DOMAIN Reference /\ Resolvable(word) THEN globalArgs[Reference[word]] ELSE word

\* Only an ARG before the first FROM that has a default is of use to a FROM.
ArgsAfter(word) ==
    IF seenFrom \/ word \notin DOMAIN Assignment THEN globalArgs
    ELSE LET arg == Assignment[word] IN
         [name \in DOMAIN globalArgs \cup {arg.name} |->
             IF name = arg.name THEN resolveArgReferences(arg.value) ELSE globalArgs[name]]

Arg ==
    /\ Reading({"arg"})
    /\ features' = WithFlags(HasSecret(Value))
    /\ globalArgs' = IF Value = <<>> THEN globalArgs ELSE ArgsAfter(Head(Value))
    /\ NextInstruction
    /\ UNCHANGED <<knownAliases, seenFrom, stages>>

splitDockerImageReference(ref) ==
    IF ref \notin DOMAIN Image
    THEN [BaseImage |-> ref, BaseTag |-> IF ref = "" THEN "" ELSE "latest"]
    ELSE LET i == Image[ref] IN
         [BaseImage |-> i.name,
          BaseTag |-> IF i.digest = "" THEN i.tag
                      ELSE IF i.tag = "" THEN i.digest ELSE i.tag \o "@" \o i.digest]

Options == {"--platform"}

\* parseFromInstruction: the place of the image, 0 if there is none, and the
\* name the stage gets, if any.
ImageAt(value) ==
    IF \A k \in DOMAIN value : value[k] \in Options THEN 0
    ELSE CHOOSE k \in DOMAIN value :
            value[k] \notin Options /\ \A j \in 1..(k - 1) : value[j] \in Options

Alias(value) ==
    LET k == ImageAt(value) IN
    IF k # 0 /\ k + 2 \in DOMAIN value /\ value[k + 1] = "as" THEN {Lower(value[k + 2])} ELSE {}

\* Mutant of IsAlias: the stage's own name is known already.
IsAliasOrOwn(word) == Lower(resolveArgReferences(word)) \in knownAliases \cup Alias(Value)

IsAlias(word) == Lower(resolveArgReferences(word)) \in knownAliases

\* A reference without a value keeps its text and has no tag.
Base(word) ==
    IF Resolvable(word) THEN splitDockerImageReference(resolveArgReferences(word))
    ELSE [BaseImage |-> word, BaseTag |-> ""]

\* Mutant of AddStage: every stage's image becomes the file's.
AddStageAsBase(base) ==
    /\ stages' = Append(stages, [StageIndex |-> Len(stages), BaseImage |-> base.BaseImage,
                                 BaseTag |-> base.BaseTag])
    /\ features' = [WithFlags({f \in {"UsesLatestTag"} : base.BaseTag = "latest"})
                       EXCEPT !.BaseImage = base.BaseImage, !.BaseTag = base.BaseTag]

\* A stage built from an image that is no earlier stage.
AddStage(base) ==
    LET seen == WithFlags({f \in {"UsesLatestTag"} : base.BaseTag = "latest"}) IN
    /\ stages' = Append(stages, [StageIndex |-> Len(stages), BaseImage |-> base.BaseImage,
                                 BaseTag |-> base.BaseTag])
    /\ features' = IF features.BaseImage # "" THEN seen
                   ELSE [seen EXCEPT !.BaseImage = base.BaseImage, !.BaseTag = base.BaseTag]

From ==
    /\ Reading({"from"})
    /\ seenFrom' = TRUE
    /\ LET k == ImageAt(Value) IN
          IF k = 0 \/ IsAlias(Value[k]) \/ Base(Value[k]).BaseImage = ""
          THEN UNCHANGED resultVars ELSE AddStage(Base(Value[k]))
    /\ knownAliases' = knownAliases \cup Alias(Value)
    /\ NextInstruction
    /\ UNCHANGED globalArgs

-----------------------------------------------------------------------------
\* The instructions that only set flags.

KeywordFlag == [user |-> "HasUserInstruction", label |-> "HasLabelMetadata",
                expose |-> "HasExpose", entrypoint |-> "HasEntrypointOrCmd",
                cmd |-> "HasEntrypointOrCmd", healthcheck |-> "HasHealthcheck"]

SensitiveWords == {".ssh", "id_rsa", "secrets"}

\* Words that set a flag wherever they stand in a RUN.
RunWords == [HasPackageInstalls |-> {"apt-get install", "apk add", "yum install", "dnf install"},
             InstallsCurlOrWget |-> {"curl", "wget"},
             InstallsBuildTools |-> {"gcc", "make", "build-essential"},
             HasAptGetClean |-> {"apt-get clean"},
             WorldWritable |-> {"chmod 777"}]

Flags(keyword, value) ==
    CASE keyword \in DOMAIN KeywordFlag -> {KeywordFlag[keyword]}
      [] keyword \in {"copy", "add"} ->
            {f \in {"UsesAddInstruction"} : keyword = "add"}
            \cup {f \in {"HasCopySensitive"} : Has(value, SensitiveWords)}
      [] keyword = "run" ->
            {f \in DOMAIN RunWords : Has(value, RunWords[f])} \cup ShellFlags(value)
      [] keyword = "env" -> HasSecret(value)
      [] OTHER -> {}

OtherInstruction ==
    /\ phase = "parse"
    /\ pos \in DOMAIN instructions
    /\ instructions[pos].keyword \notin {"arg", "from"}
    /\ features' = WithFlags(Flags(instructions[pos].keyword, Value))
    /\ NextInstruction
    /\ UNCHANGED <<argVars, stages>>

Return ==
    /\ phase = "parse" /\ pos \notin DOMAIN instructions
    /\ features' = WithFlags({f \in {"UsesMultistage"} : Len(stages) > 1})
    /\ phase' = "done"
    /\ UNCHANGED <<text, pos, scanVars, argVars, stages>>

ParseDockerfile ==
    \/ SkipLine \/ ContinueInstruction \/ EndInstruction \/ EndOfText
    \/ Arg \/ From \/ OtherInstruction \/ Return

DockerfileSpec == DockerfileInit /\ [][ParseDockerfile]_dockerVars

\* The flags a file can get.
DockerFlags ==
    {"HasSecretsInEnvOrArg", "UsesLatestTag", "UsesMultistage",
     "UsesAddInstruction", "HasCopySensitive"}
    \cup {KeywordFlag[keyword] : keyword \in DOMAIN KeywordFlag}
    \cup DOMAIN RunWords \cup LineFlags

WordsOfText == UNION {ToSet(text[i].words) : i \in DOMAIN text}

DockerTypeOK ==
    /\ text \in Seq(TextLine)
    /\ phase \in Phases
    /\ pos \in 1..(Len(IF phase = "scan" THEN text ELSE instructions) + 1)
    /\ current \in Seq(WordsOfText)
    /\ instructions \in Seq([keyword : WordsOfText, value : Seq(WordsOfText)])
    /\ DOMAIN globalArgs \subseteq {Assignment[word].name : word \in DOMAIN Assignment}
    /\ knownAliases \subseteq {Lower(word) : word \in WordsOfText}
    /\ seenFrom \in BOOLEAN
    /\ DOMAIN features = DOMAIN NoFeatures /\ features.flags \subseteq DockerFlags

-----------------------------------------------------------------------------
\* What the text means, without a loop over it.

Skipped(line) == IsBlank(line) \/ IsComment(line)

\* No comment and no blank line follows a line that goes on.
Uninterrupted ==
    \A i \in 2..Len(text) :
        Skipped(text[i]) => ~text[i - 1].continues \/ IsComment(text[i - 1])

\* Comments and blank lines are dropped, what remains is joined.
Kept == {i \in DOMAIN text : ~Skipped(text[i])}
KeptBefore(i) == {j \in Kept : j < i}
JoinsLineBefore(i) == KeptBefore(i) # {} /\ text[Max(KeptBefore(i))].continues

\* The words of an instruction up to its line i.
WordsTo[i \in Kept] ==
    IF JoinsLineBefore(i) THEN WordsTo[Max(KeptBefore(i))] \o text[i].words ELSE text[i].words

\* The last lines of the instructions that have words.
LastLines ==
    {i \in Kept : /\ text[i].continues => \A j \in Kept : j <= i
                  /\ WordsTo[i] # <<>>}

Is(i, keyword) == instructions[i].keyword = keyword
FirstWord(i) == Head(instructions[i].value)

\* The ARGs a FROM can refer to.
GlobalArgs ==
    {i \in DOMAIN instructions :
        /\ Is(i, "arg") /\ instructions[i].value # <<>> /\ FirstWord(i) \in DOMAIN Assignment
        /\ \A j \in 1..i : ~Is(j, "from")}

\* The last of them before instruction i that sets this name, or 0.
LastSetter(name, i) ==
    LET Setters == {j \in GlobalArgs : j < i /\ Assignment[FirstWord(j)].name = name}
    IN  IF Setters = {} THEN 0 ELSE Max(Setters)

\* What ARG i sets, and what a word stands for at instruction i.
ArgValue[i \in GlobalArgs] ==
    LET word == Assignment[FirstWord(i)].value
        setter == IF word \in DOMAIN Reference THEN LastSetter(Reference[word], i) ELSE 0
    IN  IF setter = 0 THEN word ELSE ArgValue[setter]

Meaning(word, i) ==
    LET setter == IF word \in DOMAIN Reference THEN LastSetter(Reference[word], i) ELSE 0
    IN  IF setter = 0 THEN word ELSE ArgValue[setter]

ImageOf(i) == Meaning(instructions[i].value[ImageAt(instructions[i].value)], i)

NameOf(word) == IF word \in DOMAIN Image THEN Image[word].name ELSE word

\* The FROMs whose image is no stage before them.
ExternalFroms ==
    LET Froms == {i \in DOMAIN instructions : Is(i, "from") /\ ImageAt(instructions[i].value) # 0}
    IN  {i \in Froms : /\ NameOf(ImageOf(i)) # ""
                       /\ \A j \in Froms : j < i =>
                             Lower(ImageOf(i)) \notin Alias(instructions[j].value)}

\* Instructions are what Docker reads, however comments, blank lines and
\* continued lines follow each other, unless one of the former interrupts one
\* of the latter (dockerfileparser.go lines 208-228).
JoinedAsDocker ==
    phase \in {"parse", "done"} /\ Uninterrupted =>
        /\ Len(instructions) = Cardinality(LastLines)
        /\ \A i \in LastLines :
              LET n == Cardinality({j \in LastLines : j <= i}) IN
              instructions[n] = [keyword |-> Head(WordsTo[i]), value |-> Tail(WordsTo[i])]

\* The stages are the FROMs with an image from outside, in order and under the
\* value their ARG has there: a stage's name is known after its own FROM only
\* and an ARG counts before the first FROM only (lines 72-110 and 232-279).
StagesAreExternal ==
    phase = "done" =>
        /\ Len(stages) = Cardinality(ExternalFroms)
        /\ \A i \in ExternalFroms :
              LET n == Cardinality({j \in ExternalFroms : j <= i}) IN
              stages[n].BaseImage = NameOf(ImageOf(i))

\* The summary of a file agrees with its stages: the first one's image and tag
\* are the file's, "latest" is reported when a stage is built from it, and
\* several stages make it a multistage build (lines 93-110 and 178).
SummaryMatchesStages ==
    /\ stages = <<>> => features.BaseImage = "" /\ features.BaseTag = ""
    /\ stages # <<>> => /\ features.BaseImage = stages[1].BaseImage
                        /\ features.BaseTag = stages[1].BaseTag
    /\ "UsesLatestTag" \in features.flags <=> \E n \in DOMAIN stages : stages[n].BaseTag = "latest"
    /\ phase = "done" => ("UsesMultistage" \in features.flags <=> Len(stages) > 1)
=============================================================================
