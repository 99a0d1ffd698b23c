-------------------------- MODULE Dockerfile_proofs --------------------------
(***************************************************************************)
(* Proofs about ParseDockerfile, for any texts, ARGs, images and names.    *)
(* The instructions are related to the lines read so far, the known ARGs   *)
(* and names to the instructions read so far, the stages to both. What the *)
(* recursive definitions ArgValue and WordsTo compute is not taken for     *)
(* granted: that such functions exist follows from their going back to     *)
(* earlier instructions and lines only.                                    *)
(***************************************************************************)
EXTENDS Dockerfile, SequenceTheorems, FiniteSetTheorems, WellFoundedInduction, TLAPS

-----------------------------------------------------------------------------
\* A set of numbers that is not empty has a least one.
LEMMA Least == ASSUME NEW S \in SUBSET Nat, S # {} PROVE \E n \in S : \A k \in S : n <= k
<1>1. PICK n \in S : \A k \in S : <<k, n>> \notin OpToRel(<, Nat)
  BY NatLessThanWellFounded, WFMin
<1>2. \A k \in S : ~(k < n)
  BY <1>1 DEF OpToRel
<1> QED BY <1>2

\* A sequence of words is one over any set that has them all.
LEMMA SeqOver ==
    ASSUME NEW A, NEW B, NEW s \in Seq(A), \A k \in DOMAIN s : s[k] \in B
    PROVE  s \in Seq(B)
<1>1. s \in [1..Len(s) -> B] /\ Len(s) \in Nat
  BY LenProperties
<1> QED BY <1>1, SeqDef

\* The words of a line are words of the text.
LEMMA WordsAreOfText ==
    ASSUME text \in Seq(TextLine), NEW i \in DOMAIN text
    PROVE  text[i].words \in Seq(WordsOfText)
<1>0. text[i] \in TextLine
  OBVIOUS
<1>1. text[i].words \in Seq(STRING)
  BY <1>0 DEF TextLine
<1>2. \A k \in DOMAIN text[i].words : text[i].words[k] \in WordsOfText
  BY DEF WordsOfText, ToSet
<1> QED BY <1>1, <1>2, SeqOver

\* A shell line gets flags of shell lines only.
LEMMA LineFlagsOnly == ASSUME NEW line PROVE ShellFlags(line) \subseteq LineFlags
BY DEF ShellFlags, LineFlags

\* An instruction gets flags that a file can get only.
LEMMA FlagsOnly == ASSUME NEW keyword, NEW value PROVE Flags(keyword, value) \subseteq DockerFlags
<1>1. HasSecret(value) \subseteq DockerFlags
  BY DEF HasSecret, DockerFlags
<1>0. \A word \in {"copy", "add", "run", "env"} : word \notin DOMAIN KeywordFlag
  BY DEF KeywordFlag
<1>2. CASE keyword \in DOMAIN KeywordFlag
  <2>1. Flags(keyword, value) = {KeywordFlag[keyword]}
    BY <1>0, <1>2 DEF Flags
  <2> QED BY <1>2, <2>1 DEF DockerFlags
<1>3. CASE keyword \notin DOMAIN KeywordFlag
  <2>2. CASE keyword \in {"copy", "add"}
    BY <1>3, <2>2 DEF Flags, DockerFlags
  <2>3. CASE keyword = "run"
    BY <1>3, <2>3, LineFlagsOnly DEF Flags, DockerFlags
  <2>4. CASE keyword = "env"
    BY <1>1, <1>3, <2>4 DEF Flags
  <2>5. CASE keyword \notin {"copy", "add", "run", "env"}
    BY <1>3, <2>5 DEF Flags
  <2> QED BY <2>2, <2>3, <2>4, <2>5
<1> QED BY <1>2, <1>3

\* No words, no places of words.
LEMMA NoWords == DOMAIN <<>> = {}
OBVIOUS

\* The types hold when the writer calls the parser and when it has no Dockerfile.
LEMMA DockerTypeInit == DockerfileInit \/ NoDockerfile => DockerTypeOK
<1>1. ASSUME NEW content \in Seq(TextLine), NEW at \in {"scan", "idle"},
             DockerfileStart(content, at), at = "idle" => content = <<>>
      PROVE  DockerTypeOK
  <2>1. text = content /\ phase = at /\ pos = 1 /\ current = <<>> /\ instructions = <<>>
        /\ globalArgs = <<>> /\ knownAliases = {} /\ seenFrom = FALSE /\ features = NoFeatures
    BY <1>1 DEF DockerfileStart
  <2>2. DOMAIN globalArgs = {}
    BY <2>1, NoWords
  <2>3. features.flags = {}
    BY <2>1 DEF NoFeatures
  <2>4. phase \in Phases
    BY <2>1 DEF Phases
  <2>5. pos \in 1..(Len(IF phase = "scan" THEN text ELSE instructions) + 1)
    BY <2>1
  <2>6. current \in Seq(WordsOfText)
        /\ instructions \in Seq([keyword : WordsOfText, value : Seq(WordsOfText)])
    BY <2>1
  <2> QED BY <2>1, <2>2, <2>3, <2>4, <2>5, <2>6 DEF DockerTypeOK
<1>2. ASSUME DockerfileInit PROVE DockerTypeOK
  BY <1>1, <1>2, TextsAssumption DEF DockerfileInit
<1>3. ASSUME NoDockerfile PROVE DockerTypeOK
  <2>1. <<>> \in Seq(TextLine)
    OBVIOUS
  <2>2. DockerfileStart(<<>>, "idle")
    BY <1>3 DEF NoDockerfile
  <2> QED BY <1>1, <2>1, <2>2
<1> QED BY <1>2, <1>3

\* An instruction is made of the words gathered for it.
LEMMA FlushedType ==
    ASSUME NEW W, NEW words \in Seq(W),
           instructions \in Seq([keyword : W, value : Seq(W)])
    PROVE  Flushed(words) \in Seq([keyword : W, value : Seq(W)])
<1> DEFINE Instruction == [keyword : W, value : Seq(W)]
           last == [keyword |-> Head(words), value |-> Tail(words)]
<1>1. CASE words = <<>>
  BY <1>1 DEF Flushed
<1>2. CASE words # <<>>
  <2>1. Head(words) \in W /\ Tail(words) \in Seq(W)
    BY <1>2
  <2>2. last \in Instruction
    BY <2>1
  <2>3. Flushed(words) = Append(instructions, last)
    BY <1>2 DEF Flushed
  <2> HIDE DEF Instruction, last
  <2>4. Append(instructions, last) \in Seq(Instruction)
    BY <2>2 DEF Instruction
  <2> QED BY <2>3, <2>4 DEF Instruction
<1> QED BY <1>1, <1>2

\* The name that a FROM gives its stage is made of a word of the instruction.
LEMMA AliasOfWord ==
    ASSUME NEW W, NEW words \in Seq(W)
    PROVE  Alias(words) \subseteq {Lower(word) : word \in W}
<1>1. \A k \in DOMAIN words : words[k] \in W
  OBVIOUS
<1> QED BY <1>1 DEF Alias

\* Flags that a file may get keep the type of the features.
LEMMA MoreFlags ==
    ASSUME NEW more, DOMAIN features = {"BaseImage", "BaseTag", "flags"}
    PROVE  /\ DOMAIN WithFlags(more) = {"BaseImage", "BaseTag", "flags"}
           /\ WithFlags(more).flags = features.flags \cup more
           /\ WithFlags(more).BaseImage = features.BaseImage
           /\ WithFlags(more).BaseTag = features.BaseTag
<1> DEFINE new == [features EXCEPT !.flags = features.flags \cup more]
<1>1. WithFlags(more) = new
  BY DEF WithFlags
<1>2. DOMAIN new = {"BaseImage", "BaseTag", "flags"}
  OBVIOUS
<1>3. new.flags = features.flags \cup more
  OBVIOUS
<1>4. new.BaseImage = features.BaseImage /\ new.BaseTag = features.BaseTag
  OBVIOUS
<1> HIDE DEF new
<1> QED BY <1>1, <1>2, <1>3, <1>4

\* So does the image of the first stage.
LEMMA ImageAdded ==
    ASSUME NEW old, NEW base, DOMAIN old = {"BaseImage", "BaseTag", "flags"}
    PROVE  LET new == [old EXCEPT !.BaseImage = base.BaseImage, !.BaseTag = base.BaseTag] IN
           /\ DOMAIN new = {"BaseImage", "BaseTag", "flags"}
           /\ new.flags = old.flags /\ new.BaseImage = base.BaseImage /\ new.BaseTag = base.BaseTag
OBVIOUS

\* Every turn of the two loops keeps the types.
LEMMA DockerTypeStep == DockerTypeOK /\ [ParseDockerfile]_dockerVars => DockerTypeOK'
<1> SUFFICES ASSUME DockerTypeOK, [ParseDockerfile]_dockerVars PROVE DockerTypeOK'
  OBVIOUS
<1> DEFINE W == WordsOfText
           Instruction == [keyword : W, value : Seq(W)]
           ArgNames == {Assignment[word].name : word \in DOMAIN Assignment}
           StageNames == {Lower(word) : word \in W}
           Fields == {"BaseImage", "BaseTag", "flags"}
<1>0. /\ text \in Seq(TextLine) /\ phase \in Phases
      /\ pos \in 1..(Len(IF phase = "scan" THEN text ELSE instructions) + 1)
      /\ current \in Seq(W) /\ instructions \in Seq(Instruction)
      /\ DOMAIN globalArgs \subseteq ArgNames /\ knownAliases \subseteq StageNames
      /\ seenFrom \in BOOLEAN /\ DOMAIN features = Fields /\ features.flags \subseteq DockerFlags
  BY DEF DockerTypeOK, NoFeatures
<1>1. text' = text
  BY DEF ParseDockerfile, SkipLine, ContinueInstruction, EndInstruction, EndOfText, Arg, From,
         OtherInstruction, Return, NextLine, NextInstruction, dockerVars
<1>2. WordsOfText' = W
  BY <1>1 DEF WordsOfText
<1> HIDE DEF W, ArgNames, StageNames
<1>3. ASSUME phase' \in Phases,
             pos' \in 1..(Len(IF phase' = "scan" THEN text ELSE instructions') + 1),
             current' \in Seq(W), instructions' \in Seq(Instruction),
             DOMAIN globalArgs' \subseteq ArgNames, knownAliases' \subseteq StageNames,
             seenFrom' \in BOOLEAN,
             DOMAIN features' = Fields, features'.flags \subseteq DockerFlags
      PROVE  DockerTypeOK'
  BY <1>0, <1>1, <1>2, <1>3 DEF DockerTypeOK, NoFeatures, W, ArgNames, StageNames
<1>4. CASE SkipLine \/ ContinueInstruction \/ EndInstruction
  <2>1. /\ phase = "scan" /\ pos \in DOMAIN text /\ pos' = pos + 1
        /\ UNCHANGED <<phase, argVars, resultVars>>
    BY <1>4 DEF SkipLine, ContinueInstruction, EndInstruction, Taken, Scanning, NextLine
  <2>2. text[pos].words \in Seq(W)
    BY <1>0, <2>1, WordsAreOfText DEF W
  <2>3. pos' \in 1..(Len(IF phase' = "scan" THEN text ELSE instructions') + 1)
    BY <1>0, <2>1
  <2>4. current \o Line.words \in Seq(W) /\ <<>> \in Seq(W)
    BY <1>0, <2>2 DEF Line
  <2>5. current' \in Seq(W) /\ instructions' \in Seq(Instruction)
    <3>1. CASE SkipLine
      BY <1>0, <3>1 DEF SkipLine, scanVars
    <3>2. CASE ContinueInstruction
      BY <1>0, <2>4, <3>2 DEF ContinueInstruction
    <3>3. CASE EndInstruction
      <4> DEFINE words == current \o Line.words
      <4> HIDE DEF words
      <4>1. Flushed(words) \in Seq(Instruction)
        BY <1>0, <2>4, FlushedType DEF words
      <4> QED BY <2>4, <3>3, <4>1 DEF EndInstruction, words
    <3> QED BY <1>4, <3>1, <3>2, <3>3
  <2> QED BY <1>0, <1>3, <2>1, <2>3, <2>5 DEF argVars, resultVars
<1>5. CASE EndOfText
  <2>1. instructions' \in Seq(Instruction)
    BY <1>0, <1>5, FlushedType DEF EndOfText
  <2> HIDE DEF Instruction
  <2>2. phase' = "parse" /\ pos' = 1 /\ current' = <<>> /\ UNCHANGED <<argVars, resultVars>>
    BY <1>5 DEF EndOfText
  <2>3. phase' \in Phases /\ pos' \in 1..(Len(IF phase' = "scan" THEN text ELSE instructions') + 1)
    BY <2>1, <2>2 DEF Phases
  <2>4. current' \in Seq(W)
    BY <2>2
  <2> QED BY <1>0, <1>3, <2>1, <2>2, <2>3, <2>4 DEF argVars, resultVars, Instruction
<1>6. CASE Arg \/ From \/ OtherInstruction
  <2>1. /\ phase = "parse" /\ pos \in DOMAIN instructions /\ pos' = pos + 1
        /\ UNCHANGED <<phase, current, instructions>>
    BY <1>6 DEF Arg, From, OtherInstruction, Reading, NextInstruction, scanVars
  <2>2. Value \in Seq(W)
    <3>1. \A s \in Seq(Instruction) : \A k \in DOMAIN s : s[k] \in Instruction
      <4> HIDE DEF Instruction
      <4> QED OBVIOUS
    <3>2. instructions[pos] \in Instruction
      BY <1>0, <2>1, <3>1
    <3> QED BY <3>2 DEF Value
  <2>3. pos' \in 1..(Len(IF phase' = "scan" THEN text ELSE instructions') + 1)
    BY <1>0, <2>1
  <2>4. DOMAIN globalArgs' \subseteq ArgNames
    <3>1. \/ globalArgs' = globalArgs
          \/ \E word : globalArgs' = ArgsAfter(word)
      BY <1>6 DEF Arg, From, OtherInstruction, argVars
    <3>2. \A word : DOMAIN ArgsAfter(word) \subseteq DOMAIN globalArgs \cup ArgNames
      BY DEF ArgsAfter, ArgNames
    <3>3. DOMAIN globalArgs \subseteq ArgNames
      BY <1>0
    <3> QED BY <3>1, <3>2, <3>3
  <2>5. knownAliases' \subseteq StageNames
    BY <1>0, <1>6, <2>2, AliasOfWord DEF Arg, From, OtherInstruction, argVars, StageNames
  <2>6. seenFrom' \in BOOLEAN
    BY <1>0, <1>6 DEF Arg, From, OtherInstruction, argVars
  <2>7. DOMAIN features' = Fields /\ features'.flags \subseteq DockerFlags
    <3>1. CASE Arg
      <4>1. HasSecret(Value) \subseteq DockerFlags
        BY DEF HasSecret, DockerFlags
      <4> QED BY <1>0, <3>1, <4>1, MoreFlags DEF Arg
    <3>2. CASE OtherInstruction
      <4> DEFINE more == Flags(instructions[pos].keyword, Value)
      <4>1. more \subseteq DockerFlags
        BY FlagsOnly
      <4>2. features' = WithFlags(more)
        BY <3>2 DEF OtherInstruction
      <4> HIDE DEF more
      <4> QED BY <1>0, <4>1, <4>2, MoreFlags
    <3>3. ASSUME NEW base, AddStage(base)
          PROVE  DOMAIN features' = Fields /\ features'.flags \subseteq DockerFlags
      <4> DEFINE more == {f \in {"UsesLatestTag"} : base.BaseTag = "latest"}
                 seen == WithFlags(more)
      <4>1. more \subseteq DockerFlags
        BY DEF DockerFlags
      <4>2. features' = seen \/ features' = [seen EXCEPT !.BaseImage = base.BaseImage, !.BaseTag = base.BaseTag]
        BY <3>3 DEF AddStage
      <4> HIDE DEF more
      <4>3. DOMAIN seen = Fields /\ seen.flags \subseteq DockerFlags
        BY <1>0, <4>1, MoreFlags
      <4> HIDE DEF seen
      <4> QED BY <4>2, <4>3, ImageAdded
    <3>4. CASE From
      BY <1>0, <3>3, <3>4 DEF From, resultVars
    <3> QED BY <1>6, <3>1, <3>2, <3>4
  <2> QED BY <1>0, <1>3, <2>1, <2>3, <2>4, <2>5, <2>6, <2>7
<1>7. CASE Return
  <2>1. {f \in {"UsesMultistage"} : Len(stages) > 1} \subseteq DockerFlags
    BY DEF DockerFlags
  <2>2. DOMAIN features' = Fields /\ features'.flags \subseteq DockerFlags
    BY <1>0, <1>7, <2>1, MoreFlags DEF Return
  <2>3. phase' = "done" /\ UNCHANGED <<pos, scanVars, argVars>> /\ phase = "parse"
    BY <1>7 DEF Return
  <2>4. "done" \in Phases
    BY DEF Phases
  <2> QED BY <1>0, <1>3, <2>2, <2>3, <2>4 DEF scanVars, argVars
<1>8. CASE UNCHANGED dockerVars
  BY <1>0, <1>3, <1>8 DEF dockerVars, scanVars, argVars, resultVars
<1> QED BY <1>4, <1>5, <1>6, <1>7, <1>8 DEF ParseDockerfile

-----------------------------------------------------------------------------
(* The summary and the stages                                              *)

HaveImages(s) == \A n \in DOMAIN s : s[n].BaseImage # ""
SomeLatest(s) == \E n \in DOMAIN s : s[n].BaseTag = "latest"

\* Stages have images, and whether there are several is noted in the end only.
SummaryInv ==
    /\ stages \in Seq(ToSet(stages))
    /\ HaveImages(stages)
    /\ phase # "done" => "UsesMultistage" \notin features.flags
    /\ SummaryMatchesStages

\* What a sequence has after an element is appended.
LEMMA Appended ==
    ASSUME NEW s, s \in Seq(ToSet(s)), NEW last
    PROVE  /\ Append(s, last) \in Seq(ToSet(Append(s, last))) /\ Append(s, last) # <<>>
           /\ Len(s) \in Nat /\ Len(Append(s, last)) = Len(s) + 1
           /\ DOMAIN s = 1..Len(s) /\ DOMAIN Append(s, last) = 1..(Len(s) + 1)
           /\ Append(s, last)[Len(s) + 1] = last
           /\ \A n \in 1..Len(s) : Append(s, last)[n] = s[n]
<1> DEFINE S == ToSet(s) \cup {last}
           t == Append(s, last)
<1>1. s \in Seq(S) /\ last \in S
  <2>1. \A k \in DOMAIN s : s[k] \in S
    BY DEF ToSet
  <2> QED BY <2>1, SeqOver
<1> HIDE DEF S
<1>2. /\ t \in Seq(S) /\ t # <<>> /\ Len(t) = Len(s) + 1 /\ Len(s) \in Nat
      /\ DOMAIN s = 1..Len(s) /\ DOMAIN t = 1..(Len(s) + 1)
      /\ t[Len(s) + 1] = last /\ \A n \in 1..Len(s) : t[n] = s[n]
  BY <1>1, AppendProperties, LenProperties
<1> HIDE DEF t
<1>3. \A k \in DOMAIN t : t[k] \in ToSet(t)
  BY DEF ToSet
<1> QED BY <1>2, <1>3, SeqOver DEF t

\* What holds of the images and tags of stages when one is appended.
LEMMA ImagesAppended ==
    ASSUME NEW s, s \in Seq(ToSet(s)), NEW last
    PROVE  LET t == Append(s, last) IN
           /\ t \in Seq(ToSet(t)) /\ t # <<>>
           /\ s = <<>> => t[1] = last
           /\ s # <<>> => 1 \in DOMAIN s /\ t[1] = s[1]
           /\ HaveImages(s) /\ last.BaseImage # "" => HaveImages(t)
           /\ SomeLatest(t) <=> SomeLatest(s) \/ last.BaseTag = "latest"
<1>1. s = <<>> <=> Len(s) = 0
  BY EmptySeq
<1>2. \A n \in 1..Len(s) : Append(s, last)[n] = s[n]
  BY Appended, SMT
<1>3. /\ Append(s, last) \in Seq(ToSet(Append(s, last))) /\ Append(s, last) # <<>>
      /\ Len(s) \in Nat /\ DOMAIN s = 1..Len(s) /\ DOMAIN Append(s, last) = 1..(Len(s) + 1)
      /\ Append(s, last)[Len(s) + 1] = last
  BY Appended, Zenon
<1>4. PICK z \in Nat : z = Len(s)
  BY <1>3
<1>5. PICK t : t = Append(s, last)
  OBVIOUS
<1>6. /\ DOMAIN s = 1..z /\ DOMAIN t = 1..(z + 1) /\ t[z + 1] = last /\ \A n \in 1..z : t[n] = s[n]
  BY <1>2, <1>3, <1>4, <1>5, Zenon
<1>7. /\ z = 0 => t[1] = last
      /\ z # 0 => 1 \in DOMAIN s /\ t[1] = s[1]
      /\ HaveImages(s) /\ last.BaseImage # "" => HaveImages(t)
      /\ SomeLatest(t) <=> SomeLatest(s) \/ last.BaseTag = "latest"
  <2>1. 1..(z + 1) = (1..z) \cup {z + 1}
    BY <1>6
  <2>2. z = 0 => t[1] = last
    BY <1>6
  <2>3. z # 0 => 1 \in DOMAIN s /\ t[1] = s[1]
    BY <1>6
  <2>4. ASSUME \A n \in DOMAIN s : s[n].BaseImage # "", last.BaseImage # "", NEW n \in DOMAIN t
        PROVE  t[n].BaseImage # ""
    <3>1. CASE n \in 1..z
      BY <1>6, <2>4, <3>1
    <3>2. CASE n = z + 1
      BY <1>6, <2>4, <3>2
    <3> QED BY <1>6, <2>1, <3>1, <3>2
  <2>5. ASSUME NEW n \in DOMAIN t, t[n].BaseTag = "latest"
        PROVE  (\E m \in DOMAIN s : s[m].BaseTag = "latest") \/ last.BaseTag = "latest"
    <3>1. CASE n \in 1..z
      BY <1>6, <2>5, <3>1
    <3>2. CASE n = z + 1
      BY <1>6, <2>5, <3>2
    <3> QED BY <1>6, <2>1, <3>1, <3>2
  <2>6. ASSUME NEW n \in DOMAIN s, s[n].BaseTag = "latest"
        PROVE  \E m \in DOMAIN t : t[m].BaseTag = "latest"
    <3>1. n \in DOMAIN t /\ t[n] = s[n]
      BY <1>6, <2>1
    <3> QED BY <2>6, <3>1
  <2>7. ASSUME last.BaseTag = "latest" PROVE \E m \in DOMAIN t : t[m].BaseTag = "latest"
    <3>1. z + 1 \in DOMAIN t
      BY <1>6, <2>1
    <3> QED BY <1>6, <2>7, <3>1
  <2> QED BY <2>2, <2>3, <2>4, <2>5, <2>6, <2>7, Zenon DEF HaveImages, SomeLatest
<1> QED BY <1>1, <1>3, <1>4, <1>5, <1>7, Zenon

\* A stage that is added keeps the summary true.
LEMMA StageAdded ==
    ASSUME DockerTypeOK, SummaryInv, NEW base, base.BaseImage # "", AddStage(base),
           phase = "parse", phase' = phase
    PROVE  SummaryInv'
<1> DEFINE latest == {f \in {"UsesLatestTag"} : base.BaseTag = "latest"}
           seen == WithFlags(latest)
           stage == [StageIndex |-> Len(stages), BaseImage |-> base.BaseImage,
                     BaseTag |-> base.BaseTag]
           more == Append(stages, stage)
<1>1. stages' = more
  BY DEF AddStage
<1>2. IF features.BaseImage # "" THEN features' = seen
      ELSE features' = [seen EXCEPT !.BaseImage = base.BaseImage, !.BaseTag = base.BaseTag]
  BY DEF AddStage
<1>3. stage.BaseImage = base.BaseImage /\ stage.BaseTag = base.BaseTag
  OBVIOUS
<1> HIDE DEF stage
<1>0. stages \in Seq(ToSet(stages))
  BY DEF SummaryInv
<1>4. /\ more \in Seq(ToSet(more)) /\ more # <<>>
      /\ stages = <<>> => more[1] = stage
      /\ stages # <<>> => 1 \in DOMAIN stages /\ more[1] = stages[1]
      /\ HaveImages(stages) /\ stage.BaseImage # "" => HaveImages(more)
      /\ SomeLatest(more) <=> SomeLatest(stages) \/ stage.BaseTag = "latest"
  BY <1>0, ImagesAppended, Zenon
<1> HIDE DEF more
<1>5. /\ DOMAIN seen = {"BaseImage", "BaseTag", "flags"} /\ seen.flags = features.flags \cup latest
      /\ seen.BaseImage = features.BaseImage /\ seen.BaseTag = features.BaseTag
  BY MoreFlags DEF DockerTypeOK, NoFeatures
<1>6. "UsesLatestTag" \in latest <=> base.BaseTag = "latest"
  OBVIOUS
<1>7. "UsesMultistage" \notin latest
  OBVIOUS
<1> HIDE DEF latest, seen
<1>8. features'.flags = features.flags \cup latest
  BY <1>2, <1>5, ImageAdded
<1>9. features'.BaseImage = more[1].BaseImage /\ features'.BaseTag = more[1].BaseTag
  <2>1. CASE stages = <<>>
    <3>1. features.BaseImage = ""
      BY <2>1 DEF SummaryInv, SummaryMatchesStages
    <3> QED BY <1>2, <1>3, <1>4, <1>5, <2>1, <3>1, ImageAdded
  <2>2. CASE stages # <<>>
    <3>1. 1 \in DOMAIN stages /\ more[1] = stages[1]
      BY <1>4, <2>2, Zenon
    <3>2. features.BaseImage = stages[1].BaseImage /\ features.BaseTag = stages[1].BaseTag
      BY <2>2, Zenon DEF SummaryInv, SummaryMatchesStages
    <3>3. features.BaseImage # ""
      BY <3>1, <3>2, Zenon DEF SummaryInv, HaveImages
    <3>4. features' = seen
      BY <1>2, <3>3, Zenon
    <3> QED BY <1>5, <3>1, <3>2, <3>4, Zenon
  <2> QED BY <2>1, <2>2
<1>10. HaveImages(more)
  BY <1>3, <1>4, Zenon DEF SummaryInv
<1>11. SomeLatest(more) <=> SomeLatest(stages) \/ base.BaseTag = "latest"
  BY <1>3, <1>4, Zenon
<1>12. "UsesLatestTag" \in features'.flags <=> SomeLatest(more)
  <2>1. "UsesLatestTag" \in features'.flags
          <=> "UsesLatestTag" \in features.flags \/ "UsesLatestTag" \in latest
    BY <1>8
  <2>2. "UsesLatestTag" \in features.flags <=> SomeLatest(stages)
    BY Zenon DEF SummaryInv, SummaryMatchesStages, SomeLatest
  <2> QED BY <1>6, <1>11, <2>1, <2>2, Zenon
<1>13. "UsesMultistage" \notin features'.flags
  BY <1>7, <1>8 DEF SummaryInv
<1> QED BY <1>1, <1>4, <1>9, <1>10, <1>12, <1>13, Zenon DEF SummaryInv, SummaryMatchesStages, HaveImages, SomeLatest

\* No instruction but a FROM reports "latest", and none several stages.
LEMMA OtherFlags ==
    ASSUME NEW keyword, NEW value
    PROVE  Flags(keyword, value) \cap {"UsesLatestTag", "UsesMultistage"} = {}
<1>1. HasSecret(value) \cap {"UsesLatestTag", "UsesMultistage"} = {}
  BY DEF HasSecret
<1>2. ShellFlags(value) \cap {"UsesLatestTag", "UsesMultistage"} = {}
  BY DEF ShellFlags, Required
<1>3. CASE keyword \in DOMAIN KeywordFlag
  <2>1. Flags(keyword, value) = {KeywordFlag[keyword]}
    BY <1>3 DEF Flags, KeywordFlag
  <2>2. KeywordFlag[keyword] \notin {"UsesLatestTag", "UsesMultistage"}
    BY <1>3 DEF KeywordFlag
  <2> QED BY <2>1, <2>2
<1>4. CASE keyword \notin DOMAIN KeywordFlag
  <2>1. CASE keyword \in {"copy", "add"}
    BY <1>4, <2>1 DEF Flags
  <2>2. CASE keyword = "run"
    BY <1>2, <1>4, <2>2 DEF Flags, RunWords
  <2>3. CASE keyword = "env"
    BY <1>1, <1>4, <2>3 DEF Flags
  <2>4. CASE keyword \notin {"copy", "add", "run", "env"}
    BY <1>4, <2>4 DEF Flags
  <2> QED BY <2>1, <2>2, <2>3, <2>4
<1> QED BY <1>3, <1>4

\* Flags of other kinds leave the summary as it is.
LEMMA SummaryFlagged ==
    ASSUME DockerTypeOK, SummaryInv, NEW more, features' = WithFlags(more), stages' = stages,
           more \cap {"UsesLatestTag", "UsesMultistage"} = {}, phase' = phase, phase # "done"
    PROVE  SummaryInv'
<1>1. /\ features'.flags = features.flags \cup more
      /\ features'.BaseImage = features.BaseImage /\ features'.BaseTag = features.BaseTag
  BY MoreFlags DEF DockerTypeOK, NoFeatures
<1>2. /\ "UsesLatestTag" \in features'.flags <=> "UsesLatestTag" \in features.flags
      /\ "UsesMultistage" \in features'.flags <=> "UsesMultistage" \in features.flags
  BY <1>1
<1> QED BY <1>1, <1>2, Zenon DEF SummaryInv, SummaryMatchesStages, HaveImages

\* What does not touch the result keeps the summary true.
LEMMA SummaryKept ==
    ASSUME SummaryInv, UNCHANGED resultVars, phase' = "done" <=> phase = "done"
    PROVE  SummaryInv'
<1>1. features' = features /\ stages' = stages
  BY DEF resultVars
<1> QED BY <1>1, Zenon DEF SummaryInv, SummaryMatchesStages, HaveImages

\* An empty result is summed up by an empty summary.
LEMMA SummaryInit == DockerfileInit \/ NoDockerfile => SummaryInv
<1>1. ASSUME NEW content, NEW at, at # "done", DockerfileStart(content, at) PROVE SummaryInv
  <2>1. phase # "done" /\ features = NoFeatures /\ stages = <<>>
    BY <1>1 DEF DockerfileStart
  <2>2. DOMAIN stages = {}
    BY <2>1, NoWords
  <2>3. stages \in Seq(ToSet(stages))
    BY <2>1
  <2>4. features.BaseImage = "" /\ features.BaseTag = "" /\ features.flags = {}
    BY <2>1 DEF NoFeatures
  <2> QED BY <2>1, <2>2, <2>3, <2>4 DEF SummaryInv, SummaryMatchesStages, HaveImages
<1> QED BY <1>1 DEF DockerfileInit, NoDockerfile

\* Every turn keeps the summary true of the stages.
LEMMA SummaryStep ==
    DockerTypeOK /\ SummaryInv /\ [ParseDockerfile]_dockerVars => SummaryInv'
<1> SUFFICES ASSUME DockerTypeOK, SummaryInv, [ParseDockerfile]_dockerVars PROVE SummaryInv'
  OBVIOUS
<1>1. CASE SkipLine \/ ContinueInstruction \/ EndInstruction \/ EndOfText
  BY <1>1, SummaryKept DEF SkipLine, ContinueInstruction, EndInstruction, EndOfText, Taken,
     Scanning, NextLine
<1>2. CASE Arg
  <2>1. features' = WithFlags(HasSecret(Value)) /\ stages' = stages /\ phase' = phase /\ phase # "done"
    BY <1>2 DEF Arg, Reading, NextInstruction
  <2>2. HasSecret(Value) \cap {"UsesLatestTag", "UsesMultistage"} = {}
    BY DEF HasSecret
  <2> QED BY <2>1, <2>2, SummaryFlagged
<1>3. CASE From
  <2>1. phase = "parse" /\ phase' = phase
    BY <1>3 DEF From, Reading, NextInstruction
  <2>2. CASE UNCHANGED resultVars
    BY <2>1, <2>2, SummaryKept
  <2>3. ASSUME NEW base, base.BaseImage # "", AddStage(base) PROVE SummaryInv'
    BY <2>1, <2>3, StageAdded
  <2> QED BY <1>3, <2>2, <2>3 DEF From
<1>4. CASE OtherInstruction
  <2>1. /\ features' = WithFlags(Flags(instructions[pos].keyword, Value))
        /\ stages' = stages /\ phase' = phase /\ phase # "done"
    BY <1>4 DEF OtherInstruction, NextInstruction
  <2> QED BY <2>1, OtherFlags, SummaryFlagged
<1>5. CASE Return
  <2> DEFINE more == {f \in {"UsesMultistage"} : Len(stages) > 1}
  <2>1. phase # "done" /\ phase' = "done" /\ features' = WithFlags(more) /\ stages' = stages
    BY <1>5 DEF Return
  <2>2. "UsesLatestTag" \notin more /\ ("UsesMultistage" \in more <=> Len(stages) > 1)
    OBVIOUS
  <2> HIDE DEF more
  <2>3. /\ features'.flags = features.flags \cup more
        /\ features'.BaseImage = features.BaseImage /\ features'.BaseTag = features.BaseTag
    BY <2>1, MoreFlags DEF DockerTypeOK, NoFeatures
  <2>4. "UsesLatestTag" \in features'.flags <=> "UsesLatestTag" \in features.flags
    BY <2>2, <2>3
  <2>5. "UsesMultistage" \notin features.flags
    BY <2>1, Zenon DEF SummaryInv
  <2>6. "UsesMultistage" \in features'.flags <=> Len(stages) > 1
    BY <2>2, <2>3, <2>5
  <2> QED BY <2>1, <2>3, <2>4, <2>6, Zenon DEF SummaryInv, SummaryMatchesStages, HaveImages
<1>6. CASE UNCHANGED dockerVars
  <2>1. UNCHANGED resultVars /\ phase' = phase
    BY <1>6 DEF dockerVars
  <2> QED BY <2>1, SummaryKept
<1> QED BY <1>1, <1>2, <1>3, <1>4, <1>5, <1>6 DEF ParseDockerfile

-----------------------------------------------------------------------------
(* What the ARGs stand for                                                 *)

\* A set of numbers up to m that is not empty has a greatest one.
LEMMA Greatest ==
    ASSUME NEW m \in Nat, NEW S \in SUBSET (1..m), S # {}
    PROVE  Max(S) \in S /\ \A k \in S : k <= Max(S)
<1> DEFINE Bounds == {n \in Nat : \A k \in S : k <= n}
<1>1. m \in Bounds
  OBVIOUS
<1>2. PICK b \in Bounds : \A n \in Bounds : b <= n
  BY <1>1, Least
<1>3. b \in S
  <2>1. SUFFICES ASSUME b \notin S PROVE FALSE
    OBVIOUS
  <2>2. PICK k \in S : TRUE
    OBVIOUS
  <2>3. b \in Nat /\ b > 0 /\ \A n \in S : n <= b - 1
    BY <1>2, <2>1, <2>2
  <2>4. b - 1 \in Bounds
    BY <2>3
  <2> QED BY <1>2, <2>3, <2>4
<1>4. \A k \in S : b >= k
  BY <1>2
<1>5. \E x \in S : \A y \in S : x >= y
  BY <1>3, <1>4
<1>6. Max(S) \in S /\ \A y \in S : Max(S) >= y
  BY <1>5 DEF Max
<1> QED BY <1>6

\* Instructions are numbered from 1.
LEMMA InstructionNumbers ==
    ASSUME DockerTypeOK
    PROVE  /\ Len(instructions) \in Nat /\ DOMAIN instructions = 1..Len(instructions)
           /\ GlobalArgs \subseteq DOMAIN instructions
<1> DEFINE Instruction == [keyword : WordsOfText, value : Seq(WordsOfText)]
<1>1. instructions \in Seq(Instruction)
  BY DEF DockerTypeOK
<1> HIDE DEF Instruction
<1> QED BY <1>1, LenProperties DEF GlobalArgs

\* The last setter of a name is a global ARG that sets it, if there is one.
LEMMA LastSetterIs ==
    ASSUME DockerTypeOK, NEW name, NEW i \in Nat
    PROVE  \/ /\ LastSetter(name, i) = 0
              /\ ~\E j \in GlobalArgs : j < i /\ Assignment[FirstWord(j)].name = name
           \/ LET last == LastSetter(name, i) IN
              /\ last \in GlobalArgs /\ last < i /\ last # 0
              /\ Assignment[FirstWord(last)].name = name
              /\ \A j \in GlobalArgs :
                    j < i /\ Assignment[FirstWord(j)].name = name => j <= last
<1> DEFINE Setters == {j \in GlobalArgs : j < i /\ Assignment[FirstWord(j)].name = name}
<1>1. LastSetter(name, i) = IF Setters = {} THEN 0 ELSE Max(Setters)
  BY DEF LastSetter
<1>2. CASE Setters = {}
  BY <1>1, <1>2
<1>3. CASE Setters # {}
  <2>1. Setters \in SUBSET (1..Len(instructions)) /\ Len(instructions) \in Nat
    BY InstructionNumbers
  <2>2. Max(Setters) \in Setters /\ \A k \in Setters : k <= Max(Setters)
    BY <1>3, <2>1, Greatest
  <2>3. LastSetter(name, i) \in Setters /\ \A k \in Setters : k <= LastSetter(name, i)
    BY <1>1, <1>3, <2>2
  <2>4. LastSetter(name, i) # 0
    BY <2>1, <2>3
  <2> QED BY <2>3, <2>4
<1> QED BY <1>2, <1>3

\* What ARG i sets if f says what the ARGs before it do.
Setter(word, i) == IF word \in DOMAIN Reference THEN LastSetter(Reference[word], i) ELSE 0
SetBy(f, i) ==
    LET word == Assignment[FirstWord(i)].value IN
    IF Setter(word, i) = 0 THEN word ELSE f[Setter(word, i)]

\* The setter of a word is a global ARG before it.
LEMMA SetterBefore ==
    ASSUME DockerTypeOK, NEW word, NEW i \in Nat, Setter(word, i) # 0
    PROVE  Setter(word, i) \in GlobalArgs /\ Setter(word, i) < i
BY LastSetterIs DEF Setter

\* Such a function exists: an ARG refers to earlier ones only.
LEMMA ArgValuesExist ==
    ASSUME DockerTypeOK
    PROVE  \E f : f = [i \in GlobalArgs |-> SetBy(f, i)]
<1> DEFINE Upto(n) == {i \in GlobalArgs : i <= n}
           Fits(f, n) == f = [i \in Upto(n) |-> SetBy(f, i)]
           Unfit == {n \in Nat : ~\E f : Fits(f, n)}
<1>0. GlobalArgs \subseteq Nat \ {0}
  BY InstructionNumbers
<1>1. SUFFICES Unfit = {}
  <2>1. Len(instructions) \in Nat /\ Upto(Len(instructions)) = GlobalArgs
    BY InstructionNumbers
  <2>2. \E f : Fits(f, Len(instructions))
    BY <1>1, <2>1
  <2> HIDE DEF Upto
  <2> QED BY <2>1, <2>2
<1>2. SUFFICES ASSUME Unfit # {} PROVE FALSE
  OBVIOUS
<1>3. PICK n \in Unfit : \A k \in Unfit : n <= k
  <2>1. Unfit \in SUBSET Nat
    OBVIOUS
  <2> HIDE DEF Unfit
  <2> QED BY <1>2, <2>1, Least
<1>4. \E f : Fits(f, n)
  <2>1. CASE n = 0
    <3>1. Upto(n) = {}
      <4>1. \A i \in GlobalArgs : ~(i <= 0)
        BY <1>0
      <4> QED BY <2>1, <4>1
    <3> DEFINE f == [i \in {} |-> 0]
    <3>2. f = [i \in {} |-> SetBy(f, i)]
      OBVIOUS
    <3> HIDE DEF Upto, f
    <3> QED BY <3>1, <3>2
  <2>2. CASE n # 0
    <3>1. n - 1 \in Nat /\ n - 1 \notin Unfit
      <4>1. n \in Nat /\ Unfit \subseteq Nat
        OBVIOUS
      <4> HIDE DEF Unfit
      <4> QED BY <1>3, <2>2, <4>1
    <3>2. PICK f : Fits(f, n - 1)
      BY <3>1
    <3> DEFINE g == [i \in Upto(n) |-> SetBy(f, i)]
    <3>3. ASSUME NEW i \in Upto(n) PROVE SetBy(g, i) = SetBy(f, i)
      <4> DEFINE word == Assignment[FirstWord(i)].value
                 setter == Setter(word, i)
      <4>1. CASE setter = 0
        BY <4>1 DEF SetBy
      <4>2. CASE setter # 0
        <5>1. i \in Nat /\ i <= n /\ n \in Nat
          BY <1>0
        <5>2. setter \in GlobalArgs /\ setter < i
          BY <4>2, <5>1, SetterBefore
        <5>3. setter \in Nat
          BY <1>0, <5>2
        <5>4. setter \in Upto(n) /\ setter \in Upto(n - 1)
          BY <5>1, <5>2, <5>3
        <5> HIDE DEF setter, Upto
        <5>5. g[setter] = SetBy(f, setter) /\ f[setter] = SetBy(f, setter)
          BY <3>2, <5>4
        <5> QED BY <4>2, <5>5 DEF SetBy, setter
      <4> QED BY <4>1, <4>2
    <3>4. g = [i \in Upto(n) |-> SetBy(g, i)]
      <4> HIDE DEF Upto
      <4>1. \A i \in Upto(n) : SetBy(f, i) = SetBy(g, i)
        BY <3>3
      <4> QED BY <4>1
    <3> HIDE DEF g
    <3> QED BY <3>4
  <2> QED BY <2>1, <2>2
<1> QED BY <1>3, <1>4

\* The recursive definition of what an ARG sets, unfolded once.
LEMMA ArgValues ==
    ASSUME DockerTypeOK, NEW i \in GlobalArgs
    PROVE  ArgValue[i] = SetBy(ArgValue, i)
<1>1. PICK f : f = [k \in GlobalArgs |-> SetBy(f, k)]
  BY ArgValuesExist
<1>2. ArgValue = CHOOSE g : g = [k \in GlobalArgs |-> SetBy(g, k)]
  BY DEF ArgValue, SetBy, Setter
<1>3. ArgValue = [k \in GlobalArgs |-> SetBy(ArgValue, k)]
  BY <1>1, <1>2
<1> HIDE DEF ArgValue
<1> QED BY <1>3

-----------------------------------------------------------------------------
(* The ARGs and the names of stages that a FROM can refer to               *)

GlobalsBefore(n) == {j \in GlobalArgs : j < n}
FromsBefore(n) == {j \in DOMAIN instructions : Is(j, "from") /\ j < n}

\* What is known when the instructions before n are read.
ArgsUpTo(n) ==
    /\ seenFrom <=> FromsBefore(n) # {}
    /\ DOMAIN globalArgs = {Assignment[FirstWord(j)].name : j \in GlobalsBefore(n)}
    /\ \A name \in DOMAIN globalArgs : globalArgs[name] = ArgValue[LastSetter(name, n)]
    /\ knownAliases = UNION {Alias(instructions[j].value) : j \in FromsBefore(n)}

ArgsInv ==
    /\ phase = "scan" => ~seenFrom /\ DOMAIN globalArgs = {} /\ knownAliases = {}
    /\ phase = "parse" => ArgsUpTo(pos)

\* While the instructions stay, so does what their ARGs mean.
LEMMA SameInstructions ==
    ASSUME instructions' = instructions
    PROVE  /\ GlobalArgs' = GlobalArgs
           /\ ArgValue' = ArgValue
           /\ \A name, n : LastSetter(name, n)' = LastSetter(name, n)
           /\ \A i, word : Is(i, word)' <=> Is(i, word)
           /\ \A i : FirstWord(i)' = FirstWord(i)
<1>1. ArgValue' = ArgValue
  BY DEF ArgValue, LastSetter, FirstWord, GlobalArgs, Is
<1>2. \A name, n : LastSetter(name, n)' = LastSetter(name, n)
  BY DEF LastSetter, FirstWord, GlobalArgs, Is
<1>3. GlobalArgs' = GlobalArgs
  BY DEF FirstWord, GlobalArgs, Is
<1> QED BY <1>1, <1>2, <1>3 DEF Is, FirstWord

\* A reference means what its last setter set, and nothing if there is none.
LEMMA Resolved ==
    ASSUME DockerTypeOK, pos \in Nat, ArgsUpTo(pos), NEW word
    PROVE  /\ resolveArgReferences(word) = Meaning(word, pos)
           /\ Resolvable(word) <=> (word \in DOMAIN Reference => Setter(word, pos) # 0)
           /\ Meaning(word, pos) =
                IF Setter(word, pos) = 0 THEN word ELSE ArgValue[Setter(word, pos)]
<1>1. Meaning(word, pos) = IF Setter(word, pos) = 0 THEN word ELSE ArgValue[Setter(word, pos)]
  BY DEF Meaning, Setter
<1>2. CASE word \notin DOMAIN Reference
  BY <1>1, <1>2 DEF resolveArgReferences, Resolvable, Setter
<1>3. CASE word \in DOMAIN Reference
  <2> DEFINE name == Reference[word]
  <2>1. Setter(word, pos) = LastSetter(name, pos)
    BY <1>3 DEF Setter
  <2>2. LastSetter(name, pos) # 0 <=> \E j \in GlobalArgs : j < pos /\ Assignment[FirstWord(j)].name = name
    BY LastSetterIs
  <2>3. name \in DOMAIN globalArgs <=> \E j \in GlobalArgs : j < pos /\ Assignment[FirstWord(j)].name = name
    BY DEF ArgsUpTo, GlobalsBefore
  <2>4. Resolvable(word) <=> Setter(word, pos) # 0
    BY <1>3, <2>1, <2>2, <2>3 DEF Resolvable
  <2>5. name \in DOMAIN globalArgs => globalArgs[name] = ArgValue[LastSetter(name, pos)]
    BY DEF ArgsUpTo
  <2>6. resolveArgReferences(word) = IF Setter(word, pos) = 0 THEN word ELSE ArgValue[Setter(word, pos)]
    BY <1>3, <2>1, <2>2, <2>3, <2>4, <2>5 DEF resolveArgReferences
  <2> QED BY <1>1, <1>3, <2>4, <2>6
<1> QED BY <1>2, <1>3

\* An instruction that sets no global ARG is read.
LEMMA NoArgRead ==
    ASSUME DockerTypeOK, ArgsInv, phase = "parse", phase' = phase, instructions' = instructions,
           pos \in DOMAIN instructions, pos' = pos + 1, pos \notin GlobalArgs,
           globalArgs' = globalArgs,
           \/ Is(pos, "from") /\ seenFrom' = TRUE /\ knownAliases' = knownAliases \cup Alias(Value)
           \/ ~Is(pos, "from") /\ seenFrom' = seenFrom /\ knownAliases' = knownAliases
    PROVE  ArgsInv'
<1>1. pos \in Nat /\ pos + 1 \in Nat /\ \A j \in DOMAIN instructions : j < pos + 1 <=> j < pos \/ j = pos
  BY InstructionNumbers
<1>2. ArgsUpTo(pos)
  BY DEF ArgsInv
<1>3. GlobalsBefore(pos + 1) = GlobalsBefore(pos)
  BY <1>1, InstructionNumbers DEF GlobalsBefore
<1>4. FromsBefore(pos + 1) = FromsBefore(pos) \cup {j \in {pos} : Is(pos, "from")}
  BY <1>1 DEF FromsBefore
<1>5. ASSUME NEW name PROVE LastSetter(name, pos + 1) = LastSetter(name, pos)
  <2>1. {j \in GlobalArgs : j < pos + 1 /\ Assignment[FirstWord(j)].name = name}
          = {j \in GlobalArgs : j < pos /\ Assignment[FirstWord(j)].name = name}
    BY <1>1, InstructionNumbers
  <2> QED BY <2>1 DEF LastSetter
<1>6. /\ seenFrom' <=> FromsBefore(pos + 1) # {}
      /\ knownAliases' = UNION {Alias(instructions[j].value) : j \in FromsBefore(pos + 1)}
  <2>1. CASE Is(pos, "from")
    BY <1>2, <1>4, <2>1 DEF ArgsUpTo, Value
  <2>2. CASE ~Is(pos, "from")
    <3>1. FromsBefore(pos + 1) = FromsBefore(pos)
      BY <1>4, <2>2
    <3> QED BY <1>2, <2>2, <3>1 DEF ArgsUpTo
  <2> QED BY <2>1, <2>2
<1>7. /\ DOMAIN globalArgs = {Assignment[FirstWord(j)].name : j \in GlobalsBefore(pos + 1)}
      /\ \A name \in DOMAIN globalArgs : globalArgs[name] = ArgValue[LastSetter(name, pos + 1)]
  BY <1>2, <1>3, <1>5 DEF ArgsUpTo
<1>8. /\ GlobalsBefore(pos)' = GlobalsBefore(pos + 1) /\ FromsBefore(pos)' = FromsBefore(pos + 1)
  BY SameInstructions DEF GlobalsBefore, FromsBefore
<1>9. \A i : FirstWord(i)' = FirstWord(i)
  BY SameInstructions
<1>10. ArgValue' = ArgValue /\ \A name : LastSetter(name, pos)' = LastSetter(name, pos + 1)
  <2>1. ArgValue' = ArgValue
    BY SameInstructions
  <2>2. \A name : LastSetter(name, pos)' = LastSetter(name, pos + 1)
    BY DEF LastSetter, FirstWord, GlobalArgs, Is
  <2> QED BY <2>1, <2>2
<1>11. ArgsUpTo(pos)'
  BY <1>6, <1>7, <1>8, <1>9, <1>10 DEF ArgsUpTo
<1> QED BY <1>11 DEF ArgsInv

\* A global ARG is read: from now on it is the last setter of its name.
LEMMA GlobalArgRead ==
    ASSUME DockerTypeOK, ArgsInv, Arg, pos \in GlobalArgs
    PROVE  ArgsInv'
<1> DEFINE arg == Assignment[FirstWord(pos)]
<1>0. /\ phase = "parse" /\ phase' = phase /\ pos \in DOMAIN instructions /\ pos' = pos + 1
      /\ instructions' = instructions /\ seenFrom' = seenFrom /\ knownAliases' = knownAliases
      /\ globalArgs' = IF Value = <<>> THEN globalArgs ELSE ArgsAfter(Head(Value))
  BY DEF Arg, Reading, NextInstruction, scanVars
<1>1. /\ pos \in Nat /\ pos + 1 \in Nat
      /\ \A j \in DOMAIN instructions : j \in Nat /\ (j < pos + 1 <=> j < pos \/ j = pos)
  BY <1>0, InstructionNumbers
<1>2. ArgsUpTo(pos)
  BY <1>0 DEF ArgsInv
<1>3. GlobalsBefore(pos + 1) = GlobalsBefore(pos) \cup {pos}
  BY <1>1, InstructionNumbers DEF GlobalsBefore
<1>4. FromsBefore(pos + 1) = FromsBefore(pos) /\ FromsBefore(pos) = {}
  <2>1. \A j \in 1..pos : ~Is(j, "from")
    BY DEF GlobalArgs
  <2> QED BY <1>0, <1>1, <2>1, InstructionNumbers DEF FromsBefore
<1>5. globalArgs' = [name \in DOMAIN globalArgs \cup {arg.name} |->
                       IF name = arg.name THEN resolveArgReferences(arg.value) ELSE globalArgs[name]]
  <2>1. /\ Value # <<>> /\ Head(Value) = FirstWord(pos) /\ FirstWord(pos) \in DOMAIN Assignment
    BY DEF GlobalArgs, Value, FirstWord
  <2>2. ~seenFrom
    BY <1>2, <1>4 DEF ArgsUpTo
  <2> QED BY <1>0, <2>1, <2>2 DEF ArgsAfter
<1>6. resolveArgReferences(arg.value) = ArgValue[pos]
  <2>1. resolveArgReferences(arg.value) = SetBy(ArgValue, pos)
    BY <1>1, <1>2, Resolved DEF SetBy
  <2> QED BY <2>1, ArgValues
<1>7. LastSetter(arg.name, pos + 1) = pos
  <2> DEFINE last == LastSetter(arg.name, pos + 1)
  <2>1. \/ last = 0 /\ ~\E j \in GlobalArgs : j < pos + 1 /\ Assignment[FirstWord(j)].name = arg.name
        \/ /\ last \in GlobalArgs /\ last < pos + 1
           /\ \A j \in GlobalArgs : j < pos + 1 /\ Assignment[FirstWord(j)].name = arg.name => j <= last
    BY <1>1, LastSetterIs
  <2>2. last \in GlobalArgs /\ last < pos + 1 /\ pos <= last
    <3> HIDE DEF last
    <3>1. pos < pos + 1
      BY <1>1
    <3> QED BY <2>1, <3>1
  <2> QED BY <1>0, <1>1, <2>2, InstructionNumbers
<1>8. ASSUME NEW name, name # arg.name PROVE LastSetter(name, pos + 1) = LastSetter(name, pos)
  <2>1. {j \in GlobalArgs : j < pos + 1 /\ Assignment[FirstWord(j)].name = name}
          = {j \in GlobalArgs : j < pos /\ Assignment[FirstWord(j)].name = name}
    BY <1>1, <1>8, InstructionNumbers
  <2> QED BY <2>1 DEF LastSetter
<1>9. /\ DOMAIN globalArgs' = {Assignment[FirstWord(j)].name : j \in GlobalsBefore(pos + 1)}
      /\ \A name \in DOMAIN globalArgs' : globalArgs'[name] = ArgValue[LastSetter(name, pos + 1)]
  <2>1. DOMAIN globalArgs' = DOMAIN globalArgs \cup {arg.name}
    BY <1>5
  <2>2. DOMAIN globalArgs = {Assignment[FirstWord(j)].name : j \in GlobalsBefore(pos)}
    BY <1>2 DEF ArgsUpTo
  <2>3. DOMAIN globalArgs' = {Assignment[FirstWord(j)].name : j \in GlobalsBefore(pos + 1)}
    BY <1>3, <2>1, <2>2
  <2>4. ASSUME NEW name \in DOMAIN globalArgs'
        PROVE  globalArgs'[name] = ArgValue[LastSetter(name, pos + 1)]
    <3>1. CASE name = arg.name
      BY <1>5, <1>6, <1>7, <3>1
    <3>2. CASE name # arg.name
      <4>1. name \in DOMAIN globalArgs /\ globalArgs'[name] = globalArgs[name]
        BY <1>5, <2>1, <3>2
      <4>2. globalArgs[name] = ArgValue[LastSetter(name, pos)]
        BY <1>2, <4>1 DEF ArgsUpTo
      <4> QED BY <1>8, <3>2, <4>1, <4>2
    <3> QED BY <3>1, <3>2
  <2> QED BY <2>3, <2>4
<1>10. seenFrom' = FALSE \/ ~seenFrom'
  BY <1>0, <1>2, <1>4 DEF ArgsUpTo
<1>11. /\ GlobalsBefore(pos)' = GlobalsBefore(pos + 1) /\ FromsBefore(pos)' = FromsBefore(pos + 1)
       /\ \A i : FirstWord(i)' = FirstWord(i)
       /\ ArgValue' = ArgValue
  BY <1>0, SameInstructions DEF GlobalsBefore, FromsBefore
<1>12. \A name : LastSetter(name, pos)' = LastSetter(name, pos + 1)
  BY <1>0 DEF LastSetter, FirstWord, GlobalArgs, Is
<1>13. knownAliases' = {} /\ FromsBefore(pos)' = {}
  BY <1>0, <1>2, <1>4, <1>11 DEF ArgsUpTo
<1>14. ArgsUpTo(pos)'
  BY <1>9, <1>10, <1>11, <1>12, <1>13 DEF ArgsUpTo
<1> QED BY <1>0, <1>14 DEF ArgsInv

\* Before the first instruction, no ARG and no name is known.
LEMMA ArgsInit == DockerfileInit \/ NoDockerfile => ArgsInv
<1> SUFFICES ASSUME DockerfileInit \/ NoDockerfile PROVE ArgsInv
  OBVIOUS
<1>1. phase # "parse" /\ ~seenFrom /\ globalArgs = <<>> /\ knownAliases = {}
  BY DEF DockerfileInit, NoDockerfile, DockerfileStart
<1> QED BY <1>1, NoWords DEF ArgsInv

\* Every turn keeps the known ARGs and names those of the instructions read.
LEMMA ArgsStep == DockerTypeOK /\ ArgsInv /\ [ParseDockerfile]_dockerVars => ArgsInv'
<1> SUFFICES ASSUME DockerTypeOK, ArgsInv, [ParseDockerfile]_dockerVars PROVE ArgsInv'
  OBVIOUS
<1>1. CASE SkipLine \/ ContinueInstruction \/ EndInstruction
  <2>1. phase = "scan" /\ phase' = phase /\ UNCHANGED <<globalArgs, knownAliases, seenFrom>>
    BY <1>1 DEF SkipLine, ContinueInstruction, EndInstruction, Taken, Scanning, NextLine, argVars
  <2> QED BY <2>1 DEF ArgsInv
<1>2. CASE EndOfText
  <2>1. /\ phase = "scan" /\ phase' = "parse" /\ pos' = 1
        /\ UNCHANGED <<globalArgs, knownAliases, seenFrom>>
    BY <1>2 DEF EndOfText, argVars
  <2>2. ~seenFrom' /\ DOMAIN globalArgs' = {} /\ knownAliases' = {}
    BY <2>1 DEF ArgsInv
  <2>3. DockerTypeOK'
    BY DockerTypeStep
  <2>4. GlobalsBefore(pos)' = {} /\ FromsBefore(pos)' = {}
    <3>1. DOMAIN instructions' = 1..Len(instructions') /\ Len(instructions') \in Nat
          /\ GlobalArgs' \subseteq DOMAIN instructions'
      <4> DEFINE Instruction == [keyword : WordsOfText', value : Seq(WordsOfText')]
      <4>1. instructions' \in Seq(Instruction)
        BY <2>3 DEF DockerTypeOK
      <4> HIDE DEF Instruction
      <4> QED BY <4>1, LenProperties DEF GlobalArgs
    <3> QED BY <2>1, <3>1 DEF GlobalsBefore, FromsBefore
  <2> QED BY <2>1, <2>2, <2>4 DEF ArgsInv, ArgsUpTo
<1>3. CASE Arg
  <2>1. /\ phase = "parse" /\ phase' = phase /\ pos \in DOMAIN instructions /\ pos' = pos + 1
        /\ instructions' = instructions /\ seenFrom' = seenFrom /\ knownAliases' = knownAliases
        /\ globalArgs' = IF Value = <<>> THEN globalArgs ELSE ArgsAfter(Head(Value))
        /\ Is(pos, "arg") /\ ~Is(pos, "from")
    BY <1>3 DEF Arg, Reading, NextInstruction, scanVars, Is
  <2>2. CASE pos \in GlobalArgs
    BY <1>3, <2>2, GlobalArgRead
  <2>3. CASE pos \notin GlobalArgs
    <3>1. globalArgs' = globalArgs
      <4> SUFFICES ASSUME Value # <<>>, ~seenFrom, FirstWord(pos) \in DOMAIN Assignment PROVE FALSE
        BY <2>1 DEF ArgsAfter, FirstWord, Value
      <4>1. FromsBefore(pos) = {}
        BY <2>1 DEF ArgsInv, ArgsUpTo
      <4>2. \A j \in 1..pos : ~Is(j, "from")
        BY <2>1, <4>1, InstructionNumbers DEF FromsBefore
      <4> QED BY <2>1, <2>3, <4>2 DEF GlobalArgs, Value
    <3> QED BY <2>1, <2>3, <3>1, NoArgRead
  <2> QED BY <2>2, <2>3
<1>4. CASE From
  <2>1. /\ phase = "parse" /\ phase' = phase /\ pos \in DOMAIN instructions /\ pos' = pos + 1
        /\ instructions' = instructions /\ globalArgs' = globalArgs
        /\ seenFrom' = TRUE /\ knownAliases' = knownAliases \cup Alias(Value)
        /\ Is(pos, "from") /\ ~Is(pos, "arg")
    BY <1>4 DEF From, Reading, NextInstruction, scanVars, Is
  <2>2. pos \notin GlobalArgs
    BY <2>1 DEF GlobalArgs
  <2> QED BY <2>1, <2>2, NoArgRead
<1>5. CASE OtherInstruction
  <2>1. /\ phase = "parse" /\ phase' = phase /\ pos \in DOMAIN instructions /\ pos' = pos + 1
        /\ instructions' = instructions /\ UNCHANGED <<globalArgs, knownAliases, seenFrom>>
        /\ ~Is(pos, "from") /\ ~Is(pos, "arg")
    BY <1>5 DEF OtherInstruction, NextInstruction, scanVars, argVars, Is
  <2>2. pos \notin GlobalArgs
    BY <2>1 DEF GlobalArgs
  <2> QED BY <2>1, <2>2, NoArgRead
<1>6. CASE Return
  BY <1>6 DEF Return, ArgsInv
<1>7. CASE UNCHANGED dockerVars
  <2>1. UNCHANGED <<phase, pos, instructions, globalArgs, knownAliases, seenFrom>>
    BY <1>7 DEF dockerVars, scanVars, argVars
  <2>2. /\ GlobalsBefore(pos)' = GlobalsBefore(pos) /\ FromsBefore(pos)' = FromsBefore(pos)
        /\ \A i : FirstWord(i)' = FirstWord(i)
        /\ ArgValue' = ArgValue
    BY <2>1, SameInstructions DEF GlobalsBefore, FromsBefore
  <2>3. \A name : LastSetter(name, pos)' = LastSetter(name, pos)
    BY <2>1 DEF LastSetter, FirstWord, GlobalArgs, Is
  <2>4. ArgsUpTo(pos) => ArgsUpTo(pos)'
    BY <2>1, <2>2, <2>3 DEF ArgsUpTo
  <2> QED BY <2>1, <2>4 DEF ArgsInv
<1> QED BY <1>1, <1>2, <1>3, <1>4, <1>5, <1>6, <1>7 DEF ParseDockerfile

-----------------------------------------------------------------------------
(* The stages are those of images from outside                             *)

CountUpTo(n) == Cardinality({j \in ExternalFroms : j <= n})

StagesUpTo(n) ==
    /\ Len(stages) = CountUpTo(n)
    /\ \A i \in ExternalFroms :
          i <= n => stages[CountUpTo(i)].BaseImage = NameOf(ImageOf(i))

StagesInv ==
    /\ phase = "scan" => stages = <<>>
    /\ phase = "parse" => StagesUpTo(pos - 1)
    /\ phase = "done" => StagesUpTo(Len(instructions))

\* The FROMs from outside are finitely many instructions.
LEMMA ExternalNumbers ==
    ASSUME DockerTypeOK
    PROVE  /\ ExternalFroms \subseteq 1..Len(instructions) /\ Len(instructions) \in Nat
           /\ \A n : IsFiniteSet({j \in ExternalFroms : j <= n})
<1>1. ExternalFroms \subseteq 1..Len(instructions) /\ Len(instructions) \in Nat
  BY InstructionNumbers DEF ExternalFroms
<1>2. IsFiniteSet(1..Len(instructions))
  BY <1>1, FS_Interval
<1>3. \A n : {j \in ExternalFroms : j <= n} \subseteq 1..Len(instructions)
  BY <1>1
<1> QED BY <1>1, <1>2, <1>3, FS_Subset

\* The count goes up by one at each of them.
LEMMA Counted ==
    ASSUME DockerTypeOK, NEW n \in Nat \ {0}
    PROVE  /\ CountUpTo(n - 1) \in Nat
           /\ CountUpTo(n) = IF n \in ExternalFroms THEN CountUpTo(n - 1) + 1 ELSE CountUpTo(n - 1)
           /\ \A i \in ExternalFroms : i <= n - 1 => CountUpTo(i) \in 1..CountUpTo(n - 1)
<1> DEFINE To(m) == {j \in ExternalFroms : j <= m}
<1>1. \A m : IsFiniteSet(To(m)) /\ CountUpTo(m) = Cardinality(To(m))
  BY ExternalNumbers DEF CountUpTo
<1>2. \A j \in ExternalFroms : j \in Nat
  BY ExternalNumbers
<1>3. To(n) = IF n \in ExternalFroms THEN To(n - 1) \cup {n} ELSE To(n - 1)
  BY <1>2
<1>4. n \notin To(n - 1)
  OBVIOUS
<1>5. ASSUME NEW i \in ExternalFroms, i <= n - 1 PROVE To(i) \subseteq To(n - 1) /\ i \in To(i)
  BY <1>2, <1>5
<1> HIDE DEF To
<1>6. CountUpTo(n - 1) \in Nat
  BY <1>1, FS_CardinalityType
<1>7. CountUpTo(n) = IF n \in ExternalFroms THEN CountUpTo(n - 1) + 1 ELSE CountUpTo(n - 1)
  <2>1. CASE n \in ExternalFroms
    <3>1. Cardinality(To(n - 1) \cup {n}) = Cardinality(To(n - 1)) + 1
      BY <1>1, <1>4, FS_AddElement
    <3> QED BY <1>1, <1>3, <2>1, <3>1
  <2>2. CASE n \notin ExternalFroms
    BY <1>1, <1>3, <2>2
  <2> QED BY <2>1, <2>2
<1>8. ASSUME NEW i \in ExternalFroms, i <= n - 1 PROVE CountUpTo(i) \in 1..CountUpTo(n - 1)
  <2>1. Cardinality(To(i)) <= Cardinality(To(n - 1)) /\ Cardinality(To(i)) \in Nat
    BY <1>1, <1>5, <1>8, FS_Subset, FS_CardinalityType
  <2>2. Cardinality(To(i)) # 0
    BY <1>1, <1>5, <1>8, FS_EmptySet
  <2> QED BY <1>1, <1>6, <2>1, <2>2
<1> QED BY <1>6, <1>7, <1>8

\* While the instructions stay, so do the FROMs from outside.
LEMMA SameExternal ==
    ASSUME instructions' = instructions
    PROVE  /\ ExternalFroms' = ExternalFroms
           /\ \A i : ImageOf(i)' = ImageOf(i)
           /\ \A n : CountUpTo(n)' = CountUpTo(n)
<1>1. \A i : ImageOf(i)' = ImageOf(i)
  <2>1. ArgValue' = ArgValue /\ \A name, n : LastSetter(name, n)' = LastSetter(name, n)
    BY SameInstructions
  <2> QED BY <2>1 DEF ImageOf, Meaning
<1>2. ExternalFroms' = ExternalFroms
  BY <1>1 DEF ExternalFroms, Is
<1> QED BY <1>1, <1>2 DEF CountUpTo

\* While instructions and stages stay, so does their relation.
LEMMA SameStages ==
    ASSUME instructions' = instructions, stages' = stages
    PROVE  \A n : StagesUpTo(n) <=> StagesUpTo(n)'
BY SameExternal DEF StagesUpTo

\* What a FROM is taken for: its image, its name and whether it is a stage's.
LEMMA FromRead ==
    ASSUME DockerTypeOK, ArgsUpTo(pos), pos \in DOMAIN instructions, Is(pos, "from")
    PROVE  LET k == ImageAt(Value) IN
           /\ pos \in ExternalFroms <=>
                 ~(k = 0 \/ IsAlias(Value[k]) \/ Base(Value[k]).BaseImage = "")
           /\ k # 0 => Base(Value[k]).BaseImage = NameOf(ImageOf(pos))
<1> DEFINE k == ImageAt(Value)
           word == Value[k]
<1>0. pos \in Nat
  BY InstructionNumbers
<1>1. ImageOf(pos) = Meaning(word, pos)
  BY DEF ImageOf, Value
<1> HIDE DEF word
<1>2. /\ resolveArgReferences(word) = ImageOf(pos)
      /\ ~Resolvable(word) => ImageOf(pos) = word /\ word \in DOMAIN Reference
  BY <1>0, <1>1, Resolved
<1>3. Base(word).BaseImage = NameOf(ImageOf(pos))
  <2>1. CASE Resolvable(word)
    BY <1>2, <2>1 DEF Base, splitDockerImageReference, NameOf
  <2>2. CASE ~Resolvable(word)
    <3>1. word \notin DOMAIN Image
      BY <1>2, <2>2, ReferenceAssumption
    <3> QED BY <1>2, <2>2, <3>1 DEF Base, NameOf
  <2> QED BY <2>1, <2>2
<1>4. IsAlias(word) <=> \E j \in FromsBefore(pos) : Lower(ImageOf(pos)) \in Alias(instructions[j].value)
  BY <1>2 DEF IsAlias, ArgsUpTo
<1>5. \A j \in DOMAIN instructions :
         ImageAt(instructions[j].value) = 0 => Alias(instructions[j].value) = {}
  BY DEF Alias
<1>6. pos \in ExternalFroms <=>
        /\ k # 0 /\ NameOf(ImageOf(pos)) # ""
        /\ \A j \in FromsBefore(pos) : Lower(ImageOf(pos)) \notin Alias(instructions[j].value)
  <2>1. pos \in ExternalFroms <=>
          /\ k # 0 /\ NameOf(ImageOf(pos)) # ""
          /\ \A j \in FromsBefore(pos) :
                ImageAt(instructions[j].value) # 0
                  => Lower(ImageOf(pos)) \notin Alias(instructions[j].value)
    BY DEF ExternalFroms, FromsBefore, Value
  <2> QED BY <1>5, <2>1 DEF FromsBefore
<1> QED BY <1>3, <1>4, <1>6 DEF word

\* Before the first instruction there are no stages.
LEMMA StagesInit == DockerfileInit \/ NoDockerfile => StagesInv
<1> SUFFICES ASSUME DockerfileInit \/ NoDockerfile PROVE StagesInv
  OBVIOUS
<1>1. phase \in {"scan", "idle"} /\ stages = <<>>
  BY DEF DockerfileInit, NoDockerfile, DockerfileStart
<1> QED BY <1>1 DEF StagesInv

\* An instruction that adds no stage is read.
LEMMA NoStageRead ==
    ASSUME DockerTypeOK, StagesUpTo(pos - 1), pos \in DOMAIN instructions, pos \notin ExternalFroms,
           instructions' = instructions, stages' = stages, pos' = pos + 1
    PROVE  StagesUpTo(pos - 1)'
<1>0. pos \in Nat \ {0}
  BY InstructionNumbers
<1>1. CountUpTo(pos) = CountUpTo(pos - 1)
  BY <1>0, Counted
<1>2. \A i \in ExternalFroms : i <= pos => i <= pos - 1
  BY <1>0, ExternalNumbers
<1>3. StagesUpTo(pos)
  BY <1>1, <1>2 DEF StagesUpTo
<1>4. PICK n : n = pos
  OBVIOUS
<1>5. StagesUpTo(n)'
  BY <1>3, <1>4, SameStages
<1>6. pos' - 1 = n
  BY <1>0, <1>4
<1> QED BY <1>5, <1>6, Zenon DEF StagesUpTo

\* A FROM with an image from outside is read.
LEMMA StageRead ==
    ASSUME DockerTypeOK, SummaryInv, StagesUpTo(pos - 1), pos \in ExternalFroms,
           instructions' = instructions, pos' = pos + 1,
           NEW base, base.BaseImage = NameOf(ImageOf(pos)), AddStage(base)
    PROVE  StagesUpTo(pos - 1)'
<1> DEFINE last == [StageIndex |-> Len(stages), BaseImage |-> base.BaseImage, BaseTag |-> base.BaseTag]
<1>0. pos \in Nat \ {0} /\ pos \in DOMAIN instructions
  BY ExternalNumbers, InstructionNumbers
<1>1. stages' = Append(stages, last)
  BY DEF AddStage
<1>2. last.BaseImage = NameOf(ImageOf(pos))
  OBVIOUS
<1> HIDE DEF last
<1>3. /\ Len(stages) \in Nat /\ Len(stages') = Len(stages) + 1
      /\ stages'[Len(stages) + 1] = last
      /\ \A n \in 1..Len(stages) : stages'[n] = stages[n]
  BY <1>1, Appended DEF SummaryInv
<1>4. /\ Len(stages) = CountUpTo(pos - 1)
      /\ \A i \in ExternalFroms :
            i <= pos - 1 => stages[CountUpTo(i)].BaseImage = NameOf(ImageOf(i))
  BY DEF StagesUpTo
<1>5. /\ CountUpTo(pos) = CountUpTo(pos - 1) + 1
      /\ \A i \in ExternalFroms : i <= pos - 1 => CountUpTo(i) \in 1..CountUpTo(pos - 1)
  BY <1>0, Counted
<1>6. ASSUME NEW i \in ExternalFroms, i <= pos
      PROVE  stages'[CountUpTo(i)].BaseImage = NameOf(ImageOf(i))
  <2>1. CASE i = pos
    BY <1>2, <1>3, <1>4, <1>5, <2>1
  <2>2. CASE i <= pos - 1
    <3>1. CountUpTo(i) \in 1..Len(stages)
      BY <1>4, <1>5, <2>2
    <3>2. stages'[CountUpTo(i)] = stages[CountUpTo(i)]
      BY <1>3, <3>1
    <3> QED BY <1>4, <2>2, <3>2
  <2>3. i \in Nat
    BY ExternalNumbers
  <2> QED BY <1>0, <1>6, <2>1, <2>2, <2>3
<1>7. Len(stages') = CountUpTo(pos)
  BY <1>3, <1>4, <1>5
<1>8. PICK n : n = pos
  OBVIOUS
<1>9. /\ ExternalFroms' = ExternalFroms
      /\ \A i : ImageOf(i)' = ImageOf(i) /\ CountUpTo(i)' = CountUpTo(i)
  BY SameExternal
<1>10. StagesUpTo(n)'
  <2>1. Len(stages') = CountUpTo(n)'
    BY <1>7, <1>8, <1>9
  <2>2. \A i \in ExternalFroms' :
           i <= n => stages'[CountUpTo(i)'].BaseImage = NameOf(ImageOf(i))'
    BY <1>6, <1>8, <1>9 DEF NameOf
  <2> QED BY <2>1, <2>2 DEF StagesUpTo
<1>11. pos' - 1 = n
  BY <1>0, <1>8
<1> QED BY <1>10, <1>11, Zenon DEF StagesUpTo

\* Every turn keeps the stages those of the FROMs from outside read so far.
LEMMA StagesStep ==
    DockerTypeOK /\ SummaryInv /\ ArgsInv /\ StagesInv /\ [ParseDockerfile]_dockerVars => StagesInv'
<1> SUFFICES ASSUME DockerTypeOK, SummaryInv, ArgsInv, StagesInv, [ParseDockerfile]_dockerVars
             PROVE  StagesInv'
  OBVIOUS
<1>1. CASE SkipLine \/ ContinueInstruction \/ EndInstruction
  <2>1. phase = "scan" /\ phase' = phase /\ stages' = stages
    BY <1>1 DEF SkipLine, ContinueInstruction, EndInstruction, Taken, Scanning, NextLine, resultVars
  <2> QED BY <2>1 DEF StagesInv
<1>2. CASE EndOfText
  <2>1. phase = "scan" /\ phase' = "parse" /\ pos' = 1 /\ stages' = stages
    BY <1>2 DEF EndOfText, resultVars
  <2>2. stages' = <<>> /\ Len(stages') = 0
    BY <2>1 DEF StagesInv
  <2>3. ExternalFroms' \subseteq Nat \ {0}
    <3> DEFINE Instruction == [keyword : WordsOfText', value : Seq(WordsOfText')]
    <3>1. instructions' \in Seq(Instruction)
      BY DockerTypeStep DEF DockerTypeOK
    <3> HIDE DEF Instruction
    <3>2. DOMAIN instructions' \subseteq Nat \ {0}
      BY <3>1, LenProperties
    <3> QED BY <3>2 DEF ExternalFroms
  <2>4. {j \in ExternalFroms' : j <= 0} = {}
    <3> SUFFICES ASSUME NEW j \in ExternalFroms', j <= 0 PROVE FALSE
      OBVIOUS
    <3>1. j \in Nat \ {0}
      BY <2>3
    <3> QED BY <3>1
  <2>5. Cardinality({j \in ExternalFroms' : j <= 0}) = 0
    BY <2>4, FS_EmptySet
  <2>6. StagesUpTo(0)'
    BY <2>2, <2>4, <2>5 DEF StagesUpTo, CountUpTo
  <2>7. pos' - 1 = 0
    BY <2>1
  <2>8. StagesUpTo(pos - 1)'
    BY <2>6, <2>7, Zenon DEF StagesUpTo
  <2> QED BY <2>1, <2>8 DEF StagesInv
<1>3. CASE Arg \/ From \/ OtherInstruction
  <2>1. /\ phase = "parse" /\ phase' = phase /\ pos \in DOMAIN instructions /\ pos' = pos + 1
        /\ instructions' = instructions
    BY <1>3 DEF Arg, From, OtherInstruction, Reading, NextInstruction, scanVars
  <2>2. StagesUpTo(pos - 1) /\ ArgsUpTo(pos)
    BY <2>1 DEF StagesInv, ArgsInv
  <2>3. ASSUME pos \notin ExternalFroms, stages' = stages PROVE StagesInv'
    <3>1. StagesUpTo(pos - 1)'
      BY <2>1, <2>2, <2>3, NoStageRead
    <3> QED BY <2>1, <3>1 DEF StagesInv
  <2>4. CASE Arg \/ OtherInstruction
    <3>1. ~Is(pos, "from") /\ stages' = stages
      BY <2>4 DEF Arg, OtherInstruction, Reading, Is
    <3>2. pos \notin ExternalFroms
      BY <3>1 DEF ExternalFroms
    <3> QED BY <2>3, <3>1, <3>2
  <2>5. CASE From
    <3> DEFINE k == ImageAt(Value)
               base == Base(Value[k])
    <3>1. Is(pos, "from")
      BY <2>5 DEF From, Reading, Is
    <3>2. /\ pos \in ExternalFroms <=> ~(k = 0 \/ IsAlias(Value[k]) \/ base.BaseImage = "")
          /\ k # 0 => base.BaseImage = NameOf(ImageOf(pos))
      BY <2>1, <2>2, <3>1, FromRead
    <3>3. IF k = 0 \/ IsAlias(Value[k]) \/ base.BaseImage = "" THEN UNCHANGED resultVars
          ELSE AddStage(base)
      BY <2>5 DEF From
    <3> HIDE DEF base
    <3>4. CASE pos \notin ExternalFroms
      BY <2>3, <3>2, <3>3, <3>4 DEF resultVars
    <3>5. CASE pos \in ExternalFroms
      <4>1. k # 0 /\ AddStage(base) /\ base.BaseImage = NameOf(ImageOf(pos))
        BY <3>2, <3>3, <3>5
      <4>2. StagesUpTo(pos - 1)'
        BY <2>1, <2>2, <3>5, <4>1, StageRead
      <4> QED BY <2>1, <4>2 DEF StagesInv
    <3> QED BY <3>4, <3>5
  <2> QED BY <1>3, <2>4, <2>5
<1>4. CASE Return
  <2>1. /\ phase = "parse" /\ pos \notin DOMAIN instructions /\ phase' = "done"
        /\ instructions' = instructions /\ stages' = stages
    BY <1>4 DEF Return, scanVars
  <2>2. pos \in 1..(Len(instructions) + 1)
    BY <2>1 DEF DockerTypeOK
  <2>3. pos - 1 = Len(instructions)
    BY <2>1, <2>2, InstructionNumbers
  <2>4. PICK n : n = Len(instructions)
    OBVIOUS
  <2>5. StagesUpTo(n)
    BY <2>1, <2>3, <2>4, Zenon DEF StagesInv, StagesUpTo
  <2>6. StagesUpTo(n)'
    BY <2>1, <2>5, SameStages
  <2>7. StagesUpTo(Len(instructions))'
    BY <2>1, <2>4, <2>6, Zenon DEF StagesUpTo
  <2> QED BY <2>1, <2>7, Zenon DEF StagesInv
<1>5. CASE UNCHANGED dockerVars
  <2>1. UNCHANGED <<phase, pos, instructions, stages>>
    BY <1>5 DEF dockerVars, scanVars, resultVars
  <2>2. \A n : StagesUpTo(n) <=> StagesUpTo(n)'
    BY <2>1, SameStages
  <2>3. PICK n : n = pos - 1
    OBVIOUS
  <2>4. PICK m : m = Len(instructions)
    OBVIOUS
  <2>5. StagesUpTo(pos - 1) => StagesUpTo(pos - 1)'
    BY <2>1, <2>2, <2>3, Zenon DEF StagesUpTo
  <2>6. StagesUpTo(Len(instructions)) => StagesUpTo(Len(instructions))'
    BY <2>1, <2>2, <2>4, Zenon DEF StagesUpTo
  <2> QED BY <2>1, <2>5, <2>6 DEF StagesInv
<1> QED BY <1>1, <1>2, <1>3, <1>4, <1>5 DEF ParseDockerfile

\* At the end these are all of them.
LEMMA StagesSafe == DockerTypeOK /\ StagesInv => StagesAreExternal
<1> SUFFICES ASSUME DockerTypeOK, StagesInv, phase = "done" PROVE StagesAreExternal
  BY DEF StagesAreExternal
<1>1. StagesUpTo(Len(instructions))
  BY DEF StagesInv
<1>2. \A i \in ExternalFroms : i <= Len(instructions)
  BY ExternalNumbers
<1>3. {j \in ExternalFroms : j <= Len(instructions)} = ExternalFroms
  BY <1>2
<1> QED BY <1>1, <1>2, <1>3, Zenon DEF StagesUpTo, CountUpTo, StagesAreExternal

-----------------------------------------------------------------------------
(* The instructions are those of the kept lines                            *)

\* Lines are numbered from 1.
LEMMA LineNumbers ==
    ASSUME DockerTypeOK
    PROVE  Len(text) \in Nat /\ DOMAIN text = 1..Len(text) /\ Kept \subseteq 1..Len(text)
<1>1. Len(text) \in Nat /\ DOMAIN text = 1..Len(text)
  BY LenProperties DEF DockerTypeOK
<1> QED BY <1>1 DEF Kept

\* The kept line before line i.
LEMMA LineBefore ==
    ASSUME DockerTypeOK, NEW i, KeptBefore(i) # {}
    PROVE  /\ Max(KeptBefore(i)) \in Kept /\ Max(KeptBefore(i)) < i
           /\ \A j \in KeptBefore(i) : j <= Max(KeptBefore(i))
<1>1. KeptBefore(i) \in SUBSET (1..Len(text)) /\ Len(text) \in Nat
  BY LineNumbers DEF KeptBefore
<1>2. Max(KeptBefore(i)) \in KeptBefore(i) /\ \A j \in KeptBefore(i) : j <= Max(KeptBefore(i))
  BY <1>1, Greatest
<1> QED BY <1>2 DEF KeptBefore

\* The words up to line i if f has those up to the lines before it.
JoinedTo(f, i) ==
    IF JoinsLineBefore(i) THEN f[Max(KeptBefore(i))] \o text[i].words ELSE text[i].words

\* Such a function exists: a line is joined to an earlier one only.
LEMMA WordsToExist ==
    ASSUME DockerTypeOK
    PROVE  \E f : f = [i \in Kept |-> JoinedTo(f, i)]
<1> DEFINE Upto(n) == {i \in Kept : i <= n}
           Fits(f, n) == f = [i \in Upto(n) |-> JoinedTo(f, i)]
           Unfit == {n \in Nat : ~\E f : Fits(f, n)}
<1>0. Kept \subseteq Nat \ {0}
  BY LineNumbers
<1>1. SUFFICES Unfit = {}
  <2>1. Len(text) \in Nat /\ Upto(Len(text)) = Kept
    BY LineNumbers
  <2>2. \E f : Fits(f, Len(text))
    BY <1>1, <2>1
  <2> HIDE DEF Upto
  <2> QED BY <2>1, <2>2
<1>2. SUFFICES ASSUME Unfit # {} PROVE FALSE
  OBVIOUS
<1>3. PICK n \in Unfit : \A k \in Unfit : n <= k
  <2>1. Unfit \in SUBSET Nat
    OBVIOUS
  <2> HIDE DEF Unfit
  <2> QED BY <1>2, <2>1, Least
<1>4. \E f : Fits(f, n)
  <2>1. CASE n = 0
    <3>1. Upto(n) = {}
      <4>1. \A i \in Kept : ~(i <= 0)
        BY <1>0
      <4> QED BY <2>1, <4>1
    <3> DEFINE f == [i \in {} |-> 0]
    <3>2. f = [i \in {} |-> JoinedTo(f, i)]
      OBVIOUS
    <3> HIDE DEF Upto, f
    <3> QED BY <3>1, <3>2
  <2>2. CASE n # 0
    <3>1. n - 1 \in Nat /\ n - 1 \notin Unfit
      <4>1. n \in Nat /\ Unfit \subseteq Nat
        OBVIOUS
      <4> HIDE DEF Unfit
      <4> QED BY <1>3, <2>2, <4>1
    <3>2. PICK f : Fits(f, n - 1)
      BY <3>1
    <3> DEFINE g == [i \in Upto(n) |-> JoinedTo(f, i)]
    <3>3. ASSUME NEW i \in Upto(n) PROVE JoinedTo(g, i) = JoinedTo(f, i)
      <4> DEFINE before == Max(KeptBefore(i))
      <4>1. CASE ~JoinsLineBefore(i)
        BY <4>1 DEF JoinedTo
      <4>2. CASE JoinsLineBefore(i)
        <5>1. i \in Nat /\ i <= n /\ n \in Nat
          BY <1>0
        <5>2. before \in Kept /\ before < i
          BY <4>2, LineBefore DEF JoinsLineBefore
        <5>3. before \in Nat
          BY <1>0, <5>2
        <5>4. before \in Upto(n) /\ before \in Upto(n - 1)
          BY <5>1, <5>2, <5>3
        <5> HIDE DEF before, Upto
        <5>5. g[before] = JoinedTo(f, before) /\ f[before] = JoinedTo(f, before)
          BY <3>2, <5>4
        <5>6. g[before] = f[before]
          BY <5>5
        <5> HIDE DEF g
        <5> QED BY <4>2, <5>6, Zenon DEF JoinedTo, before
      <4> QED BY <4>1, <4>2
    <3>4. g = [i \in Upto(n) |-> JoinedTo(g, i)]
      <4> HIDE DEF Upto
      <4>1. \A i \in Upto(n) : JoinedTo(f, i) = JoinedTo(g, i)
        BY <3>3
      <4> QED BY <4>1
    <3> HIDE DEF g
    <3> QED BY <3>4
  <2> QED BY <2>1, <2>2
<1> QED BY <1>3, <1>4

\* The recursive definition of the joined words, unfolded once.
LEMMA WordsAre ==
    ASSUME DockerTypeOK, NEW i \in Kept
    PROVE  WordsTo[i] = JoinedTo(WordsTo, i)
<1>1. PICK f : f = [k \in Kept |-> JoinedTo(f, k)]
  BY WordsToExist
<1>2. WordsTo = CHOOSE g : g = [k \in Kept |-> JoinedTo(g, k)]
  BY DEF WordsTo, JoinedTo
<1>3. WordsTo = [k \in Kept |-> JoinedTo(WordsTo, k)]
  BY <1>1, <1>2
<1> HIDE DEF WordsTo
<1> QED BY <1>3

\* The elements of a set of numbers, counted, when a greater one is added.
LEMMA GreaterCounted ==
    ASSUME NEW m \in Nat \ {0}, NEW E \in SUBSET (1..(m - 1))
    PROVE  /\ Cardinality(E) \in Nat /\ Cardinality(E \cup {m}) = Cardinality(E) + 1
           /\ Cardinality({j \in E \cup {m} : j <= m}) = Cardinality(E) + 1
           /\ \A i \in E : /\ {j \in E \cup {m} : j <= i} = {j \in E : j <= i}
                           /\ Cardinality({j \in E : j <= i}) \in 1..Cardinality(E)
<1>1. IsFiniteSet(E) /\ Cardinality(E) \in Nat
  <2>1. IsFiniteSet(1..(m - 1))
    BY FS_Interval
  <2> QED BY <2>1, FS_Subset, FS_CardinalityType
<1>2. Cardinality(E \cup {m}) = Cardinality(E) + 1
  <2>1. m \notin E
    OBVIOUS
  <2> QED BY <1>1, <2>1, FS_AddElement
<1>3. {j \in E \cup {m} : j <= m} = E \cup {m}
  <2>1. \A j \in E \cup {m} : j <= m
    OBVIOUS
  <2> QED BY <2>1
<1>4. ASSUME NEW i \in E
      PROVE  /\ {j \in E \cup {m} : j <= i} = {j \in E : j <= i}
             /\ Cardinality({j \in E : j <= i}) \in 1..Cardinality(E)
  <2> DEFINE To == {j \in E : j <= i}
  <2>1. {j \in E \cup {m} : j <= i} = To
    OBVIOUS
  <2>2. To \subseteq E /\ i \in To
    OBVIOUS
  <2> HIDE DEF To
  <2>3. IsFiniteSet(To) /\ Cardinality(To) <= Cardinality(E) /\ Cardinality(To) \in Nat
    BY <1>1, <2>2, FS_Subset, FS_CardinalityType
  <2>4. Cardinality(To) # 0
    BY <2>2, <2>3, FS_EmptySet
  <2>5. Cardinality(To) \in 1..Cardinality(E)
    BY <1>1, <2>3, <2>4
  <2> QED BY <2>1, <2>5 DEF To
<1> QED BY <1>1, <1>2, <1>3, <1>4

AsInstruction(words) == [keyword |-> Head(words), value |-> Tail(words)]

\* The instructions are those that end in these lines.
InstructionsOver(E) ==
    /\ Len(instructions) = Cardinality(E)
    /\ \A i \in E : instructions[Cardinality({j \in E : j <= i})] = AsInstruction(WordsTo[i])

\* The lines before n that end an instruction, and what is left open at n.
LastLinesBefore(n) == {j \in Kept : j < n /\ ~text[j].continues /\ WordsTo[j] # <<>>}
ContinuedTo(n) == n - 1 \in Kept /\ text[n - 1].continues
OpenAt(n) == IF ContinuedTo(n) THEN WordsTo[n - 1] ELSE <<>>

JoinedUpTo(n) == current = OpenAt(n) /\ InstructionsOver(LastLinesBefore(n))

JoinInv ==
    Uninterrupted =>
        /\ phase = "scan" => JoinedUpTo(pos)
        /\ phase \in {"parse", "done"} => InstructionsOver(LastLines)

\* While the text stays, so do its lines and the words they add up to.
LEMMA TextKept ==
    ASSUME text' = text
    PROVE  /\ Kept' = Kept /\ WordsTo' = WordsTo /\ LastLines' = LastLines
           /\ Uninterrupted' <=> Uninterrupted
           /\ \A n : LastLinesBefore(n)' = LastLinesBefore(n) /\ OpenAt(n)' = OpenAt(n)
<1>1. Kept' = Kept
  BY DEF Kept, Skipped
<1>2. WordsTo' = WordsTo
  BY <1>1, SMT DEF WordsTo, JoinsLineBefore, KeptBefore
<1>3. LastLines' = LastLines
  BY <1>1, <1>2 DEF LastLines
<1>4. Uninterrupted' <=> Uninterrupted
  BY DEF Uninterrupted
<1>5. \A n : LastLinesBefore(n)' = LastLinesBefore(n) /\ OpenAt(n)' = OpenAt(n)
  BY <1>1, <1>2 DEF LastLinesBefore, OpenAt, ContinuedTo
<1> QED BY <1>1, <1>2, <1>3, <1>4, <1>5

\* A line that goes on is followed by one that is kept.
LEMMA NotInterrupted ==
    ASSUME DockerTypeOK, Uninterrupted, NEW i \in Kept, text[i].continues, i < Len(text)
    PROVE  i + 1 \in Kept
<1>1. i \in Nat /\ i + 1 \in 2..Len(text) /\ i + 1 \in DOMAIN text /\ i \in DOMAIN text
  BY LineNumbers
<1>2. ~IsComment(text[i])
  BY DEF Kept, Skipped
<1>3. PICK n : n = i + 1
  OBVIOUS
<1>4. n \in 2..Len(text) /\ n - 1 = i
  BY <1>1, <1>3
<1>5. ~Skipped(text[n])
  BY <1>2, <1>4 DEF Uninterrupted
<1> QED BY <1>1, <1>3, <1>5 DEF Kept

\* So a kept line goes on the line right before it, or none.
LEMMA WordsUpTo ==
    ASSUME DockerTypeOK, Uninterrupted, NEW n \in Kept
    PROVE  WordsTo[n] = OpenAt(n) \o text[n].words
<1>0. n \in Nat \ {0} /\ n \in DOMAIN text /\ n <= Len(text) /\ Len(text) \in Nat
  BY LineNumbers
<1>1. WordsTo[n] = JoinedTo(WordsTo, n)
  BY WordsAre
<1>2. CASE ContinuedTo(n)
  <2>1. n - 1 \in KeptBefore(n)
    BY <1>0, <1>2 DEF ContinuedTo, KeptBefore
  <2>2. Max(KeptBefore(n)) \in Kept /\ Max(KeptBefore(n)) < n /\ n - 1 <= Max(KeptBefore(n))
    BY <2>1, LineBefore
  <2>3. Max(KeptBefore(n)) = n - 1
    <3>1. PICK m : m = Max(KeptBefore(n))
      OBVIOUS
    <3>2. m \in Nat /\ m < n /\ n - 1 <= m
      BY <2>2, <3>1, LineNumbers
    <3> QED BY <1>0, <3>1, <3>2
  <2>4. JoinsLineBefore(n)
    BY <1>2, <2>1, <2>3 DEF JoinsLineBefore, ContinuedTo
  <2> QED BY <1>1, <1>2, <2>3, <2>4 DEF JoinedTo, OpenAt
<1>3. CASE ~ContinuedTo(n)
  <2>1. ~JoinsLineBefore(n)
    <3> SUFFICES ASSUME JoinsLineBefore(n) PROVE FALSE
      OBVIOUS
    <3> DEFINE m == Max(KeptBefore(n))
    <3>1. KeptBefore(n) # {} /\ text[m].continues
      BY DEF JoinsLineBefore
    <3>2. m \in Kept /\ m < n /\ \A j \in KeptBefore(n) : j <= m
      BY <3>1, LineBefore
    <3> HIDE DEF m
    <3>3. m \in Nat
      BY <3>2, LineNumbers
    <3>4. m + 1 \in Kept
      BY <1>0, <3>1, <3>2, <3>3, NotInterrupted
    <3>5. m + 1 = n
      BY <1>0, <3>2, <3>3, <3>4 DEF KeptBefore
    <3>6. n - 1 = m
      BY <1>0, <3>3, <3>5
    <3> QED BY <1>3, <3>1, <3>2, <3>6 DEF ContinuedTo, m
  <2>2. text[n].words \in Seq(WordsOfText)
    BY <1>0, WordsAreOfText DEF DockerTypeOK
  <2>3. <<>> \o text[n].words = text[n].words
    <3> PICK s : s = text[n].words
      OBVIOUS
    <3>1. <<>> \o s = s
      BY <2>2
    <3> QED BY <3>1
  <2> QED BY <1>1, <1>3, <2>1, <2>3, Zenon DEF JoinedTo, OpenAt
<1> QED BY <1>2, <1>3

\* One more instruction.
LEMMA InstructionAdded ==
    ASSUME DockerTypeOK, NEW m \in Nat \ {0}, NEW E \in SUBSET (1..(m - 1)),
           InstructionsOver(E), text' = text,
           instructions' = Append(instructions, AsInstruction(WordsTo[m]))
    PROVE  InstructionsOver(E \cup {m})'
<1> DEFINE F == E \cup {m}
           last == AsInstruction(WordsTo[m])
<1>1. /\ Len(instructions) \in Nat /\ Len(instructions') = Len(instructions) + 1
      /\ instructions'[Len(instructions) + 1] = last
      /\ \A n \in 1..Len(instructions) : instructions'[n] = instructions[n]
  <2> DEFINE Instruction == [keyword : WordsOfText, value : Seq(WordsOfText)]
  <2>1. instructions \in Seq(Instruction)
    BY DEF DockerTypeOK
  <2> HIDE DEF Instruction, last
  <2>2. instructions \in Seq(ToSet(instructions))
    <3>1. \A k \in DOMAIN instructions : instructions[k] \in ToSet(instructions)
      BY DEF ToSet
    <3> QED BY <2>1, <3>1, SeqOver
  <2>3. instructions' = Append(instructions, last)
    BY DEF last
  <2> QED BY <2>2, <2>3, Appended
<1>2. /\ Cardinality(E) \in Nat /\ Cardinality(F) = Cardinality(E) + 1
      /\ Cardinality({j \in F : j <= m}) = Cardinality(E) + 1
      /\ \A i \in E : /\ {j \in F : j <= i} = {j \in E : j <= i}
                      /\ Cardinality({j \in E : j <= i}) \in 1..Cardinality(E)
  BY GreaterCounted
<1>3. /\ Len(instructions) = Cardinality(E)
      /\ \A i \in E : instructions[Cardinality({j \in E : j <= i})] = AsInstruction(WordsTo[i])
  BY DEF InstructionsOver
<1>4. WordsTo' = WordsTo
  BY TextKept
<1> HIDE DEF last
<1>5. Len(instructions') = Cardinality(F)
  BY <1>1, <1>2, <1>3
<1>6. ASSUME NEW i \in F
      PROVE  instructions'[Cardinality({j \in F : j <= i})] = AsInstruction(WordsTo[i])
  <2>1. CASE i = m
    BY <1>1, <1>2, <1>3, <2>1 DEF last
  <2>2. CASE i \in E
    <3> DEFINE n == Cardinality({j \in E : j <= i})
    <3>1. n \in 1..Len(instructions) /\ instructions[n] = AsInstruction(WordsTo[i])
      BY <1>2, <1>3, <2>2
    <3>2. Cardinality({j \in F : j <= i}) = n
      BY <1>2, <2>2
    <3> HIDE DEF n, F
    <3> QED BY <1>1, <3>1, <3>2
  <2> QED BY <2>1, <2>2
<1> HIDE DEF F
<1>7. \A i \in F : instructions'[Cardinality({j \in F : j <= i})] = AsInstruction(WordsTo'[i])
  BY <1>4, <1>6
<1>8. InstructionsOver(F)'
  BY <1>5, <1>7, Zenon DEF InstructionsOver, AsInstruction
<1> QED BY <1>8 DEF F

\* Before the first line nothing is open and there are no instructions.
LEMMA JoinInit == DockerfileInit \/ NoDockerfile => JoinInv
<1> SUFFICES ASSUME DockerfileInit \/ NoDockerfile PROVE JoinInv
  OBVIOUS
<1>1. /\ phase \notin {"parse", "done"}
      /\ pos = 1 /\ current = <<>> /\ instructions = <<>>
  BY DEF DockerfileInit, NoDockerfile, DockerfileStart
<1>2. ASSUME phase = "scan" PROVE JoinedUpTo(1)
  <2>1. DockerTypeOK
    BY DockerTypeInit
  <2>2. \A i \in Kept : i \in Nat \ {0}
    BY <2>1, LineNumbers
  <2>3. 0 \notin Kept /\ \A i \in Kept : ~(i < 1)
    BY <2>2
  <2>4. LastLinesBefore(1) = {} /\ OpenAt(1) = <<>>
    BY <2>3 DEF LastLinesBefore, OpenAt, ContinuedTo
  <2>5. Len(instructions) = 0 /\ Cardinality({}) = 0
    BY <1>1, FS_EmptySet
  <2> QED BY <1>1, <2>4, <2>5 DEF JoinedUpTo, InstructionsOver
<1> QED BY <1>1, <1>2, Zenon DEF JoinInv

\* The lines up to n that end an instruction.
LEMMA LastLinesTo ==
    ASSUME DockerTypeOK, NEW n \in DOMAIN text
    PROVE  LastLinesBefore(n + 1) =
             IF n \in Kept /\ ~text[n].continues /\ WordsTo[n] # <<>>
             THEN LastLinesBefore(n) \cup {n} ELSE LastLinesBefore(n)
<1>1. n \in Nat
  BY LineNumbers
<1>2. ASSUME NEW j \in Kept PROVE j < n + 1 <=> j < n \/ j = n
  BY <1>1, LineNumbers
<1> QED BY <1>2 DEF LastLinesBefore

\* All of them: the last line may be left open.
LEMMA LastLinesToEnd ==
    ASSUME DockerTypeOK, Uninterrupted, NEW n, n = Len(text) + 1
    PROVE  LastLines = IF OpenAt(n) # <<>> THEN LastLinesBefore(n) \cup {n - 1} ELSE LastLinesBefore(n)
<1>1. n \in Nat /\ n - 1 = Len(text) /\ Len(text) \in Nat
  BY LineNumbers
<1>2. ASSUME NEW i \in Kept
      PROVE  (text[i].continues => \A j \in Kept : j <= i) <=> ~text[i].continues \/ i = n - 1
  <2>1. \A j \in Kept : j \in Nat /\ j <= n - 1
    BY <1>1, LineNumbers
  <2>2. text[i].continues /\ i # n - 1 => i + 1 \in Kept
    BY <1>1, <2>1, NotInterrupted
  <2> QED BY <1>1, <2>1, <2>2
<1>3. \A i \in Kept : i < n
  BY <1>1, LineNumbers
<1>4. LastLines = {i \in Kept : (~text[i].continues \/ i = n - 1) /\ WordsTo[i] # <<>>}
  BY <1>2 DEF LastLines
<1>5. LastLinesBefore(n) = {i \in Kept : ~text[i].continues /\ WordsTo[i] # <<>>}
  BY <1>3 DEF LastLinesBefore
<1> QED BY <1>4, <1>5 DEF OpenAt, ContinuedTo

\* While text and instructions stay, so does their relation.
LEMMA SameInstructionsOver ==
    ASSUME text' = text, instructions' = instructions
    PROVE  \A E : InstructionsOver(E) <=> InstructionsOver(E)'
BY TextKept, Zenon DEF InstructionsOver, AsInstruction

\* A line is taken when it is kept, and completes the words up to it.
LEMMA LineTaken ==
    ASSUME DockerTypeOK, Uninterrupted, Taken, current = OpenAt(pos)
    PROVE  /\ pos \in Kept
           /\ current \o Line.words = WordsTo[pos]
<1>1. pos \in DOMAIN text /\ ~(current = <<>> /\ Ignored(Line)) /\ Line = text[pos]
  BY DEF Taken, Scanning, Line
<1>2. pos \in Kept
  <2> SUFFICES ASSUME pos \notin Kept PROVE FALSE
    OBVIOUS
  <2>1. Ignored(Line)
    BY <1>1 DEF Kept, Skipped, Ignored
  <2>2. ContinuedTo(pos)
    BY <1>1, <2>1 DEF OpenAt
  <2>3. PICK i : i = pos - 1
    OBVIOUS
  <2>4. i \in Kept /\ text[i].continues
    BY <2>2, <2>3 DEF ContinuedTo
  <2>5. i \in Nat /\ i < Len(text) /\ i + 1 = pos
    BY <1>1, <2>3, <2>4, LineNumbers
  <2>6. i + 1 \in Kept
    BY <2>4, <2>5, NotInterrupted
  <2> QED BY <2>5, <2>6
<1> QED BY <1>1, <1>2, WordsUpTo

\* Every turn keeps the instructions those of the lines read so far.
LEMMA JoinStep == DockerTypeOK /\ JoinInv /\ [ParseDockerfile]_dockerVars => JoinInv'
<1> SUFFICES ASSUME DockerTypeOK, JoinInv, [ParseDockerfile]_dockerVars, Uninterrupted'
             PROVE  /\ phase' = "scan" => JoinedUpTo(pos)'
                    /\ phase' \in {"parse", "done"} => InstructionsOver(LastLines)'
  BY DEF JoinInv
<1>1. text' = text
  BY DEF ParseDockerfile, SkipLine, ContinueInstruction, EndInstruction, EndOfText, NextLine,
     Arg, From, OtherInstruction, Return, NextInstruction, dockerVars
<1>2. Uninterrupted
  BY <1>1, TextKept
<1> PICK n : n = pos
  OBVIOUS
<1>3. phase = "scan" => current = OpenAt(n) /\ InstructionsOver(LastLinesBefore(n))
  BY <1>2 DEF JoinInv, JoinedUpTo
<1>4. ASSUME n \in DOMAIN text, phase' = "scan", pos' = n + 1,
             current' = OpenAt(n + 1), InstructionsOver(LastLinesBefore(n + 1))'
      PROVE  JoinedUpTo(pos)'
  <2>1. current' = OpenAt(n + 1)'
    BY <1>1, <1>4, TextKept
  <2>2. JoinedUpTo(n + 1)'
    BY <1>4, <2>1, Zenon DEF JoinedUpTo
  <2> QED BY <1>4, <2>2, Zenon DEF JoinedUpTo
<1>5. n \in DOMAIN text =>
          OpenAt(n + 1) = IF n \in Kept /\ text[n].continues THEN WordsTo[n] ELSE <<>>
  <2>1. PICK m : m = n + 1
    OBVIOUS
  <2>2. n \in DOMAIN text => m - 1 = n
    BY <2>1, LineNumbers
  <2>3. n \in DOMAIN text =>
          OpenAt(m) = IF n \in Kept /\ text[n].continues THEN WordsTo[n] ELSE <<>>
    BY <2>2, Zenon DEF OpenAt, ContinuedTo
  <2> QED BY <2>1, <2>3, Zenon
<1>6. CASE SkipLine
  <2>1. /\ phase = "scan" /\ n \in DOMAIN text /\ current = <<>> /\ Ignored(text[n])
        /\ phase' = "scan" /\ pos' = n + 1 /\ current' = current /\ instructions' = instructions
    BY <1>6 DEF SkipLine, Scanning, NextLine, scanVars, Line
  <2>2. n \notin Kept
    BY <2>1 DEF Kept, Skipped, Ignored
  <2>3. current' = OpenAt(n + 1)
    BY <1>5, <2>1, <2>2, Zenon
  <2>4. LastLinesBefore(n + 1) = LastLinesBefore(n)
    BY <2>1, <2>2, LastLinesTo
  <2>5. InstructionsOver(LastLinesBefore(n + 1))'
    BY <1>1, <1>3, <2>1, <2>4, SameInstructionsOver, TextKept
  <2> QED BY <1>4, <2>1, <2>3, <2>5
<1>7. CASE ContinueInstruction
  <2>1. /\ phase = "scan" /\ n \in DOMAIN text /\ text[n].continues
        /\ phase' = "scan" /\ pos' = n + 1 /\ instructions' = instructions
        /\ current' = current \o Line.words /\ Taken
    BY <1>7 DEF ContinueInstruction, Taken, Scanning, NextLine, Line
  <2>2. n \in Kept /\ current' = WordsTo[n]
    BY <1>2, <1>3, <2>1, LineTaken
  <2>3. current' = OpenAt(n + 1)
    BY <1>5, <2>1, <2>2, Zenon
  <2>4. LastLinesBefore(n + 1) = LastLinesBefore(n)
    BY <2>1, LastLinesTo
  <2>5. InstructionsOver(LastLinesBefore(n + 1))'
    BY <1>1, <1>3, <2>1, <2>4, SameInstructionsOver, TextKept
  <2> QED BY <1>4, <2>1, <2>3, <2>5
<1>8. CASE EndInstruction
  <2>1. /\ phase = "scan" /\ n \in DOMAIN text /\ ~text[n].continues
        /\ phase' = "scan" /\ pos' = n + 1 /\ current' = <<>>
        /\ instructions' = Flushed(current \o Line.words) /\ Taken
    BY <1>8 DEF EndInstruction, Taken, Scanning, NextLine, Line
  <2>2. n \in Kept /\ instructions' = Flushed(WordsTo[n])
    BY <1>2, <1>3, <2>1, LineTaken
  <2>3. current' = OpenAt(n + 1)
    BY <1>5, <2>1, <2>2, Zenon
  <2>4. CASE WordsTo[n] = <<>>
    <3>1. instructions' = instructions /\ LastLinesBefore(n + 1) = LastLinesBefore(n)
      BY <2>1, <2>2, <2>4, LastLinesTo DEF Flushed
    <3>2. InstructionsOver(LastLinesBefore(n + 1))'
      BY <1>1, <1>3, <2>1, <3>1, SameInstructionsOver, TextKept
    <3> QED BY <1>4, <2>1, <2>3, <3>2
  <2>5. CASE WordsTo[n] # <<>>
    <3>1. /\ instructions' = Append(instructions, AsInstruction(WordsTo[n]))
          /\ LastLinesBefore(n + 1) = LastLinesBefore(n) \cup {n}
      BY <2>1, <2>2, <2>5, LastLinesTo DEF Flushed, AsInstruction
    <3>2. LastLinesBefore(n) \in SUBSET (1..(n - 1)) /\ n \in Nat \ {0}
      BY <2>1, LineNumbers DEF LastLinesBefore
    <3>3. PICK E : E = LastLinesBefore(n)
      OBVIOUS
    <3>4. InstructionsOver(E \cup {n})'
      BY <1>1, <1>3, <2>1, <3>1, <3>2, <3>3, InstructionAdded
    <3>5. LastLinesBefore(n + 1)' = E \cup {n}
      BY <1>1, <3>1, <3>3, TextKept
    <3>6. InstructionsOver(LastLinesBefore(n + 1))'
      BY <3>4, <3>5, Zenon DEF InstructionsOver
    <3> QED BY <1>4, <2>1, <2>3, <3>6
  <2> QED BY <2>4, <2>5
<1>9. CASE EndOfText
  <2>1. /\ phase = "scan" /\ n \notin DOMAIN text /\ phase' = "parse"
        /\ instructions' = Flushed(current)
    BY <1>9 DEF EndOfText
  <2>2. n = Len(text) + 1 /\ n - 1 = Len(text)
    <3>1. n \in 1..(Len(text) + 1)
      BY <2>1 DEF DockerTypeOK
    <3> QED BY <2>1, <3>1, LineNumbers
  <2>3. CASE current = <<>>
    <3>1. instructions' = instructions /\ LastLines = LastLinesBefore(n)
      BY <1>2, <1>3, <2>1, <2>2, <2>3, LastLinesToEnd DEF Flushed
    <3>2. InstructionsOver(LastLines)'
      BY <1>1, <1>3, <2>1, <3>1, SameInstructionsOver, TextKept
    <3> QED BY <2>1, <3>2
  <2>4. CASE current # <<>>
    <3>1. ContinuedTo(n) /\ current = WordsTo[n - 1]
      BY <1>3, <2>1, <2>4 DEF OpenAt
    <3>2. PICK m : m = n - 1
      OBVIOUS
    <3>3. /\ instructions' = Append(instructions, AsInstruction(WordsTo[m]))
          /\ LastLines = LastLinesBefore(n) \cup {m}
      BY <1>2, <1>3, <2>1, <2>2, <2>4, <3>1, <3>2, LastLinesToEnd DEF Flushed, AsInstruction
    <3>4. m \in Nat \ {0} /\ m \in Kept /\ text[m].continues /\ m = Len(text)
      BY <2>2, <3>1, <3>2, LineNumbers DEF ContinuedTo
    <3>5. LastLinesBefore(n) \in SUBSET (1..(m - 1))
      <4>1. \A j \in Kept : j \in Nat \ {0}
        BY LineNumbers
      <4>2. \A j \in Kept : j < n /\ j # m => j \in 1..(m - 1)
        <5> SUFFICES ASSUME NEW j \in Kept, j < n, j # m PROVE j \in 1..(m - 1)
          OBVIOUS
        <5>1. j \in Nat \ {0} /\ j <= m
          BY <3>4, LineNumbers
        <5> QED BY <3>4, <5>1
      <4>3. m \notin LastLinesBefore(n)
        BY <3>4 DEF LastLinesBefore
      <4> QED BY <4>2, <4>3 DEF LastLinesBefore
    <3>6. PICK E : E = LastLinesBefore(n)
      OBVIOUS
    <3>7. InstructionsOver(E \cup {m})'
      BY <1>1, <1>3, <2>1, <3>3, <3>4, <3>5, <3>6, InstructionAdded
    <3>8. LastLines' = E \cup {m}
      BY <1>1, <3>3, <3>6, TextKept
    <3>9. InstructionsOver(LastLines)'
      BY <3>7, <3>8, Zenon DEF InstructionsOver
    <3> QED BY <2>1, <3>9
  <2> QED BY <2>3, <2>4
<1>10. CASE Arg \/ From \/ OtherInstruction \/ Return
  <2>1. phase = "parse" /\ phase' \in {"parse", "done"} /\ instructions' = instructions
    BY <1>10 DEF Arg, From, OtherInstruction, Return, Reading, NextInstruction, scanVars
  <2>2. InstructionsOver(LastLines)
    BY <1>2, <2>1 DEF JoinInv
  <2>3. InstructionsOver(LastLines)'
    BY <1>1, <2>1, <2>2, SameInstructionsOver, TextKept
  <2> QED BY <2>1, <2>3
<1>11. CASE UNCHANGED dockerVars
  <2>1. UNCHANGED <<phase, pos, current, instructions>>
    BY <1>11 DEF dockerVars, scanVars
  <2>2. phase \in {"parse", "done"} => InstructionsOver(LastLines)'
    BY <1>1, <1>2, <2>1, SameInstructionsOver, TextKept DEF JoinInv
  <2>3. phase = "scan" => JoinedUpTo(n)'
    <3> SUFFICES ASSUME phase = "scan" PROVE JoinedUpTo(n)'
      OBVIOUS
    <3>1. InstructionsOver(LastLinesBefore(n))'
      BY <1>1, <1>3, <2>1, SameInstructionsOver, TextKept
    <3>2. current' = OpenAt(n)'
      BY <1>1, <1>3, <2>1, TextKept
    <3> QED BY <3>1, <3>2 DEF JoinedUpTo
  <2>4. phase = "scan" => JoinedUpTo(pos)'
    BY <2>1, <2>3, Zenon DEF JoinedUpTo
  <2> QED BY <2>1, <2>2, <2>4
<1> QED BY <1>6, <1>7, <1>8, <1>9, <1>10, <1>11 DEF ParseDockerfile

\* At the end of the text these are all of them.
LEMMA JoinSafe == JoinInv => JoinedAsDocker
BY Zenon DEF JoinInv, InstructionsOver, AsInstruction, JoinedAsDocker
=============================================================================
