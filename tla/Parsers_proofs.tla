--------------------------- MODULE Parsers_proofs ---------------------------
(***************************************************************************)
(* Proofs about the two parsers, for any Dockerfiles and workflows. The    *)
(* invariant says of every loop what it has found in what it has read; the *)
(* theorems are what that comes to when the loops end.                     *)
(***************************************************************************)
EXTENDS Parsers, Dockerfile_proofs

-----------------------------------------------------------------------------
(* The types of ParseCIConfig                                              *)

Lines == file.lines

\* The types of the parts of a file.
LEMMA FileTyped ==
    ASSUME file \in File
    PROVE  /\ Lines \in Seq([indent : Nat, dash : BOOLEAN, key : STRING, style : STRING, words : Seq(STRING)])
           /\ file.docs \in Seq([readable : BOOLEAN, on : Seq(SUBSET STRING), secrets : Seq(STRING)])
BY DEF File, Lines

\* The types of the parts of a line.
LEMMA LineTyped ==
    ASSUME file \in File, NEW n \in DOMAIN Lines
    PROVE  /\ Lines[n].indent \in Nat /\ Lines[n].dash \in BOOLEAN
           /\ Lines[n].key \in WordsOfFile /\ Lines[n].style \in WordsOfFile
           /\ Lines[n].words \in Seq(WordsOfFile)
<1> DEFINE R == [indent : Nat, dash : BOOLEAN, key : STRING, style : STRING, words : Seq(STRING)]
<1>1. Lines \in Seq(R)
  BY FileTyped
<1> HIDE DEF R
<1>2. Lines[n] \in R
  BY <1>1
<1>3. Lines[n].indent \in Nat /\ Lines[n].dash \in BOOLEAN /\ Lines[n].words \in Seq(STRING)
  BY <1>2 DEF R
<1>4. ToSet(Lines[n].words) \cup {Lines[n].key, Lines[n].style} \subseteq WordsOfFile
  BY DEF WordsOfFile, Lines
<1>5. \A k \in DOMAIN Lines[n].words : Lines[n].words[k] \in WordsOfFile
  BY <1>4 DEF ToSet
<1> QED BY <1>3, <1>4, <1>5, SeqOver

\* The types of the parts of a document.
LEMMA DocTyped ==
    ASSUME file \in File, NEW n \in DOMAIN file.docs
    PROVE  /\ file.docs[n].readable \in BOOLEAN
           /\ file.docs[n].secrets \in Seq(SecretsOfFile)
<1> DEFINE R == [readable : BOOLEAN, on : Seq(SUBSET STRING), secrets : Seq(STRING)]
<1>1. file.docs \in Seq(R)
  BY FileTyped
<1> HIDE DEF R
<1>2. file.docs[n] \in R
  BY <1>1
<1>3. file.docs[n].readable \in BOOLEAN /\ file.docs[n].secrets \in Seq(STRING)
  BY <1>2 DEF R
<1>4. \A k \in DOMAIN file.docs[n].secrets : file.docs[n].secrets[k] \in SecretsOfFile
  BY DEF SecretsOfFile, ToSet
<1> QED BY <1>3, <1>4, SeqOver

\* The lengths of what the loops go over.
LEMMA Lengths ==
    ASSUME WorkflowTypeOK
    PROVE  /\ Len(file.lines) \in Nat /\ DOMAIN file.lines = 1..Len(file.lines)
           /\ Len(file.docs) \in Nat /\ DOMAIN file.docs = 1..Len(file.docs)
           /\ Len(result) \in Nat /\ DOMAIN result = 1..Len(result)
<1> DEFINE R == [indent : Nat, dash : BOOLEAN, key : STRING, style : STRING, words : Seq(STRING)]
           D == [readable : BOOLEAN, on : Seq(SUBSET STRING), secrets : Seq(STRING)]
           T == [line : DOMAIN file.lines, words : Seq(WordsOfFile)]
<1>1. file.lines \in Seq(R) /\ file.docs \in Seq(D) /\ result \in Seq(T)
  BY FileTyped DEF WorkflowTypeOK, Lines
<1> HIDE DEF R, D, T
<1> QED BY <1>1, LenProperties

\* The types hold when the writer calls the parser and when it has no workflow.
LEMMA WorkflowTypeInit == WorkflowInit \/ NoWorkflow => WorkflowTypeOK
<1>1. ASSUME NEW content \in File, NEW at \in {"lines", "idle"}, WorkflowStart(content, at)
      PROVE  WorkflowTypeOK
  <2>1. /\ file = content /\ step = at /\ next = 1 /\ inBlock = FALSE /\ blockIndent = 0
        /\ result = <<>> /\ ci = NoCIFeatures /\ namesByKey = <<>>
    BY <1>1 DEF WorkflowStart
  <2>2. DOMAIN namesByKey = {}
    BY <2>1, NoWords
  <2>3. DOMAIN ci = DOMAIN NoCIFeatures /\ ci.flags = {} /\ ci.SecretNames = {}
    BY <2>1 DEF NoCIFeatures
  <2>4. step \in Steps /\ file \in File
    BY <2>1 DEF Steps
  <2>5. result \in Seq([line : DOMAIN file.lines, words : Seq(WordsOfFile)])
    BY <2>1
  <2>6. Len(file.lines) \in Nat
    BY <2>4, FileTyped, LenProperties DEF Lines
  <2>7. next \in Nat \ {0} /\ (step = "lines" => next <= Len(file.lines) + 1)
        /\ step # "commands" /\ step \notin {"trigger", "secrets"}
        /\ inBlock \in BOOLEAN /\ blockIndent \in Nat
    <3>1. 1 \in Nat \ {0} /\ 1 <= Len(file.lines) + 1
      BY <2>6
    <3>2. at # "commands" /\ at \notin {"trigger", "secrets"}
      OBVIOUS
    <3> QED BY <2>1, <3>1, <3>2
  <2> QED BY <2>2, <2>3, <2>4, <2>5, <2>7 DEF WorkflowTypeOK
<1>2. ASSUME WorkflowInit PROVE WorkflowTypeOK
  BY <1>1, <1>2, WorkflowsAssumption DEF WorkflowInit
<1>3. ASSUME NoWorkflow PROVE WorkflowTypeOK
  <2>1. NoFile \in File
    BY DEF NoFile, File
  <2> QED BY <1>1, <1>3, <2>1 DEF NoWorkflow
<1> QED BY <1>2, <1>3

\* Flags that a workflow can get keep the type of the features.
LEMMA CIFlagsAdded ==
    ASSUME NEW more, DOMAIN ci = {"flags", "SecretNames"}
    PROVE  /\ DOMAIN WithCIFlags(more) = {"flags", "SecretNames"}
           /\ WithCIFlags(more).flags = ci.flags \cup more
           /\ WithCIFlags(more).SecretNames = ci.SecretNames
BY DEF WithCIFlags

\* The first spelling of a key in a document is one of the key.
LEMMA FirstSpelling ==
    ASSUME NEW S, NEW s \in Seq(S), NEW k \in DOMAIN s
    PROVE  LET first == CHOOSE i \in DOMAIN s : /\ Upper(s[i]) = Upper(s[k])
                                               /\ \A j \in 1..(i - 1) : Upper(s[j]) # Upper(s[k])
           IN  first \in DOMAIN s /\ Upper(s[first]) = Upper(s[k])
<1> DEFINE Same == {i \in DOMAIN s : Upper(s[i]) = Upper(s[k])}
           key == Upper(s[k])
<1>1. DOMAIN s = 1..Len(s) /\ Len(s) \in Nat
  BY LenProperties
<1>2. Same \in SUBSET Nat /\ Same # {}
  BY <1>1
<1>3. PICK n \in Same : \A i \in Same : n <= i
  BY <1>2, Least
<1>4. n \in DOMAIN s /\ Upper(s[n]) = key
  OBVIOUS
<1> HIDE DEF key
<1>5. ASSUME NEW j \in 1..(n - 1) PROVE Upper(s[j]) # key
  <2>1. j \in DOMAIN s /\ j < n /\ n \in Nat
    BY <1>1, <1>4
  <2>2. j \notin Same
    BY <1>1, <1>3, <2>1
  <2> QED BY <2>1, <2>2 DEF key
<1>6. \E i \in DOMAIN s : Upper(s[i]) = key /\ \A j \in 1..(i - 1) : Upper(s[j]) # key
  BY <1>4, <1>5, Zenon
<1> QED BY <1>6, Zenon DEF key

\* Names are collected under their keys, those of the document as they stand there.
LEMMA CollectedNames ==
    ASSUME NEW doc, NEW S, doc.secrets \in Seq(S)
    PROVE  /\ DOMAIN Collected(doc) =
                DOMAIN namesByKey \cup {Upper(doc.secrets[i]) : i \in DOMAIN doc.secrets}
           /\ \A key \in DOMAIN Collected(doc) :
                IF key \in DOMAIN namesByKey THEN Collected(doc)[key] = namesByKey[key]
                ELSE \E i \in DOMAIN doc.secrets : /\ Collected(doc)[key] = doc.secrets[i]
                                                  /\ Upper(doc.secrets[i]) = key
           /\ (\A key \in DOMAIN namesByKey : namesByKey[key] \in S)
                => \A key \in DOMAIN Collected(doc) : Collected(doc)[key] \in S
<1> DEFINE s == doc.secrets
           Keys == {Upper(s[i]) : i \in DOMAIN s}
           First(key) == CHOOSE i \in DOMAIN s : /\ Upper(s[i]) = key
                                                /\ \A j \in 1..(i - 1) : Upper(s[j]) # key
           new == [key \in DOMAIN namesByKey \cup Keys |->
                     IF key \in DOMAIN namesByKey THEN namesByKey[key] ELSE s[First(key)]]
<1>1. Collected(doc) = new
  BY DEF Collected
<1>2. ASSUME NEW key \in Keys PROVE First(key) \in DOMAIN s /\ Upper(s[First(key)]) = key
  <2>1. PICK k \in DOMAIN s : key = Upper(s[k])
    OBVIOUS
  <2>2. s \in Seq(S)
    OBVIOUS
  <2> HIDE DEF s
  <2>3. First(Upper(s[k])) \in DOMAIN s /\ Upper(s[First(Upper(s[k]))]) = Upper(s[k])
    BY <2>2, FirstSpelling
  <2> HIDE DEF First
  <2> QED BY <2>1, <2>3
<1> HIDE DEF First
<1>3. DOMAIN new = DOMAIN namesByKey \cup Keys
  OBVIOUS
<1>4. ASSUME NEW key \in DOMAIN new, key \notin DOMAIN namesByKey
      PROVE  /\ First(key) \in DOMAIN s /\ new[key] = s[First(key)] /\ Upper(s[First(key)]) = key
  BY <1>2, <1>3, <1>4
<1>5. \A key \in DOMAIN namesByKey : key \in DOMAIN new /\ new[key] = namesByKey[key]
  OBVIOUS
<1>6. \A i \in DOMAIN s : s[i] \in S
  OBVIOUS
<1> HIDE DEF new, Keys
<1>7. \A key \in DOMAIN new : IF key \in DOMAIN namesByKey THEN new[key] = namesByKey[key]
                              ELSE \E i \in DOMAIN s : new[key] = s[i] /\ Upper(s[i]) = key
  BY <1>4, <1>5, Zenon
<1>8. ASSUME \A key \in DOMAIN namesByKey : namesByKey[key] \in S, NEW key \in DOMAIN new
      PROVE  new[key] \in S
  BY <1>4, <1>5, <1>6, <1>8, Zenon
<1> QED BY <1>1, <1>3, <1>7, <1>8, Zenon DEF Keys

\* Every turn of the loops keeps the types.
LEMMA WorkflowTypeStep == WorkflowTypeOK /\ [ParseCIConfig]_workflowVars => WorkflowTypeOK'
<1> SUFFICES ASSUME WorkflowTypeOK, [ParseCIConfig]_workflowVars PROVE WorkflowTypeOK'
  OBVIOUS
<1> DEFINE W == WordsOfFile
           N == SecretsOfFile
           Taking == [line : DOMAIN Lines, words : Seq(W)]
<1>1. file' = file
  BY DEF ParseCIConfig, extractRunLines, SkipBlank, TakeBlockLine, SkipOther, OpenBlock, InlineRun,
         EndOfLines, JudgeLine, LinesJudged, TriggerNotHere, TriggerKnown, CollectSecretNames,
         SecretsKnown, SecretsUnknown, NextYamlLine, NextItem, GoTo, workflowVars
<1>2. WordsOfFile' = W /\ SecretsOfFile' = N /\ Lines' = Lines
  BY <1>1 DEF WordsOfFile, SecretsOfFile, Lines
<1>3. /\ file \in File /\ step \in Steps /\ next \in Nat \ {0}
      /\ step = "lines" => next <= Len(Lines) + 1
      /\ step = "commands" => next <= Len(result) + 1
      /\ step \in {"trigger", "secrets"} => next <= Len(file.docs) + 1
      /\ inBlock \in BOOLEAN /\ blockIndent \in Nat /\ result \in Seq(Taking)
      /\ ci.flags \subseteq CIFlags /\ ci.SecretNames \subseteq N
      /\ DOMAIN ci = {"flags", "SecretNames"}
      /\ \A key \in DOMAIN namesByKey : namesByKey[key] \in N
  BY DEF WorkflowTypeOK, Lines, NoCIFeatures
<1>4. /\ Len(Lines) \in Nat /\ DOMAIN Lines = 1..Len(Lines)
      /\ Len(file.docs) \in Nat /\ DOMAIN file.docs = 1..Len(file.docs)
      /\ Len(result) \in Nat /\ DOMAIN result = 1..Len(result)
  BY Lengths DEF Lines
<1> HIDE DEF W, N
<1>0. DOMAIN NoCIFeatures = {"flags", "SecretNames"}
  BY DEF NoCIFeatures
<1>5. ASSUME step' \in Steps, next' \in Nat \ {0},
             step' = "lines" => next' <= Len(Lines) + 1,
             step' = "commands" => next' <= Len(result') + 1,
             step' \in {"trigger", "secrets"} => next' <= Len(file.docs) + 1,
             inBlock' \in BOOLEAN, blockIndent' \in Nat, result' \in Seq(Taking),
             ci'.flags \subseteq CIFlags, ci'.SecretNames \subseteq N,
             DOMAIN ci' = {"flags", "SecretNames"},
             \A key \in DOMAIN namesByKey' : namesByKey'[key] \in N
      PROVE  WorkflowTypeOK'
  BY <1>1, <1>2, <1>3, <1>5, <1>0, Zenon DEF WorkflowTypeOK, Lines, W, N
<1> HIDE DEF Taking
<1>6. CASE SkipBlank \/ TakeBlockLine \/ SkipOther \/ OpenBlock \/ InlineRun
  <2>1. /\ step = "lines" /\ next \in DOMAIN Lines /\ next' = next + 1
        /\ UNCHANGED <<step, ci, namesByKey>>
    BY <1>6 DEF SkipBlank, TakeBlockLine, SkipOther, OpenBlock, InlineRun, Outside, Extracting,
                NextYamlLine, Lines
  <2>2. next' \in Nat \ {0} /\ next' <= Len(Lines) + 1
    BY <1>3, <1>4, <2>1
  <2>3. inBlock' \in BOOLEAN /\ blockIndent' \in Nat
    BY <1>3, <1>6, <2>1, LineTyped DEF SkipBlank, TakeBlockLine, SkipOther, OpenBlock, InlineRun,
       blockVars, YamlLine, Lines
  <2>4. result' \in Seq(Taking)
    <3>1. ASSUME NEW words \in Seq(W), Take(words) PROVE result' \in Seq(Taking)
      <4>1. [line |-> next, words |-> words] \in Taking
        BY <2>1 DEF Taking
      <4> QED BY <1>3, <3>1, <4>1 DEF Take
    <3>2. /\ YamlLine.key \in W /\ YamlLine.style \in W /\ YamlLine.words \in Seq(W) /\ "-" \in W
      BY <1>3, <2>1, LineTyped DEF YamlLine, Lines, W, WordsOfFile
    <3>3. WholeText(YamlLine) \in Seq(W)
      <4>1. <<"-">> \in Seq(W) /\ <<YamlLine.key>> \in Seq(W) /\ <<>> \in Seq(W)
        BY <3>2
      <4> DEFINE dash == IF YamlLine.dash THEN <<"-">> ELSE <<>>
                 name == IF YamlLine.key = "" THEN <<>> ELSE <<YamlLine.key>>
      <4>2. dash \in Seq(W) /\ name \in Seq(W)
        BY <4>1
      <4> HIDE DEF dash, name
      <4>3. dash \o name \in Seq(W)
        BY <4>2
      <4>4. (dash \o name) \o YamlLine.words \in Seq(W)
        BY <3>2, <4>3
      <4> QED BY <4>4 DEF WholeText, dash, name
    <3>4. InlineText(YamlLine) \in Seq(W)
      BY <3>2 DEF InlineText
    <3> QED BY <1>3, <1>6, <3>1, <3>3, <3>4 DEF SkipBlank, TakeBlockLine, SkipOther, OpenBlock, InlineRun
  <2> QED BY <1>3, <1>5, <2>1, <2>2, <2>3, <2>4
<1>7. CASE EndOfLines \/ LinesJudged \/ TriggerKnown \/ SecretsKnown \/ SecretsUnknown
  <2>1. /\ step' \in {"commands", "trigger", "secrets", "done"} /\ next' = 1
        /\ UNCHANGED <<inBlock, blockIndent, result, namesByKey>>
    BY <1>7 DEF EndOfLines, LinesJudged, TriggerKnown, SecretsKnown, SecretsUnknown, GoTo, blockVars
  <2>2. /\ ci'.flags \subseteq CIFlags /\ ci'.SecretNames \subseteq N
        /\ DOMAIN ci' = {"flags", "SecretNames"}
    <3>1. CASE EndOfLines \/ LinesJudged \/ SecretsUnknown
      BY <1>3, <3>1 DEF EndOfLines, LinesJudged, SecretsUnknown
    <3>2. CASE TriggerKnown
      <4>1. {f \in {"UsesPullRequestTarget"} : Decoded} \subseteq CIFlags
        BY DEF CIFlags
      <4> QED BY <1>3, <3>2, <4>1, CIFlagsAdded DEF TriggerKnown
    <3>3. CASE SecretsKnown
      <4> DEFINE names == {namesByKey[key] : key \in DOMAIN namesByKey}
      <4>1. names \subseteq N
        BY <1>3
      <4>2. ci' = [ci EXCEPT !.SecretNames = names]
        BY <3>3 DEF SecretsKnown
      <4> HIDE DEF names
      <4> QED BY <1>3, <4>1, <4>2
    <3> QED BY <1>7, <3>1, <3>2, <3>3
  <2>3. /\ step' \in Steps /\ next' \in Nat \ {0} /\ next' <= Len(Lines) + 1
        /\ next' <= Len(result') + 1 /\ next' <= Len(file.docs) + 1
    BY <1>4, <2>1 DEF Steps
  <2> QED BY <1>3, <1>5, <2>1, <2>2, <2>3
<1>8. CASE JudgeLine
  <2> DEFINE line == result[next].words
             more == ShellFlags(line) \cup {f \in {"UsesSudo"} : isSudo(line)}
                       \cup {f \in {"UsesPackagePublish"} : isPackagePublish(line)}
  <2>1. /\ step = "commands" /\ next \in DOMAIN result /\ next' = next + 1
        /\ ci' = WithCIFlags(more)
        /\ UNCHANGED <<step, inBlock, blockIndent, result, namesByKey>>
    BY <1>8 DEF JudgeLine, NextItem, blockVars
  <2>2. more \subseteq CIFlags
    BY LineFlagsOnly DEF CIFlags
  <2> HIDE DEF more
  <2>3. /\ ci'.flags \subseteq CIFlags /\ ci'.SecretNames \subseteq N
        /\ DOMAIN ci' = {"flags", "SecretNames"}
    BY <1>3, <2>1, <2>2, CIFlagsAdded
  <2>4. next' \in Nat \ {0} /\ next' <= Len(result') + 1
    BY <1>3, <1>4, <2>1
  <2> QED BY <1>3, <1>5, <2>1, <2>3, <2>4
<1>9. CASE TriggerNotHere \/ CollectSecretNames
  <2>1. /\ step \in {"trigger", "secrets"} /\ next \in DOMAIN file.docs /\ next' = next + 1
        /\ UNCHANGED <<step, inBlock, blockIndent, result, ci>>
    BY <1>9 DEF TriggerNotHere, CollectSecretNames, Decoded, NextItem, blockVars
  <2>2. next' \in Nat \ {0} /\ next' <= Len(file.docs) + 1
    BY <1>3, <1>4, <2>1
  <2>3. \A key \in DOMAIN namesByKey' : namesByKey'[key] \in N
    <3>1. CASE TriggerNotHere
      BY <1>3, <3>1 DEF TriggerNotHere
    <3>2. CASE CollectSecretNames
      <4>1. file.docs[next].secrets \in Seq(N)
        BY <1>3, <2>1, DocTyped DEF N
      <4>2. \A i \in DOMAIN file.docs[next].secrets : file.docs[next].secrets[i] \in N
        BY <4>1
      <4>3. namesByKey' = Collected(Document)
        BY <3>2 DEF CollectSecretNames
      <4> QED BY <1>3, <4>1, <4>3, CollectedNames DEF Document
    <3> QED BY <1>9, <3>1, <3>2
  <2> QED BY <1>3, <1>5, <2>1, <2>2, <2>3
<1>10. CASE UNCHANGED workflowVars
  BY <1>3, <1>5, <1>10 DEF workflowVars, blockVars
<1> QED BY <1>6, <1>7, <1>8, <1>9, <1>10 DEF ParseCIConfig, extractRunLines

-----------------------------------------------------------------------------
(* The lines that extractRunLines takes                                    *)

ScanLine == SkipBlank \/ TakeBlockLine \/ SkipOther \/ OpenBlock \/ InlineRun

\* The lines the loop has gone over.
Gone == IF step = "lines" THEN 1..(next - 1) ELSE DOMAIN Lines

\* Line i is a run field, and until line n no line is as far out.
OpenedBy(i, n) ==
    /\ Lines[i].key = "run"
    /\ \A k \in (i + 1)..n : IsEmpty(Lines[k]) \/ Lines[k].indent > Lines[i].indent

\* While in a block, the loop is below the run field that opened it.
OwnStepInv ==
    /\ \A n \in TakenLines : \E i \in 1..n : OpenedBy(i, n)
    /\ step = "lines" /\ inBlock =>
          \E i \in 1..(next - 1) : Lines[i].indent = blockIndent /\ OpenedBy(i, next - 1)

BlockRun(i) == Lines[i].key = "run" /\ Lines[i].style \in BlockStyles

\* Text goes on from the key of line i to line n.
TextTo(i, n) ==
    \A k \in (i + 1)..n : IsEmpty(Lines[k]) \/ Lines[k].indent > KeyColumn(Lines[i])

\* A run field whose text goes on is inside the block the loop is in, if it did
\* not open it itself, and no deeper than its text.
ShellInv ==
    /\ \A i \in Gone : Lines[i].key = "run" /\ Lines[i].style = "plain" => i \in TakenLines
    /\ \A i, j \in Gone :
          BlockRun(i) /\ i < j /\ ~IsEmpty(Lines[j]) /\ TextTo(i, j) => j \in TakenLines
    /\ step = "lines" =>
          \A i \in Gone : BlockRun(i) /\ TextTo(i, next - 1)
                              => inBlock /\ blockIndent <= Lines[i].indent

\* What each turn of the loop does with its line.
LEMMA LineScanned ==
    ASSUME WorkflowTypeOK, ScanLine
    PROVE  /\ step = "lines" /\ next \in DOMAIN Lines /\ next' = next + 1
           /\ file' = file /\ step' = step
           /\ TakenLines' = TakenLines \/ TakenLines' = TakenLines \cup {next}
           /\ Lines[next].key = "run" /\ Lines[next].style = "plain" => next \in TakenLines'
           /\ inBlock /\ ~IsEmpty(Lines[next]) /\ Lines[next].indent > blockIndent
                => next \in TakenLines' /\ UNCHANGED blockVars
           /\ inBlock /\ IsEmpty(Lines[next]) => UNCHANGED blockVars
           /\ BlockRun(next) => inBlock' /\ blockIndent' <= Lines[next].indent
           /\ TakenLines' # TakenLines =>
                \/ Lines[next].key = "run"
                \/ inBlock /\ Lines[next].indent > blockIndent
           /\ inBlock' => \/ Lines[next].key = "run" /\ blockIndent' = Lines[next].indent
                          \/ /\ inBlock /\ blockIndent' = blockIndent
                             /\ IsEmpty(Lines[next]) \/ Lines[next].indent > blockIndent
<1>1. /\ step = "lines" /\ next \in DOMAIN Lines /\ next' = next + 1
      /\ file' = file /\ step' = step /\ Lines[next] = YamlLine
  BY DEF ScanLine, SkipBlank, TakeBlockLine, SkipOther, OpenBlock, InlineRun, Outside,
         Extracting, NextYamlLine, Lines, YamlLine
<1>2. Lines[next].indent \in Nat /\ blockIndent \in Nat /\ inBlock \in BOOLEAN
  BY <1>1, LineTyped DEF WorkflowTypeOK
<1>3. IsEmpty(Lines[next]) => Lines[next].key # "run"
  BY DEF IsEmpty
<1>4. ASSUME NEW words, Take(words) PROVE TakenLines' = TakenLines \cup {next} /\ next \in TakenLines'
  <2> DEFINE last == [line |-> next, words |-> words]
             Taking == [line : DOMAIN file.lines, words : Seq(WordsOfFile)]
  <2>1. result \in Seq(Taking)
    BY DEF WorkflowTypeOK
  <2>2. last.line = next
    OBVIOUS
  <2> HIDE DEF Taking, last
  <2>3. result \in Seq(Taking \cup {last})
    <3>1. \A k \in DOMAIN result : result[k] \in Taking \cup {last}
      BY <2>1
    <3> QED BY <2>1, <3>1, SeqOver
  <2>4. PICK z \in Nat : z = Len(result)
    BY <2>1, LenProperties
  <2>5. /\ DOMAIN result = 1..z /\ DOMAIN result' = 1..(z + 1)
        /\ result'[z + 1] = last /\ \A k \in 1..z : result'[k] = result[k]
    BY <1>4, <2>3, <2>4, AppendProperties, LenProperties DEF Take, last
  <2>6. PICK s, t : s = result /\ t = result'
    OBVIOUS
  <2>7. /\ DOMAIN s = 1..z /\ DOMAIN t = 1..(z + 1)
        /\ t[z + 1] = last /\ \A k \in 1..z : t[k] = s[k]
    BY <2>5, <2>6, Zenon
  <2>8. {t[n].line : n \in DOMAIN t} = {s[n].line : n \in DOMAIN s} \cup {next}
    <3>1. 1..(z + 1) = (1..z) \cup {z + 1}
      BY <2>4
    <3> QED BY <2>2, <2>7, <3>1
  <2>9. TakenLines = {s[n].line : n \in DOMAIN s} /\ TakenLines' = {t[n].line : n \in DOMAIN t}
    BY <2>6, Zenon DEF TakenLines
  <2> QED BY <2>8, <2>9
<1>5. CASE SkipBlank
  <2>1. inBlock /\ IsEmpty(Lines[next]) /\ UNCHANGED <<inBlock, blockIndent, result>>
    BY <1>1, <1>5 DEF SkipBlank, blockVars
  <2> QED BY <1>1, <1>3, <2>1 DEF blockVars, TakenLines, BlockRun
<1>6. CASE TakeBlockLine
  <2>1. /\ inBlock /\ ~IsEmpty(Lines[next]) /\ Lines[next].indent > blockIndent
        /\ Take(WholeText(YamlLine)) /\ UNCHANGED <<inBlock, blockIndent>>
    BY <1>1, <1>6 DEF TakeBlockLine, Inside, blockVars
  <2> QED BY <1>1, <1>2, <1>4, <2>1 DEF blockVars
<1>7. CASE SkipOther \/ OpenBlock \/ InlineRun
  <2>1. inBlock => ~IsEmpty(Lines[next]) /\ ~(Lines[next].indent > blockIndent)
    BY <1>1, <1>7 DEF SkipOther, OpenBlock, InlineRun, Outside, Inside
  <2>2. CASE SkipOther
    <3>1. Lines[next].key # "run" /\ inBlock' = FALSE /\ result' = result
      BY <1>1, <2>2 DEF SkipOther, IsRun
    <3> QED BY <1>1, <2>1, <3>1 DEF TakenLines, BlockRun
  <2>3. CASE OpenBlock
    <3>1. /\ Lines[next].key = "run" /\ Lines[next].style # "plain" /\ inBlock' = TRUE
          /\ blockIndent' = Lines[next].indent /\ result' = result
      BY <1>1, <2>3 DEF OpenBlock, IsRun, BlockStyles
    <3> QED BY <1>1, <1>2, <2>1, <3>1 DEF TakenLines, BlockRun
  <2>4. CASE InlineRun
    <3>1. /\ Lines[next].key = "run" /\ Lines[next].style \notin BlockStyles /\ inBlock' = FALSE
          /\ Take(InlineText(YamlLine))
      BY <1>1, <2>4 DEF InlineRun, IsRun
    <3> QED BY <1>1, <1>4, <2>1, <3>1 DEF BlockRun
  <2> QED BY <1>7, <2>2, <2>3, <2>4
<1> QED BY <1>5, <1>6, <1>7 DEF ScanLine

\* Once the lines are read, nothing about them changes.
LEMMA LinesOver ==
    ASSUME [ParseCIConfig]_workflowVars, ~ScanLine
    PROVE  /\ file' = file /\ result' = result
           /\ \/ step = "lines" /\ step' # "lines" /\ next \notin DOMAIN Lines
              \/ step # "lines" /\ step' # "lines"
              \/ step' = step /\ next' = next /\ inBlock' = inBlock /\ blockIndent' = blockIndent
<1>1. CASE EndOfLines
  BY <1>1 DEF EndOfLines, GoTo, Lines
<1>2. CASE UNCHANGED workflowVars
  BY <1>2 DEF workflowVars, blockVars
<1>3. CASE JudgeLine \/ LinesJudged \/ TriggerNotHere \/ TriggerKnown \/ CollectSecretNames
           \/ SecretsKnown \/ SecretsUnknown
  BY <1>3 DEF JudgeLine, LinesJudged, TriggerNotHere, TriggerKnown, CollectSecretNames,
     SecretsKnown, SecretsUnknown, GoTo, NextItem
<1> QED BY <1>1, <1>2, <1>3 DEF ParseCIConfig, extractRunLines, ScanLine

\* The text between two lines, one line further.
LEMMA OneLineOn ==
    ASSUME NEW n \in Nat \ {0}, NEW i \in 1..(n - 1)
    PROVE  (i + 1)..n = ((i + 1)..(n - 1)) \cup {n}
OBVIOUS

\* What opened a block is the same after one more line of it.
LEMMA OpenedFurther ==
    ASSUME NEW n \in Nat \ {0}, NEW i \in 1..(n - 1), OpenedBy(i, n - 1),
           IsEmpty(Lines[n]) \/ Lines[n].indent > Lines[i].indent
    PROVE  OpenedBy(i, n)
BY OneLineOn DEF OpenedBy

\* While the file stays, so do its runs and the blocks they open.
LEMMA SameText ==
    ASSUME file' = file
    PROVE  /\ \A i, n : OpenedBy(i, n)' <=> OpenedBy(i, n)
           /\ \A i, n : TextTo(i, n)' <=> TextTo(i, n)
           /\ \A i : BlockRun(i)' <=> BlockRun(i)
           /\ \A i : IsEmpty(Lines[i])' <=> IsEmpty(Lines[i])
           /\ Lines' = Lines
BY DEF OpenedBy, TextTo, BlockRun, Lines, IsEmpty, KeyColumn

\* At the start no line is taken.
LEMMA OwnStepInit == WorkflowInit \/ NoWorkflow => OwnStepInv
<1>1. ASSUME WorkflowInit \/ NoWorkflow PROVE result = <<>> /\ inBlock = FALSE
  BY <1>1 DEF WorkflowInit, NoWorkflow, WorkflowStart
<1> QED BY <1>1, NoWords DEF OwnStepInv, TakenLines

\* Every turn takes a line with the run field of its own step only.
LEMMA OwnStepStep ==
    WorkflowTypeOK /\ OwnStepInv /\ [ParseCIConfig]_workflowVars => OwnStepInv'
<1> SUFFICES ASSUME WorkflowTypeOK, OwnStepInv, [ParseCIConfig]_workflowVars PROVE OwnStepInv'
  OBVIOUS
<1>1. CASE ScanLine
  <2>1. /\ step = "lines" /\ next \in DOMAIN Lines /\ next' = next + 1
        /\ file' = file /\ step' = step
        /\ TakenLines' = TakenLines \/ TakenLines' = TakenLines \cup {next}
        /\ TakenLines' # TakenLines =>
                \/ Lines[next].key = "run"
                \/ inBlock /\ Lines[next].indent > blockIndent
        /\ inBlock' => \/ Lines[next].key = "run" /\ blockIndent' = Lines[next].indent
                       \/ /\ inBlock /\ blockIndent' = blockIndent
                          /\ IsEmpty(Lines[next]) \/ Lines[next].indent > blockIndent
    BY <1>1, LineScanned
  <2>2. next \in Nat \ {0} /\ next' - 1 = next
    BY <2>1 DEF WorkflowTypeOK
  <2>3. ASSUME Lines[next].key = "run" PROVE next \in 1..next /\ OpenedBy(next, next)
    BY <2>2, <2>3 DEF OpenedBy
  <2>4. ASSUME inBlock, IsEmpty(Lines[next]) \/ Lines[next].indent > blockIndent
        PROVE  \E i \in 1..next : Lines[i].indent = blockIndent /\ OpenedBy(i, next)
    <3>1. PICK i \in 1..(next - 1) : Lines[i].indent = blockIndent /\ OpenedBy(i, next - 1)
      BY <2>1, <2>4 DEF OwnStepInv
    <3>2. OpenedBy(i, next)
      BY <2>2, <2>4, <3>1, OpenedFurther
    <3>3. i \in 1..next
      BY <2>2
    <3> QED BY <3>1, <3>2, <3>3
  <2>5. \A n \in TakenLines' : \E i \in 1..n : OpenedBy(i, n)
    <3>1. ASSUME TakenLines' # TakenLines PROVE \E i \in 1..next : OpenedBy(i, next)
      BY <2>1, <2>3, <2>4, <3>1, Zenon
    <3>2. \A n \in TakenLines : \E i \in 1..n : OpenedBy(i, n)
      BY Zenon DEF OwnStepInv
    <3> QED BY <2>1, <3>1, <3>2
  <2>6. ASSUME inBlock' PROVE \E i \in 1..next : Lines[i].indent = blockIndent' /\ OpenedBy(i, next)
    BY <2>1, <2>3, <2>4, <2>6, Zenon
  <2>7. Lines' = Lines /\ \A i, n : OpenedBy(i, n)' <=> OpenedBy(i, n)
    BY <2>1, SameText, Zenon
  <2> QED BY <2>2, <2>5, <2>6, <2>7, Zenon DEF OwnStepInv
<1>2. CASE ~ScanLine
  <2>1. /\ file' = file /\ result' = result
        /\ \/ step' # "lines"
           \/ step' = step /\ next' = next /\ inBlock' = inBlock /\ blockIndent' = blockIndent
    BY <1>2, LinesOver
  <2>2. Lines' = Lines /\ \A i, n : OpenedBy(i, n)' <=> OpenedBy(i, n)
    BY <2>1, SameText, Zenon
  <2>3. TakenLines' = TakenLines
    BY <2>1 DEF TakenLines
  <2>4. \A n \in TakenLines' : \E i \in 1..n : OpenedBy(i, n)'
    BY <2>2, <2>3, Zenon DEF OwnStepInv
  <2>5. ASSUME step' = "lines", inBlock'
        PROVE  \E i \in 1..(next' - 1) : Lines'[i].indent = blockIndent' /\ OpenedBy(i, next - 1)'
    <3>1. PICK i \in 1..(next - 1) : Lines[i].indent = blockIndent /\ OpenedBy(i, next - 1)
      BY <2>1, <2>5, Zenon DEF OwnStepInv
    <3> QED BY <2>1, <2>2, <2>5, <3>1, Zenon
  <2> QED BY <2>4, <2>5, Zenon DEF OwnStepInv
<1> QED BY <1>1, <1>2

\* At the start no line is passed.
LEMMA ShellInit == WorkflowInit \/ NoWorkflow => ShellInv
<1>1. ASSUME WorkflowInit PROVE ShellInv
  <2>1. step = "lines" /\ next = 1
    BY <1>1 DEF WorkflowInit, WorkflowStart
  <2>2. Gone = {}
    BY <2>1 DEF Gone
  <2> QED BY <2>2 DEF ShellInv
<1>2. ASSUME NoWorkflow PROVE ShellInv
  <2>1. step = "idle" /\ file = NoFile
    BY <1>2 DEF NoWorkflow, WorkflowStart
  <2>2. Gone = {}
    BY <2>1, NoWords DEF Gone, Lines, NoFile
  <2> QED BY <2>2 DEF ShellInv
<1> QED BY <1>1, <1>2

\* Every turn takes the shell lines it passes.
LEMMA ShellStep ==
    WorkflowTypeOK /\ ShellInv /\ [ParseCIConfig]_workflowVars => ShellInv'
<1> SUFFICES ASSUME WorkflowTypeOK, ShellInv, [ParseCIConfig]_workflowVars PROVE ShellInv'
  OBVIOUS
<1>0. /\ \A i \in Gone : Lines[i].key = "run" /\ Lines[i].style = "plain" => i \in TakenLines
      /\ \A i, j \in Gone :
            BlockRun(i) /\ i < j /\ ~IsEmpty(Lines[j]) /\ TextTo(i, j) => j \in TakenLines
      /\ step = "lines" =>
            \A i \in Gone : BlockRun(i) /\ TextTo(i, next - 1)
                                => inBlock /\ blockIndent <= Lines[i].indent
  BY DEF ShellInv
<1>1. CASE ScanLine
  <2>1. /\ step = "lines" /\ next \in DOMAIN Lines /\ next' = next + 1
        /\ file' = file /\ step' = step
        /\ TakenLines' = TakenLines \/ TakenLines' = TakenLines \cup {next}
        /\ Lines[next].key = "run" /\ Lines[next].style = "plain" => next \in TakenLines'
        /\ inBlock /\ ~IsEmpty(Lines[next]) /\ Lines[next].indent > blockIndent
             => next \in TakenLines' /\ UNCHANGED blockVars
        /\ inBlock /\ IsEmpty(Lines[next]) => UNCHANGED blockVars
        /\ BlockRun(next) => inBlock' /\ blockIndent' <= Lines[next].indent
    BY <1>1, LineScanned
  <2>2. next \in Nat \ {0} /\ next' - 1 = next /\ Len(Lines) \in Nat /\ DOMAIN Lines = 1..Len(Lines)
    BY <2>1, Lengths DEF WorkflowTypeOK, Lines
  <2>3. /\ Gone = 1..(next - 1) /\ Gone' = Gone \cup {next} /\ Gone' \subseteq DOMAIN Lines
        /\ \A i \in Gone : i \in Nat /\ i < next
    BY <2>1, <2>2 DEF Gone
  <2>4. \A i \in Gone' : Lines[i].key = "run" /\ Lines[i].style = "plain" => i \in TakenLines'
    BY <1>0, <2>1, <2>3
  \* What goes on to this line from a run field before it.
  <2>5. ASSUME NEW i \in Gone, BlockRun(i), TextTo(i, next)
        PROVE  /\ inBlock' /\ blockIndent' <= Lines[i].indent
               /\ ~IsEmpty(Lines[next]) => next \in TakenLines'
    <3>1. (i + 1)..next = ((i + 1)..(next - 1)) \cup {next}
      BY <2>2, <2>3, OneLineOn
    <3>2. TextTo(i, next - 1) /\ (IsEmpty(Lines[next]) \/ Lines[next].indent > KeyColumn(Lines[i]))
      BY <2>5, <3>1 DEF TextTo
    <3>3. inBlock /\ blockIndent <= Lines[i].indent
      BY <1>0, <2>1, <2>5, <3>2
    <3>4. Lines[i].indent \in Nat /\ Lines[next].indent \in Nat /\ blockIndent \in Nat
      BY <2>1, <2>3, LineTyped DEF WorkflowTypeOK
    <3>5. IsEmpty(Lines[next]) \/ Lines[next].indent > blockIndent
      BY <3>2, <3>3, <3>4 DEF KeyColumn
    <3>6. /\ ~IsEmpty(Lines[next]) => next \in TakenLines'
          /\ inBlock' = inBlock /\ blockIndent' = blockIndent
      BY <2>1, <3>3, <3>5 DEF blockVars
    <3> QED BY <3>3, <3>6
  <2>6. ASSUME NEW i \in Gone', NEW j \in Gone', BlockRun(i), i < j, ~IsEmpty(Lines[j]), TextTo(i, j)
        PROVE  j \in TakenLines'
    <3>1. i \in Gone
      BY <2>2, <2>3, <2>6
    <3>2. CASE j \in Gone
      BY <1>0, <2>1, <2>6, <3>1, <3>2
    <3>3. CASE j = next
      BY <2>5, <2>6, <3>1, <3>3
    <3> QED BY <2>3, <3>2, <3>3
  <2>7. ASSUME NEW i \in Gone', BlockRun(i), TextTo(i, next)
        PROVE  inBlock' /\ blockIndent' <= Lines[i].indent
    <3>1. CASE i \in Gone
      BY <2>5, <2>7, <3>1
    <3>2. CASE i = next
      BY <2>1, <2>7, <3>2
    <3> QED BY <2>3, <3>1, <3>2
  <2>8. /\ Lines' = Lines /\ \A i, n : TextTo(i, n)' <=> TextTo(i, n)
        /\ \A i : BlockRun(i)' <=> BlockRun(i)
        /\ \A i : IsEmpty(Lines[i])' <=> IsEmpty(Lines[i])
    BY <2>1, SameText, Zenon
  <2> QED BY <2>2, <2>4, <2>6, <2>7, <2>8, Zenon DEF ShellInv
<1>2. CASE ~ScanLine
  <2>1. /\ file' = file /\ result' = result
        /\ \/ step = "lines" /\ step' # "lines" /\ next \notin DOMAIN Lines
           \/ step # "lines" /\ step' # "lines"
           \/ step' = step /\ next' = next /\ inBlock' = inBlock /\ blockIndent' = blockIndent
    BY <1>2, LinesOver
  <2>2. /\ Lines' = Lines /\ \A i, n : TextTo(i, n)' <=> TextTo(i, n)
        /\ \A i : BlockRun(i)' <=> BlockRun(i)
        /\ \A i : IsEmpty(Lines[i])' <=> IsEmpty(Lines[i])
    BY <2>1, SameText, Zenon
  <2>3. TakenLines' = TakenLines
    BY <2>1 DEF TakenLines
  <2>4. Gone' = Gone
    <3>1. CASE step = "lines" /\ step' # "lines" /\ next \notin DOMAIN Lines
      <4>1. /\ next \in Nat \ {0} /\ next <= Len(Lines) + 1 /\ Len(Lines) \in Nat
            /\ DOMAIN Lines = 1..Len(Lines)
        BY <3>1, Lengths DEF WorkflowTypeOK, Lines
      <4>2. next = Len(Lines) + 1
        BY <3>1, <4>1
      <4> QED BY <2>2, <3>1, <4>1, <4>2 DEF Gone
    <3>2. CASE step # "lines" /\ step' # "lines"
      BY <2>2, <3>2 DEF Gone
    <3>3. CASE step' = step /\ next' = next
      BY <2>2, <3>3 DEF Gone
    <3> QED BY <2>1, <3>1, <3>2, <3>3
  <2>5. step' = "lines" => step = "lines" /\ next' = next /\ inBlock' = inBlock /\ blockIndent' = blockIndent
    BY <2>1
  <2>6. \A i \in Gone' : Lines'[i].key = "run" /\ Lines'[i].style = "plain" => i \in TakenLines'
    BY <1>0, <2>2, <2>3, <2>4
  <2>7. \A i, j \in Gone' : BlockRun(i)' /\ i < j /\ ~IsEmpty(Lines[j])' /\ TextTo(i, j)'
                              => j \in TakenLines'
    BY <1>0, <2>2, <2>3, <2>4
  <2>8. ASSUME step' = "lines", NEW i \in Gone', BlockRun(i)', TextTo(i, next - 1)'
        PROVE  inBlock' /\ blockIndent' <= Lines'[i].indent
    BY <1>0, <2>2, <2>4, <2>5, <2>8
  <2> QED BY <2>6, <2>7, <2>8, Zenon DEF ShellInv
<1> QED BY <1>1, <1>2

\* At the end every shell line is taken.
LEMMA ShellLinesTaken == WorkflowTypeOK /\ ShellInv => ShellLinesAreTaken
<1> SUFFICES ASSUME WorkflowTypeOK, ShellInv, step \in {"commands", "done"},
                    NEW j \in ShellLines(YamlBlocks \cap BlockStyles)
             PROVE  j \in TakenLines
  BY DEF ShellLinesAreTaken
<1>1. Gone = DOMAIN Lines /\ Len(Lines) \in Nat /\ DOMAIN Lines = 1..Len(Lines)
  BY Lengths DEF Gone, Lines
<1>2. CASE j \in RunFields /\ file.lines[j].style = "plain"
  BY <1>1, <1>2 DEF RunFields, ShellInv, Lines
<1>3. CASE \E i \in RunFields : file.lines[i].style \in YamlBlocks \cap BlockStyles /\ j \in BlockOf(i)
  <2>1. PICK i \in RunFields : Lines[i].style \in BlockStyles /\ j \in BlockOf(i)
    BY <1>3 DEF Lines
  <2>2. i \in DOMAIN Lines /\ BlockRun(i)
    BY <2>1 DEF RunFields, BlockRun, Lines
  <2>3. j \in (i + 1)..Len(Lines) /\ ~IsEmpty(Lines[j]) /\ TextTo(i, j)
    BY <2>1 DEF BlockOf, TextTo, Lines
  <2>4. j \in DOMAIN Lines /\ i < j
    BY <1>1, <2>2, <2>3
  <2> QED BY <1>1, <2>2, <2>3, <2>4 DEF ShellInv
<1> QED BY <1>2, <1>3 DEF ShellLines

-----------------------------------------------------------------------------
(* The two readings of the documents                                       *)

ReadUpTo(n) == \A i \in 1..n : file.docs[i].readable
Triggered == \E n \in DOMAIN file.docs : ReadUpTo(n) /\ HasTrigger(file.docs[n])

\* The first reading has met no trigger so far.
TriggerInv ==
    /\ step \notin {"secrets", "done"} => "UsesPullRequestTarget" \notin ci.flags
    /\ step = "trigger" =>
          \A n \in 1..(next - 1) : file.docs[n].readable /\ ~HasTrigger(file.docs[n])
    /\ step \in {"secrets", "done"} => ("UsesPullRequestTarget" \in ci.flags <=> Triggered)

KeysOf(doc) == {Upper(doc.secrets[i]) : i \in DOMAIN doc.secrets}

\* The second one has the keys of all documents so far.
SecretsInv ==
    /\ \A key \in DOMAIN namesByKey : Upper(namesByKey[key]) = key
    /\ step # "done" => ci.SecretNames = {}
    /\ step \notin {"secrets", "done"} => DOMAIN namesByKey = {}
    /\ step = "secrets" =>
          /\ ReadUpTo(next - 1)
          /\ DOMAIN namesByKey = UNION {KeysOf(file.docs[n]) : n \in 1..(next - 1)}
    /\ step = "done" =>
          /\ {Upper(name) : name \in ci.SecretNames} =
               IF ~ReadUpTo(Len(file.docs)) THEN {}
               ELSE UNION {KeysOf(file.docs[n]) : n \in DOMAIN file.docs}
          /\ \A a, b \in ci.SecretNames : Upper(a) = Upper(b) => a = b

\* The trigger and the names are those of the documents.
LEMMA DocsRead == TriggerInv /\ SecretsInv => DocumentsAreRead
BY DEF TriggerInv, SecretsInv, DocumentsAreRead, Triggered, ReadUpTo, KeysOf

\* At the start no document is read.
LEMMA DocsInit == WorkflowInit \/ NoWorkflow => TriggerInv /\ SecretsInv
<1> SUFFICES ASSUME WorkflowInit \/ NoWorkflow PROVE TriggerInv /\ SecretsInv
  OBVIOUS
<1>1. step \in {"lines", "idle"} /\ ci = NoCIFeatures /\ namesByKey = <<>>
  BY DEF WorkflowInit, NoWorkflow, WorkflowStart
<1>2. ci.flags = {} /\ ci.SecretNames = {} /\ DOMAIN namesByKey = {}
  BY <1>1, NoWords DEF NoCIFeatures
<1>3. step \notin {"trigger", "secrets", "done"}
  BY <1>1
<1> QED BY <1>2, <1>3 DEF TriggerInv, SecretsInv

\* What the loops over the documents and the lines leave alone.
LEMMA TriggerKept ==
    ASSUME TriggerInv, file' = file, step' \notin {"secrets", "done"},
           "UsesPullRequestTarget" \in ci'.flags => "UsesPullRequestTarget" \in ci.flags,
           step \notin {"secrets", "done"},
           step' = "trigger" => next' = 1
    PROVE  TriggerInv'
<1>1. step' = "trigger" => \A n \in 1..(next' - 1) : file.docs[n].readable /\ ~HasTrigger(file.docs[n])
  OBVIOUS
<1> QED BY <1>1 DEF TriggerInv, HasTrigger

\* Every turn keeps the trigger that of the documents read so far.
LEMMA TriggerStep ==
    WorkflowTypeOK /\ TriggerInv /\ [ParseCIConfig]_workflowVars => TriggerInv'
<1> SUFFICES ASSUME WorkflowTypeOK, TriggerInv, [ParseCIConfig]_workflowVars PROVE TriggerInv'
  OBVIOUS
<1>0. /\ Len(file.docs) \in Nat /\ DOMAIN file.docs = 1..Len(file.docs)
      /\ next \in Nat \ {0} /\ (step \in {"trigger", "secrets"} => next <= Len(file.docs) + 1)
      /\ DOMAIN ci = {"flags", "SecretNames"}
  BY Lengths DEF WorkflowTypeOK, NoCIFeatures
<1>1. CASE ScanLine
  <2>1. step = "lines" /\ step' = step /\ file' = file
    BY <1>1, LineScanned
  <2>2. ci' = ci
    BY <1>1 DEF ScanLine, SkipBlank, TakeBlockLine, SkipOther, OpenBlock, InlineRun, NextYamlLine
  <2> QED BY <2>1, <2>2, TriggerKept
<1>2. CASE EndOfLines \/ LinesJudged
  <2>1. /\ step \in {"lines", "commands"} /\ step' \in {"commands", "trigger"} /\ next' = 1
        /\ file' = file /\ ci' = ci
    BY <1>2 DEF EndOfLines, LinesJudged, GoTo
  <2> QED BY <2>1, TriggerKept
<1>3. CASE JudgeLine
  <2> DEFINE line == result[next].words
             more == ShellFlags(line) \cup {f \in {"UsesSudo"} : isSudo(line)}
                       \cup {f \in {"UsesPackagePublish"} : isPackagePublish(line)}
  <2>1. step = "commands" /\ step' = step /\ file' = file /\ ci' = WithCIFlags(more)
    BY <1>3 DEF JudgeLine, NextItem
  <2>2. "UsesPullRequestTarget" \notin more
    BY DEF ShellFlags, Required
  <2> HIDE DEF more
  <2>3. "UsesPullRequestTarget" \in ci'.flags => "UsesPullRequestTarget" \in ci.flags
    BY <1>0, <2>1, <2>2, CIFlagsAdded
  <2> QED BY <2>1, <2>3, TriggerKept
<1>4. CASE TriggerNotHere
  <2>1. /\ step = "trigger" /\ step' = step /\ next' = next + 1 /\ file' = file /\ ci' = ci
        /\ next \in DOMAIN file.docs /\ file.docs[next].readable /\ ~HasTrigger(file.docs[next])
    BY <1>4 DEF TriggerNotHere, NextItem, Decoded, Document
  <2>2. \A n \in 1..(next' - 1) : file.docs[n].readable /\ ~HasTrigger(file.docs[n])
    <3>1. 1..(next' - 1) = (1..(next - 1)) \cup {next}
      BY <1>0, <2>1
    <3> QED BY <2>1, <3>1 DEF TriggerInv
  <2> QED BY <2>1, <2>2 DEF TriggerInv, HasTrigger
<1>5. CASE TriggerKnown
  <2> DEFINE more == {f \in {"UsesPullRequestTarget"} : Decoded}
  <2>1. /\ step = "trigger" /\ step' = "secrets" /\ file' = file /\ ci' = WithCIFlags(more)
        /\ Decoded => HasTrigger(file.docs[next])
    BY <1>5 DEF TriggerKnown, GoTo, Document
  <2>2. "UsesPullRequestTarget" \in more <=> Decoded
    OBVIOUS
  <2> HIDE DEF more
  <2>3. "UsesPullRequestTarget" \in ci'.flags <=> Decoded
    BY <1>0, <2>1, <2>2, CIFlagsAdded DEF TriggerInv
  <2>4. \A n \in 1..(next - 1) : file.docs[n].readable /\ ~HasTrigger(file.docs[n])
    BY <2>1 DEF TriggerInv
  <2>5. Decoded => Triggered
    <3> SUFFICES ASSUME Decoded PROVE Triggered
      OBVIOUS
    <3>1. next \in DOMAIN file.docs /\ file.docs[next].readable /\ HasTrigger(file.docs[next])
      BY <2>1 DEF Decoded, Document
    <3>2. 1..next = (1..(next - 1)) \cup {next}
      BY <1>0
    <3> QED BY <2>4, <3>1, <3>2 DEF Triggered, ReadUpTo
  <2>6. Triggered => Decoded
    <3> SUFFICES ASSUME NEW n \in DOMAIN file.docs, ReadUpTo(n), HasTrigger(file.docs[n])
                 PROVE  Decoded
      BY DEF Triggered
    <3>1. n \in Nat /\ n >= 1 /\ n <= Len(file.docs)
      BY <1>0
    <3>2. n \notin 1..(next - 1)
      BY <2>4
    <3>3. next \in DOMAIN file.docs /\ next \in 1..n
      BY <1>0, <3>1, <3>2
    <3> QED BY <3>3 DEF Decoded, Document, ReadUpTo
  <2>7. Triggered' <=> Triggered
    BY <2>1 DEF Triggered, ReadUpTo, HasTrigger
  <2> QED BY <2>1, <2>3, <2>5, <2>6, <2>7 DEF TriggerInv
<1>6. CASE CollectSecretNames \/ SecretsKnown \/ SecretsUnknown \/ UNCHANGED workflowVars
  <2>1. /\ file' = file /\ ci'.flags = ci.flags
        /\ \/ step = "secrets" /\ step' \in {"secrets", "done"}
           \/ step' = step /\ next' = next
    <3>1. CASE SecretsKnown
      <4> DEFINE names == {namesByKey[key] : key \in DOMAIN namesByKey}
      <4>1. /\ ci' = [ci EXCEPT !.SecretNames = names]
            /\ file' = file /\ step = "secrets" /\ step' = "done"
        BY <3>1 DEF SecretsKnown, GoTo
      <4> HIDE DEF names
      <4>2. ci'.flags = ci.flags
        BY <1>0, <4>1
      <4> QED BY <4>1, <4>2
    <3>2. CASE CollectSecretNames
      BY <3>2 DEF CollectSecretNames, NextItem
    <3>3. CASE SecretsUnknown
      BY <3>3 DEF SecretsUnknown, GoTo
    <3>4. CASE UNCHANGED workflowVars
      BY <3>4 DEF workflowVars
    <3> QED BY <1>6, <3>1, <3>2, <3>3, <3>4
  <2>2. Triggered' <=> Triggered
    BY <2>1 DEF Triggered, ReadUpTo, HasTrigger
  <2>3. step \in {"secrets", "done"} <=> step' \in {"secrets", "done"}
    BY <2>1
  <2> QED BY <2>1, <2>2, <2>3 DEF TriggerInv, HasTrigger
<1> QED BY <1>1, <1>2, <1>3, <1>4, <1>5, <1>6 DEF ParseCIConfig, extractRunLines, ScanLine

\* The collected names, each under its key.
LEMMA KeysCollected ==
    ASSUME SecretsInv, NEW doc, NEW S, doc.secrets \in Seq(S)
    PROVE  /\ DOMAIN Collected(doc) = DOMAIN namesByKey \cup KeysOf(doc)
           /\ \A key \in DOMAIN Collected(doc) : Upper(Collected(doc)[key]) = key
<1>1. \A key \in DOMAIN namesByKey : Upper(namesByKey[key]) = key
  BY DEF SecretsInv
<1>2. /\ DOMAIN Collected(doc) = DOMAIN namesByKey \cup KeysOf(doc)
      /\ \A key \in DOMAIN Collected(doc) :
            IF key \in DOMAIN namesByKey THEN Collected(doc)[key] = namesByKey[key]
            ELSE \E i \in DOMAIN doc.secrets : /\ Collected(doc)[key] = doc.secrets[i]
                                              /\ Upper(doc.secrets[i]) = key
  BY CollectedNames DEF KeysOf
<1> QED BY <1>1, <1>2, Zenon

\* Every turn keeps the names those of the documents read so far.
LEMMA SecretsStep ==
    WorkflowTypeOK /\ SecretsInv /\ [ParseCIConfig]_workflowVars => SecretsInv'
<1> SUFFICES ASSUME WorkflowTypeOK, SecretsInv, [ParseCIConfig]_workflowVars PROVE SecretsInv'
  OBVIOUS
<1>0. /\ Len(file.docs) \in Nat /\ DOMAIN file.docs = 1..Len(file.docs)
      /\ next \in Nat \ {0} /\ (step \in {"trigger", "secrets"} => next <= Len(file.docs) + 1)
      /\ DOMAIN ci = {"flags", "SecretNames"}
  BY Lengths DEF WorkflowTypeOK, NoCIFeatures
\* Before the second reading there are no names.
<1>1. ASSUME step \notin {"secrets", "done"}, step' # "done", step' = "secrets" => next' = 1,
             file' = file, namesByKey' = namesByKey, ci'.SecretNames = ci.SecretNames
      PROVE  SecretsInv'
  <2>1. step # "done" /\ DOMAIN namesByKey = {} /\ ci.SecretNames = {}
    BY <1>1 DEF SecretsInv
  <2>2. ASSUME step' = "secrets"
        PROVE  ReadUpTo(next - 1)' /\ UNION {KeysOf(file.docs[n])' : n \in 1..(next' - 1)} = {}
    <3>1. 1..(next' - 1) = {}
      BY <1>1, <2>2
    <3> QED BY <3>1 DEF ReadUpTo
  <2> QED BY <1>1, <2>1, <2>2 DEF SecretsInv
<1>2. CASE ScanLine
  <2>1. step = "lines" /\ step' = step /\ file' = file
    BY <1>2, LineScanned
  <2>2. ci' = ci /\ namesByKey' = namesByKey
    BY <1>2 DEF ScanLine, SkipBlank, TakeBlockLine, SkipOther, OpenBlock, InlineRun, NextYamlLine
  <2> QED BY <1>1, <2>1, <2>2
<1>3. CASE EndOfLines \/ LinesJudged \/ TriggerNotHere
  <2>1. /\ step \in {"lines", "commands", "trigger"} /\ step' \in {"commands", "trigger"}
        /\ file' = file /\ ci' = ci /\ namesByKey' = namesByKey
    BY <1>3 DEF EndOfLines, LinesJudged, TriggerNotHere, NextItem, GoTo
  <2> QED BY <1>1, <2>1
<1>4. CASE JudgeLine
  <2>1. /\ step = "commands" /\ step' = step /\ file' = file /\ namesByKey' = namesByKey
        /\ \E more : ci' = WithCIFlags(more)
    BY <1>4 DEF JudgeLine, NextItem
  <2>2. ci'.SecretNames = ci.SecretNames
    BY <1>0, <2>1, CIFlagsAdded
  <2> QED BY <1>1, <2>1, <2>2
<1>5. CASE TriggerKnown
  <2>1. /\ step = "trigger" /\ step' = "secrets" /\ next' = 1 /\ file' = file
        /\ namesByKey' = namesByKey /\ \E more : ci' = WithCIFlags(more)
    BY <1>5 DEF TriggerKnown, GoTo
  <2>2. ci'.SecretNames = ci.SecretNames
    BY <1>0, <2>1, CIFlagsAdded
  <2> QED BY <1>1, <2>1, <2>2
<1>6. CASE CollectSecretNames
  <2> DEFINE doc == file.docs[next]
  <2>1. /\ step = "secrets" /\ step' = step /\ next' = next + 1 /\ file' = file /\ ci' = ci
        /\ next \in DOMAIN file.docs /\ doc.readable /\ namesByKey' = Collected(doc)
    BY <1>6 DEF CollectSecretNames, NextItem, Decoded, Document
  <2>2. doc.secrets \in Seq(SecretsOfFile)
    BY <2>1, DocTyped DEF WorkflowTypeOK
  <2> HIDE DEF doc
  <2>3. /\ DOMAIN namesByKey' = DOMAIN namesByKey \cup KeysOf(doc)
        /\ \A key \in DOMAIN namesByKey' : Upper(namesByKey'[key]) = key
    BY <2>1, <2>2, KeysCollected
  <2>4. 1..(next' - 1) = (1..(next - 1)) \cup {next}
    BY <1>0, <2>1
  <2>5. ReadUpTo(next - 1)'
    BY <2>1, <2>4 DEF ReadUpTo, SecretsInv, doc
  <2>6. DOMAIN namesByKey' = UNION {KeysOf(file.docs[n]) : n \in 1..(next' - 1)}
    <3>1. DOMAIN namesByKey = UNION {KeysOf(file.docs[n]) : n \in 1..(next - 1)}
      BY <2>1 DEF SecretsInv
    <3> QED BY <2>3, <2>4, <3>1 DEF doc
  <2>7. \A n : KeysOf(file.docs[n])' = KeysOf(file.docs[n])
    BY <2>1 DEF KeysOf
  <2>8. ci'.SecretNames = {}
    BY <2>1 DEF SecretsInv
  <2> QED BY <2>1, <2>3, <2>5, <2>6, <2>7, <2>8 DEF SecretsInv
<1>7. CASE SecretsKnown
  <2> DEFINE names == {namesByKey[key] : key \in DOMAIN namesByKey}
  <2>1. /\ step = "secrets" /\ step' = "done" /\ next \notin DOMAIN file.docs /\ file' = file
        /\ ci' = [ci EXCEPT !.SecretNames = names] /\ namesByKey' = namesByKey
    BY <1>7 DEF SecretsKnown, GoTo
  <2>2. /\ \A key \in DOMAIN namesByKey : Upper(namesByKey[key]) = key
        /\ ReadUpTo(next - 1)
        /\ DOMAIN namesByKey = UNION {KeysOf(file.docs[n]) : n \in 1..(next - 1)}
    BY <2>1 DEF SecretsInv
  <2>3. next - 1 = Len(file.docs)
    BY <1>0, <2>1
  <2>4. {Upper(name) : name \in names} = DOMAIN namesByKey
    BY <2>2
  <2>5. \A a, b \in names : Upper(a) = Upper(b) => a = b
    BY <2>2
  <2> HIDE DEF names
  <2>6. ci'.SecretNames = names
    BY <1>0, <2>1
  <2>7. ReadUpTo(Len(file.docs))' /\ \A n : KeysOf(file.docs[n])' = KeysOf(file.docs[n])
    BY <2>1, <2>2, <2>3 DEF ReadUpTo, KeysOf
  <2>8. {Upper(name) : name \in names} = UNION {KeysOf(file.docs[n]) : n \in DOMAIN file.docs}
    BY <1>0, <2>2, <2>3, <2>4
  <2> QED BY <2>1, <2>2, <2>5, <2>6, <2>7, <2>8 DEF SecretsInv, Upper
<1>8. CASE SecretsUnknown
  <2>1. /\ step = "secrets" /\ step' = "done" /\ next \in DOMAIN file.docs /\ file' = file
        /\ ~file.docs[next].readable /\ ci' = ci /\ namesByKey' = namesByKey
    BY <1>8 DEF SecretsUnknown, GoTo, Document
  <2>2. ci'.SecretNames = {} /\ \A key \in DOMAIN namesByKey : Upper(namesByKey[key]) = key
    BY <2>1 DEF SecretsInv
  <2>3. ~ReadUpTo(Len(file.docs))'
    BY <1>0, <2>1 DEF ReadUpTo
  <2> QED BY <2>1, <2>2, <2>3 DEF SecretsInv, Upper
<1>9. CASE UNCHANGED workflowVars
  <2>1. file' = file /\ step' = step /\ next' = next /\ ci' = ci /\ namesByKey' = namesByKey
    BY <1>9 DEF workflowVars
  <2>2. /\ ReadUpTo(next - 1)' <=> ReadUpTo(next - 1)
        /\ ReadUpTo(Len(file.docs))' <=> ReadUpTo(Len(file.docs))
    BY <2>1 DEF ReadUpTo
  <2>3. /\ (UNION {KeysOf(file.docs[n]) : n \in DOMAIN file.docs})'
             = UNION {KeysOf(file.docs[n]) : n \in DOMAIN file.docs}
        /\ (UNION {KeysOf(file.docs[n]) : n \in 1..(next - 1)})'
             = UNION {KeysOf(file.docs[n]) : n \in 1..(next - 1)}
    BY <2>1 DEF KeysOf
  <2>4. /\ (\A key \in DOMAIN namesByKey : Upper(namesByKey[key]) = key)'
        /\ {Upper(name) : name \in ci.SecretNames}' = {Upper(name) : name \in ci.SecretNames}
        /\ (\A a, b \in ci.SecretNames : Upper(a) = Upper(b) => a = b)'
               <=> (\A a, b \in ci.SecretNames : Upper(a) = Upper(b) => a = b)
    BY <2>1 DEF SecretsInv, Upper
  <2> QED BY <2>1, <2>2, <2>3, <2>4, Zenon DEF SecretsInv
<1> QED BY <1>2, <1>3, <1>4, <1>5, <1>6, <1>7, <1>8, <1>9 DEF ParseCIConfig, extractRunLines, ScanLine

-----------------------------------------------------------------------------
(* The judgement of command lines                                          *)

Missing(line, f) == commandMissingFlag(line, Required[f].commands, Required[f].flag)

\* The instructions and the lines that have been read.
ReadInstructions ==
    CASE phase = "parse" -> 1..(pos - 1)
      [] phase = "done" -> DOMAIN instructions
      [] OTHER -> {}

ReadLines ==
    CASE step = "commands" -> 1..(next - 1)
      [] step \in {"trigger", "secrets", "done"} -> DOMAIN result
      [] OTHER -> {}

RunLacks(i, f) == Is(i, "run") /\ Missing(instructions[i].value, f)

\* A report comes from what has been read, and one of the parsers is idle.
RunsJudged ==
    \A f \in DOMAIN Required : f \in features.flags <=> \E i \in ReadInstructions : RunLacks(i, f)

LinesOfRunsJudged ==
    \A f \in DOMAIN Required : f \in ci.flags <=> \E n \in ReadLines : Missing(result[n].words, f)

OneParser ==
    \/ phase = "idle" /\ instructions = <<>> /\ features.flags = {}
    \/ step = "idle" /\ result = <<>> /\ ci.flags = {}

\* A flag is given to a command if no separator is between them.
LEMMA NotGivenLacks ==
    ASSUME NEW W, NEW line \in Seq(W), NEW f, NEW i \in DOMAIN line
    PROVE  ~Given(line, i, Required[f].flag) <=> Lacks(line, i, f)
<1>1. DOMAIN line = 1..Len(line) /\ Len(line) \in Nat
  BY LenProperties
<1>2. ASSUME NEW j \in DOMAIN line
      PROVE  ~SameSegment(line, i, j) <=> \E k \in (i..j) \cup (j..i) : line[k] \in Separators
  BY <1>1 DEF SameSegment
<1> QED BY <1>2 DEF Given, Lacks

\* commandMissingFlag says whether the first command lacks its flag.
LEMMA FirstDecides ==
    ASSUME NEW W, NEW line \in Seq(W), NEW f
    PROVE  Missing(line, f) <=> FirstLacks(line, f)
<1>1. DOMAIN line = 1..Len(line) /\ Len(line) \in Nat
  BY LenProperties
<1>2. ASSUME NEW i \in DOMAIN line
      PROVE  (\A j \in 1..(i - 1) : line[j] \notin Required[f].commands)
                <=> \A k \in Commands(line, f) : i <= k
  BY <1>1 DEF Commands
<1>3. \A i \in DOMAIN line : ~Given(line, i, Required[f].flag) <=> Lacks(line, i, f)
  BY NotGivenLacks
<1> QED BY <1>2, <1>3, Zenon DEF Missing, commandMissingFlag, FirstLacks, Commands

\* A missing flag is reported of a line, and of nothing else.
LEMMA ShellJudged ==
    ASSUME NEW line, NEW f \in DOMAIN Required
    PROVE  f \in ShellFlags(line) <=> Missing(line, f)
<1>1. f \notin {"UsesNpmInstall", "UsesNpx", "UsesCurlBashPipe"}
  BY DEF Required
<1> HIDE DEF Required
<1> QED BY <1>1 DEF ShellFlags, Missing

\* The flags of commands that an instruction gets are those of its shell line.
LEMMA RunFlags ==
    ASSUME NEW keyword, NEW value, NEW f \in DOMAIN Required
    PROVE  f \in Flags(keyword, value) <=> keyword = "run" /\ Missing(value, f)
<1>1. /\ f \notin DOMAIN RunWords
      /\ f \notin {"HasSecretsInEnvOrArg", "UsesAddInstruction", "HasCopySensitive"}
      /\ \A k \in DOMAIN KeywordFlag : KeywordFlag[k] # f
  BY DEF Required, RunWords, KeywordFlag
<1>2. /\ \A k \in {"copy", "add", "run", "env"} : k \notin DOMAIN KeywordFlag
  BY DEF KeywordFlag
<1>3. f \notin HasSecret(value)
  BY <1>1 DEF HasSecret
<1>4. f \in ShellFlags(value) <=> Missing(value, f)
  BY ShellJudged
<1>5. CASE keyword \in DOMAIN KeywordFlag
  <2>1. Flags(keyword, value) = {KeywordFlag[keyword]} /\ keyword # "run"
    BY <1>2, <1>5 DEF Flags
  <2> QED BY <1>1, <1>5, <2>1
<1>6. CASE keyword \notin DOMAIN KeywordFlag
  <2>1. CASE keyword \in {"copy", "add"}
    BY <1>1, <1>6, <2>1 DEF Flags
  <2>2. CASE keyword = "run"
    BY <1>1, <1>4, <1>6, <2>2 DEF Flags
  <2>3. CASE keyword = "env"
    BY <1>3, <1>6, <2>3 DEF Flags
  <2>4. CASE keyword \notin {"copy", "add", "run", "env"}
    BY <1>6, <2>4 DEF Flags
  <2> QED BY <2>1, <2>2, <2>3, <2>4
<1> QED BY <1>5, <1>6

\* At the start no RUN is judged.
LEMMA RunsInit == DockerfileInit \/ NoDockerfile => RunsJudged
<1> SUFFICES ASSUME DockerfileInit \/ NoDockerfile PROVE RunsJudged
  OBVIOUS
<1>1. phase \in {"scan", "idle"} /\ features = NoFeatures
  BY DEF DockerfileInit, NoDockerfile, DockerfileStart
<1>2. ReadInstructions = {} /\ features.flags = {}
  BY <1>1 DEF ReadInstructions, NoFeatures
<1> QED BY <1>2 DEF RunsJudged

\* An instruction is read and its flags are added.
LEMMA RunsRead ==
    ASSUME DockerTypeOK, RunsJudged, phase = "parse", phase' = phase, pos \in DOMAIN instructions,
           pos' = pos + 1, instructions' = instructions, NEW more,
           features'.flags = features.flags \cup more,
           \A f \in DOMAIN Required : f \in more <=> RunLacks(pos, f)
    PROVE  RunsJudged'
<1>1. ReadInstructions = 1..(pos - 1) /\ ReadInstructions' = 1..(pos' - 1)
  BY DEF ReadInstructions
<1>2. ReadInstructions' = ReadInstructions \cup {pos}
  <2>1. Len(instructions) \in Nat /\ pos \in Nat \ {0}
    BY DEF DockerTypeOK
  <2> QED BY <1>1, <2>1
<1>3. \A i, f : RunLacks(i, f)' <=> RunLacks(i, f)
  BY DEF RunLacks, Is, Missing, commandMissingFlag, Given, SameSegment
<1> QED BY <1>2, <1>3 DEF RunsJudged

\* Every turn reports of the RUNs read so far what they lack.
LEMMA RunsStep ==
    DockerTypeOK /\ RunsJudged /\ [ParseDockerfile]_dockerVars => RunsJudged'
<1> SUFFICES ASSUME DockerTypeOK, RunsJudged, [ParseDockerfile]_dockerVars PROVE RunsJudged'
  OBVIOUS
<1>0. DOMAIN features = {"BaseImage", "BaseTag", "flags"}
  BY DEF DockerTypeOK, NoFeatures
<1>1. CASE SkipLine \/ ContinueInstruction \/ EndInstruction \/ EndOfText
  <2>1. /\ phase = "scan" /\ features' = features
        /\ phase' = "scan" \/ (phase' = "parse" /\ pos' = 1)
    BY <1>1 DEF SkipLine, ContinueInstruction, EndInstruction, EndOfText, Taken, Scanning,
       NextLine, resultVars
  <2>2. ReadInstructions = {} /\ ReadInstructions' = {}
    BY <2>1 DEF ReadInstructions
  <2> QED BY <2>1, <2>2 DEF RunsJudged
<1>2. CASE Arg
  <2>1. /\ phase = "parse" /\ phase' = phase /\ pos \in DOMAIN instructions /\ pos' = pos + 1
        /\ instructions' = instructions /\ instructions[pos].keyword = "arg"
        /\ features' = WithFlags(HasSecret(Value))
    BY <1>2 DEF Arg, Reading, NextInstruction, scanVars
  <2>2. features'.flags = features.flags \cup HasSecret(Value)
    BY <1>0, <2>1, MoreFlags
  <2>3. \A f \in DOMAIN Required : f \notin HasSecret(Value) /\ ~RunLacks(pos, f)
    BY <2>1 DEF HasSecret, Required, RunLacks, Is
  <2> QED BY <2>1, <2>2, <2>3, RunsRead
<1>3. CASE From
  <2>1. /\ phase = "parse" /\ phase' = phase /\ pos \in DOMAIN instructions /\ pos' = pos + 1
        /\ instructions' = instructions /\ instructions[pos].keyword = "from"
    BY <1>3 DEF From, Reading, NextInstruction, scanVars
  <2>2. \A f \in DOMAIN Required : f \notin {"UsesLatestTag"} /\ ~RunLacks(pos, f)
    BY <2>1 DEF Required, RunLacks, Is
  <2>3. PICK more \in SUBSET {"UsesLatestTag"} : features'.flags = features.flags \cup more
    <3>1. CASE UNCHANGED resultVars
      <4>1. features'.flags = features.flags \cup {}
        BY <3>1 DEF resultVars
      <4>2. {} \in SUBSET {"UsesLatestTag"}
        OBVIOUS
      <4> QED BY <4>1, <4>2
    <3>2. ASSUME NEW base, AddStage(base)
          PROVE  \E more \in SUBSET {"UsesLatestTag"} : features'.flags = features.flags \cup more
      <4> DEFINE more == {f \in {"UsesLatestTag"} : base.BaseTag = "latest"}
                 seen == WithFlags(more)
      <4>1. features' = seen \/ features' = [seen EXCEPT !.BaseImage = base.BaseImage, !.BaseTag = base.BaseTag]
        BY <3>2 DEF AddStage
      <4>2. more \in SUBSET {"UsesLatestTag"}
        OBVIOUS
      <4> HIDE DEF more
      <4>3. DOMAIN seen = {"BaseImage", "BaseTag", "flags"} /\ seen.flags = features.flags \cup more
        BY <1>0, MoreFlags
      <4> HIDE DEF seen
      <4> QED BY <4>1, <4>2, <4>3, ImageAdded
    <3> QED BY <1>3, <3>1, <3>2 DEF From
  <2>4. \A f \in DOMAIN Required : f \in more <=> RunLacks(pos, f)
    BY <2>2, <2>3
  <2> QED BY <2>1, <2>3, <2>4, RunsRead
<1>4. CASE OtherInstruction
  <2> DEFINE more == Flags(instructions[pos].keyword, Value)
  <2>1. /\ phase = "parse" /\ phase' = phase /\ pos \in DOMAIN instructions /\ pos' = pos + 1
        /\ instructions' = instructions /\ features' = WithFlags(more)
    BY <1>4 DEF OtherInstruction, NextInstruction, scanVars
  <2>2. \A f \in DOMAIN Required : f \in more <=> RunLacks(pos, f)
    BY RunFlags DEF RunLacks, Is, Value
  <2> HIDE DEF more
  <2>3. features'.flags = features.flags \cup more
    BY <1>0, <2>1, MoreFlags
  <2> QED BY <2>1, <2>2, <2>3, RunsRead
<1>5. CASE Return
  <2> DEFINE more == {f \in {"UsesMultistage"} : Len(stages) > 1}
  <2>1. /\ phase = "parse" /\ pos \notin DOMAIN instructions /\ phase' = "done"
        /\ instructions' = instructions /\ features' = WithFlags(more)
    BY <1>5 DEF Return, scanVars
  <2>2. \A f \in DOMAIN Required : f \notin more
    BY DEF Required
  <2> HIDE DEF more
  <2>3. features'.flags = features.flags \cup more
    BY <1>0, <2>1, MoreFlags
  <2>4. ReadInstructions' = ReadInstructions
    <3>1. /\ pos \in 1..(Len(instructions) + 1) /\ Len(instructions) \in Nat
          /\ DOMAIN instructions = 1..Len(instructions)
      BY <2>1 DEF DockerTypeOK
    <3>2. pos = Len(instructions) + 1
      BY <2>1, <3>1
    <3>3. DOMAIN instructions = 1..(pos - 1)
      BY <3>1, <3>2
    <3> QED BY <2>1, <3>3 DEF ReadInstructions
  <2>5. \A i, f : RunLacks(i, f)' <=> RunLacks(i, f)
    BY <2>1 DEF RunLacks, Is, Missing, commandMissingFlag, Given, SameSegment
  <2> QED BY <2>2, <2>3, <2>4, <2>5 DEF RunsJudged
<1>6. CASE UNCHANGED dockerVars
  <2>1. UNCHANGED <<phase, pos, instructions, features>>
    BY <1>6 DEF dockerVars, scanVars, resultVars
  <2>2. ReadInstructions' = ReadInstructions
    BY <2>1 DEF ReadInstructions
  <2>3. \A i, f : RunLacks(i, f)' <=> RunLacks(i, f)
    BY <2>1 DEF RunLacks, Is, Missing, commandMissingFlag, Given, SameSegment
  <2> QED BY <2>1, <2>2, <2>3 DEF RunsJudged
<1> QED BY <1>1, <1>2, <1>3, <1>4, <1>5, <1>6 DEF ParseDockerfile

\* At the start no line of a workflow is judged.
LEMMA LinesJudgedInit == WorkflowInit \/ NoWorkflow => LinesOfRunsJudged
<1> SUFFICES ASSUME WorkflowInit \/ NoWorkflow PROVE LinesOfRunsJudged
  OBVIOUS
<1>1. step \in {"lines", "idle"} /\ ci = NoCIFeatures
  BY DEF WorkflowInit, NoWorkflow, WorkflowStart
<1>2. ReadLines = {} /\ ci.flags = {}
  BY <1>1 DEF ReadLines, NoCIFeatures
<1> QED BY <1>2 DEF LinesOfRunsJudged

\* When no line is read, no flag of a command is added or lost.
LEMMA JudgementKept ==
    ASSUME LinesOfRunsJudged, ReadLines = {} \/ result' = result, ReadLines' = ReadLines,
           \A f \in DOMAIN Required : f \in ci'.flags <=> f \in ci.flags
    PROVE  LinesOfRunsJudged'
<1>1. ASSUME result' = result
      PROVE  \A n, f : Missing(result[n].words, f)' <=> Missing(result[n].words, f)
  BY <1>1 DEF Missing, commandMissingFlag, Given, SameSegment
<1> QED BY <1>1 DEF LinesOfRunsJudged

\* Every turn reports of the lines read so far what they lack.
LEMMA LinesJudgedStep ==
    WorkflowTypeOK /\ LinesOfRunsJudged /\ [ParseCIConfig]_workflowVars => LinesOfRunsJudged'
<1> SUFFICES ASSUME WorkflowTypeOK, LinesOfRunsJudged, [ParseCIConfig]_workflowVars
             PROVE  LinesOfRunsJudged'
  OBVIOUS
<1>0. /\ Len(result) \in Nat /\ DOMAIN result = 1..Len(result) /\ next \in Nat \ {0}
      /\ step = "commands" => next <= Len(result) + 1
      /\ DOMAIN ci = {"flags", "SecretNames"}
  BY Lengths DEF WorkflowTypeOK, NoCIFeatures
<1>1. CASE ScanLine
  <2>1. step = "lines" /\ step' = step
    BY <1>1, LineScanned
  <2>2. ci' = ci
    BY <1>1 DEF ScanLine, SkipBlank, TakeBlockLine, SkipOther, OpenBlock, InlineRun, NextYamlLine
  <2>3. ReadLines = {} /\ ReadLines' = {}
    BY <2>1 DEF ReadLines
  <2> QED BY <2>2, <2>3, JudgementKept
<1>2. CASE EndOfLines \/ LinesJudged
  <2>1. /\ result' = result /\ ci' = ci
        /\ \/ step = "lines" /\ step' = "commands" /\ next' = 1
           \/ step = "commands" /\ step' = "trigger" /\ next \notin DOMAIN result
    BY <1>2 DEF EndOfLines, LinesJudged, GoTo
  <2>2. step = "commands" => 1..(next - 1) = DOMAIN result
    <3> SUFFICES ASSUME step = "commands" PROVE 1..(next - 1) = DOMAIN result
      OBVIOUS
    <3>1. next = Len(result) + 1
      BY <1>0, <2>1
    <3> QED BY <1>0, <3>1
  <2>3. ReadLines' = ReadLines
    BY <2>1, <2>2 DEF ReadLines
  <2> QED BY <2>1, <2>3, JudgementKept
<1>3. CASE JudgeLine
  <2> DEFINE line == result[next].words
             others == {f \in {"UsesSudo"} : isSudo(line)}
                         \cup {f \in {"UsesPackagePublish"} : isPackagePublish(line)}
             more == ShellFlags(line) \cup others
  <2>1. /\ step = "commands" /\ step' = step /\ next \in DOMAIN result /\ next' = next + 1
        /\ result' = result /\ ci' = WithCIFlags(more)
    BY <1>3 DEF JudgeLine, NextItem
  <2>2. \A f \in DOMAIN Required : f \notin others
    BY DEF Required
  <2> HIDE DEF line, others
  <2>3. \A f \in DOMAIN Required : f \in more <=> Missing(line, f)
    BY <2>2, ShellJudged
  <2> HIDE DEF more
  <2>4. ci'.flags = ci.flags \cup more
    BY <1>0, <2>1, CIFlagsAdded
  <2>5. ReadLines' = ReadLines \cup {next}
    BY <1>0, <2>1 DEF ReadLines
  <2>6. \A n, f : Missing(result[n].words, f)' <=> Missing(result[n].words, f)
    BY <2>1 DEF Missing, commandMissingFlag, Given, SameSegment
  <2> QED BY <2>3, <2>4, <2>5, <2>6 DEF LinesOfRunsJudged, line
<1>4. CASE TriggerKnown
  <2> DEFINE more == {f \in {"UsesPullRequestTarget"} : Decoded}
  <2>1. /\ step = "trigger" /\ step' = "secrets" /\ result' = result /\ ci' = WithCIFlags(more)
    BY <1>4 DEF TriggerKnown, GoTo
  <2>2. \A f \in DOMAIN Required : f \notin more
    BY DEF Required
  <2> HIDE DEF more
  <2>3. ci'.flags = ci.flags \cup more
    BY <1>0, <2>1, CIFlagsAdded
  <2>4. ReadLines' = ReadLines
    BY <2>1 DEF ReadLines
  <2> QED BY <2>1, <2>2, <2>3, <2>4, JudgementKept
<1>5. CASE TriggerNotHere \/ CollectSecretNames \/ SecretsUnknown
  <2>1. /\ step \in {"trigger", "secrets"} /\ step' \in {"trigger", "secrets", "done"}
        /\ result' = result /\ ci' = ci
    BY <1>5 DEF TriggerNotHere, CollectSecretNames, SecretsUnknown, NextItem, GoTo
  <2>2. ReadLines' = ReadLines
    BY <2>1 DEF ReadLines
  <2> QED BY <2>1, <2>2, JudgementKept
<1>6. CASE SecretsKnown
  <2> DEFINE names == {namesByKey[key] : key \in DOMAIN namesByKey}
  <2>1. /\ step = "secrets" /\ step' = "done" /\ result' = result
        /\ ci' = [ci EXCEPT !.SecretNames = names]
    BY <1>6 DEF SecretsKnown, GoTo
  <2> HIDE DEF names
  <2>2. ci'.flags = ci.flags
    BY <1>0, <2>1
  <2>3. ReadLines' = ReadLines
    BY <2>1 DEF ReadLines
  <2> QED BY <2>1, <2>2, <2>3, JudgementKept
<1>7. CASE UNCHANGED workflowVars
  <2>1. UNCHANGED <<step, next, result, ci>>
    BY <1>7 DEF workflowVars
  <2>2. ReadLines' = ReadLines
    BY <2>1 DEF ReadLines
  <2> QED BY <2>1, <2>2, JudgementKept
<1> QED BY <1>1, <1>2, <1>3, <1>4, <1>5, <1>6, <1>7 DEF ParseCIConfig, extractRunLines, ScanLine

\* A writer calls one of the two parsers.
LEMMA OneParserInit == ParsersInit => OneParser
<1>1. ASSUME NoDockerfile PROVE OneParser
  <2>1. phase = "idle" /\ instructions = <<>> /\ features = NoFeatures
    BY <1>1 DEF NoDockerfile, DockerfileStart
  <2> QED BY <2>1 DEF OneParser, NoFeatures
<1>2. ASSUME NoWorkflow PROVE OneParser
  <2>1. step = "idle" /\ result = <<>> /\ ci = NoCIFeatures
    BY <1>2 DEF NoWorkflow, WorkflowStart
  <2> QED BY <2>1 DEF OneParser, NoCIFeatures
<1> QED BY <1>1, <1>2 DEF ParsersInit

\* The other parser has no file, and stays without one.
LEMMA OneParserStep ==
    OneParser /\ [ParsersNext]_<<dockerVars, workflowVars>> => OneParser'
<1> SUFFICES ASSUME OneParser, [ParsersNext]_<<dockerVars, workflowVars>> PROVE OneParser'
  OBVIOUS
<1>1. CASE phase = "idle" /\ instructions = <<>> /\ features.flags = {}
  <2>1. ~ParseDockerfile
    BY <1>1 DEF ParseDockerfile, SkipLine, ContinueInstruction, EndInstruction, EndOfText, Arg, From,
       OtherInstruction, Return, Taken, Scanning, Reading
  <2>2. UNCHANGED <<phase, instructions, features>>
    BY <2>1 DEF ParsersNext, dockerVars, scanVars, resultVars
  <2> QED BY <1>1, <2>2 DEF OneParser
<1>2. CASE step = "idle" /\ result = <<>> /\ ci.flags = {}
  <2>1. ~ParseCIConfig
    BY <1>2 DEF ParseCIConfig, extractRunLines, SkipBlank, TakeBlockLine, SkipOther, OpenBlock,
       InlineRun, Outside, Extracting, EndOfLines, JudgeLine, LinesJudged, TriggerNotHere,
       TriggerKnown, CollectSecretNames, SecretsKnown, SecretsUnknown
  <2>2. UNCHANGED <<step, result, ci>>
    BY <2>1 DEF ParsersNext, workflowVars
  <2> QED BY <1>2, <2>2 DEF OneParser
<1> QED BY <1>1, <1>2 DEF OneParser

\* Both reports are right, so the report of the file is.
LEMMA JudgedAsMissing ==
    DockerTypeOK /\ WorkflowTypeOK /\ RunsJudged /\ LinesOfRunsJudged /\ OneParser
      => CommandsAreJudged
<1> SUFFICES ASSUME DockerTypeOK, WorkflowTypeOK, RunsJudged, LinesOfRunsJudged, OneParser,
                    phase = "done" \/ step = "done", NEW f \in DOMAIN Required
             PROVE  f \in Reported <=> \E line \in JudgedLines : FirstLacks(line, f)
  BY DEF CommandsAreJudged
<1>1. f \in Reported <=> \E line \in JudgedLines : Missing(line, f)
  <2>1. CASE phase = "done"
    <3>1. result = <<>> /\ ci.flags = {}
      BY <2>1 DEF OneParser
    <3>2. JudgedLines = {instructions[i].value : i \in {j \in DOMAIN instructions : Is(j, "run")}}
      BY <3>1, NoWords DEF JudgedLines
    <3>3. ReadInstructions = DOMAIN instructions
      BY <2>1 DEF ReadInstructions
    <3> QED BY <3>1, <3>2, <3>3 DEF Reported, RunsJudged, RunLacks
  <2>2. CASE phase # "done"
    <3>1. step = "done" /\ instructions = <<>> /\ features.flags = {}
      BY <2>2 DEF OneParser
    <3>2. JudgedLines = {result[n].words : n \in DOMAIN result}
      BY <3>1, NoWords DEF JudgedLines
    <3>3. ReadLines = DOMAIN result
      BY <3>1 DEF ReadLines
    <3> QED BY <3>1, <3>2, <3>3 DEF Reported, LinesOfRunsJudged
  <2> QED BY <2>1, <2>2
<1>2. ASSUME NEW line \in JudgedLines
      PROVE  Missing(line, f) <=> FirstLacks(line, f)
  <2>1. \E W : line \in Seq(W)
    <3>1. CASE \E i \in DOMAIN instructions : line = instructions[i].value
      <4> DEFINE Instruction == [keyword : WordsOfText, value : Seq(WordsOfText)]
      <4>1. instructions \in Seq(Instruction)
        BY DEF DockerTypeOK
      <4> HIDE DEF Instruction
      <4>2. \A i \in DOMAIN instructions : instructions[i] \in Instruction
        BY <4>1
      <4> QED BY <3>1, <4>2 DEF Instruction
    <3>2. CASE \E n \in DOMAIN result : line = result[n].words
      <4> DEFINE Taking == [line : DOMAIN file.lines, words : Seq(WordsOfFile)]
      <4>1. result \in Seq(Taking)
        BY DEF WorkflowTypeOK
      <4> HIDE DEF Taking
      <4>2. \A n \in DOMAIN result : result[n] \in Taking
        BY <4>1
      <4> QED BY <3>2, <4>2 DEF Taking
    <3> QED BY <3>1, <3>2 DEF JudgedLines
  <2> QED BY <2>1, FirstDecides, Zenon
<1> QED BY <1>1, <1>2, Zenon

-----------------------------------------------------------------------------
(* The theorems                                                            *)

\* All of it, for whichever parser has a file.
ParsersInv ==
    /\ DockerTypeOK /\ WorkflowTypeOK
    /\ SummaryInv /\ ArgsInv /\ StagesInv /\ JoinInv
    /\ OwnStepInv /\ ShellInv /\ TriggerInv /\ SecretsInv
    /\ RunsJudged /\ LinesOfRunsJudged /\ OneParser

\* All of it holds from the call of the parser on.
LEMMA ParsersInvariant == ParsersSpec => []ParsersInv
<1>1. ParsersInit => ParsersInv
  <2> SUFFICES ASSUME ParsersInit PROVE ParsersInv
    OBVIOUS
  <2>1. (DockerfileInit \/ NoDockerfile) /\ (WorkflowInit \/ NoWorkflow)
    BY DEF ParsersInit
  <2>2. DockerTypeOK /\ SummaryInv /\ RunsJudged
    BY <2>1, DockerTypeInit, SummaryInit, RunsInit
  <2>3. ArgsInv /\ StagesInv /\ JoinInv
    BY <2>1, ArgsInit, StagesInit, JoinInit
  <2>4. WorkflowTypeOK /\ OwnStepInv /\ ShellInv
    BY <2>1, WorkflowTypeInit, OwnStepInit, ShellInit
  <2>5. TriggerInv /\ SecretsInv /\ LinesOfRunsJudged
    BY <2>1, DocsInit, LinesJudgedInit
  <2> QED BY <2>2, <2>3, <2>4, <2>5, OneParserInit DEF ParsersInv
<1>2. ParsersInv /\ [ParsersNext]_<<dockerVars, workflowVars>> => ParsersInv'
  <2> SUFFICES ASSUME ParsersInv, [ParsersNext]_<<dockerVars, workflowVars>> PROVE ParsersInv'
    OBVIOUS
  <2>1. [ParseDockerfile]_dockerVars /\ [ParseCIConfig]_workflowVars
    BY DEF ParsersNext
  <2>2. DockerTypeOK' /\ SummaryInv' /\ RunsJudged'
    BY <2>1, DockerTypeStep, SummaryStep, RunsStep DEF ParsersInv
  <2>3. ArgsInv' /\ StagesInv' /\ JoinInv'
    BY <2>1, ArgsStep, StagesStep, JoinStep DEF ParsersInv
  <2>4. WorkflowTypeOK' /\ OwnStepInv' /\ ShellInv'
    BY <2>1, WorkflowTypeStep, OwnStepStep, ShellStep DEF ParsersInv
  <2>5. TriggerInv' /\ SecretsInv' /\ LinesOfRunsJudged'
    BY <2>1, TriggerStep, SecretsStep, LinesJudgedStep DEF ParsersInv
  <2>6. OneParser'
    BY OneParserStep DEF ParsersInv
  <2> QED BY <2>2, <2>3, <2>4, <2>5, <2>6 DEF ParsersInv
<1> QED BY <1>1, <1>2, PTL DEF ParsersSpec

\* The two parsers keep their types: no word, flag or name comes from outside the
\* file (dockerfileparser.go lines 62-180 and ciparser.go lines 37-131).
THEOREM ParsersAreTyped == ParsersSpec => []ParsersTypeOK
<1>1. ParsersInv => ParsersTypeOK
  BY DEF ParsersInv, ParsersTypeOK
<1> QED BY <1>1, ParsersInvariant, PTL

\* The file's image and tag are its first stage's, "latest" is reported when a
\* stage is built from it, and several stages make it a multistage build, for any
\* text (dockerfileparser.go lines 93-110 and 178).
THEOREM SummaryIsOfStages == ParsersSpec => []SummaryMatchesStages
<1>1. ParsersInv => SummaryMatchesStages
  BY DEF ParsersInv, SummaryInv
<1> QED BY <1>1, ParsersInvariant, PTL

\* The stages are the FROMs with an image from outside, in order and under the
\* value their ARG has there, for any text and any ARGs and names of stages
\* (dockerfileparser.go lines 72-110 and 232-279).
THEOREM StagesFromOutside == ParsersSpec => []StagesAreExternal
<1>1. ParsersInv => StagesAreExternal
  BY StagesSafe DEF ParsersInv
<1> QED BY <1>1, ParsersInvariant, PTL

\* The instructions of any text are those Docker reads, as long as no comment and
\* no blank line interrupts one (dockerfileparser.go lines 208-228).
THEOREM InstructionsAsDocker == ParsersSpec => []JoinedAsDocker
<1>1. ParsersInv => JoinedAsDocker
  BY JoinSafe DEF ParsersInv
<1> QED BY <1>1, ParsersInvariant, PTL

\* A line of a workflow is taken only with a run field of its own step
\* (ciparser.go lines 52-58).
THEOREM LinesInOwnStep == ParsersSpec => []TakenInOwnStep
<1>1. ParsersInv => TakenInOwnStep
  BY DEF ParsersInv, OwnStepInv, TakenInOwnStep, OpenedBy, Lines
<1> QED BY <1>1, ParsersInvariant, PTL

\* Every shell line of a workflow is taken, in the styles the code knows
\* (ciparser.go lines 48-86).
THEOREM EveryShellLine == ParsersSpec => []ShellLinesAreTaken
<1>1. ParsersInv => ShellLinesAreTaken
  BY ShellLinesTaken DEF ParsersInv
<1> QED BY <1>1, ParsersInvariant, PTL

\* One unreadable document costs the names of all secrets, and hides the trigger
\* only if it comes first; no name is reported in two spellings (ciparser.go
\* lines 133-151 and 212-275).
THEOREM EveryDocument == ParsersSpec => []DocumentsAreRead
<1>1. ParsersInv => DocumentsAreRead
  BY DocsRead DEF ParsersInv
<1> QED BY <1>1, ParsersInvariant, PTL

\* A missing flag is reported exactly if the first command of some line that
\* needs it lacks it, for any lines of any file (shellparser.go lines 52-62, called from
\* dockerfileparser.go lines 149-168 and ciparser.go lines 98-118).
THEOREM EveryCommand == ParsersSpec => []CommandsAreJudged
<1>1. ParsersInv => CommandsAreJudged
  BY JudgedAsMissing DEF ParsersInv
<1> QED BY <1>1, ParsersInvariant, PTL
=============================================================================
