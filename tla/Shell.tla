------------------------------- MODULE Shell -------------------------------
(***************************************************************************)
(* What the parsers see in a shell command line                            *)
(* (internal/parser/shellparser.go).  A line is a sequence of words; a     *)
(* command with its subcommand, like "npm ci", is one word, and so is each *)
(* operator that separates commands.  The text inside a word is left out:  *)
(* the code takes care that "pnpm install" is not "npm install".           *)
(***************************************************************************)
EXTENDS Naturals, Sequences

Separators == {"&&", "||", ";", "|"}

\* splitRunSegments: words i and j stand in the same segment.
SameSegment(line, i, j) ==
    /\ {i, j} \subseteq DOMAIN line
    /\ \A k \in DOMAIN line : (i <= k /\ k <= j) \/ (j <= k /\ k <= i) => line[k] \notin Separators

StartsSegment(line, i) == i = 1 \/ line[i - 1] \in Separators

Has(line, words) == \E i \in DOMAIN line : line[i] \in words

-----------------------------------------------------------------------------
\* Which commands are reported when which flag is missing.
Required == [
    UsesNpmCiWithoutIgnoreScripts |-> [commands |-> {"npm ci"}, flag |-> "--ignore-scripts"],
    UsesYarnInstallWithoutFrozen  |-> [commands |-> {"yarn install"}, flag |-> "--frozen-lockfile"],
    UsesPipInstallWithoutNoCache  |-> [commands |-> {"pip install", "pip3 install"}, flag |-> "--no-cache-dir"],
    UsesPipInstallWithoutHashes   |-> [commands |-> {"pip install", "pip3 install"}, flag |-> "--require-hashes"]]

\* The flag is given in the segment of word i.
Given(line, i, flag) == \E j \in DOMAIN line : SameSegment(line, i, j) /\ line[j] = flag

\* Mutant of commandMissingFlag: the flag of any command will do for each.
LineMissingFlag(line, commands, flag) == Has(line, commands) /\ ~Has(line, {flag})

\* The first command of the line decides.
commandMissingFlag(line, commands, flag) ==
    \E i \in DOMAIN line :
        /\ line[i] \in commands
        /\ \A j \in 1..(i - 1) : line[j] \notin commands
        /\ ~Given(line, i, flag)

isNpmInstall(line) == Has(line, {"npm install"})

isNpxUsage(line) == \E i \in DOMAIN line : StartsSegment(line, i) /\ line[i] = "npx"

isCurlBashPipe(line) ==
    /\ Has(line, {"curl", "wget"})
    /\ \E i \in 2..Len(line) : line[i - 1] \in {"|", "||"} /\ line[i] \in {"bash", "sh"}

isSudo(line) == \E i \in DOMAIN line : StartsSegment(line, i) /\ line[i] = "sudo"

PublishCommands == {"npm publish", "pnpm publish", "yarn npm publish", "yarn publish"}

isPackagePublish(line) ==
    \E i \in DOMAIN line : line[i] \in PublishCommands /\ ~Given(line, i, "--dry-run")

\* The flags both parsers set.
LineFlags == DOMAIN Required \cup {"UsesNpmInstall", "UsesNpx", "UsesCurlBashPipe"}

\* What both parsers report of a line.
ShellFlags(line) ==
    {f \in DOMAIN Required : commandMissingFlag(line, Required[f].commands, Required[f].flag)}
    \cup {f \in {"UsesNpmInstall"} : isNpmInstall(line)}
    \cup {f \in {"UsesNpx"} : isNpxUsage(line)}
    \cup {f \in {"UsesCurlBashPipe"} : isCurlBashPipe(line)}

-----------------------------------------------------------------------------
\* What a line says, for comparison with what is reported: its commands that
\* need f's flag; one of them lacks it if each such flag of the line stands
\* beyond a separator.
Commands(line, f) == {i \in DOMAIN line : line[i] \in Required[f].commands}

Lacks(line, i, f) ==
    \A j \in DOMAIN line :
        line[j] = Required[f].flag => \E k \in (i..j) \cup (j..i) : line[k] \in Separators

SomeLacks(line, f) == \E i \in Commands(line, f) : Lacks(line, i, f)

FirstLacks(line, f) ==
    \E i \in Commands(line, f) : Lacks(line, i, f) /\ \A k \in Commands(line, f) : i <= k
=============================================================================
