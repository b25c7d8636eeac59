---------------------------------- MODULE Cli ----------------------------------
(***************************************************************************)
(* The matchlab command: the flags every command shares, the arguments of  *)
(* each, and what a command reads, runs, writes and reports as its exit    *)
(* code.  What the library behind a command answers is left open.          *)
(***************************************************************************)
EXTENDS Integers, Sequences, FiniteSets, SequencesExt

CONSTANTS
    None,
    Arguments,   \* the command lines, sequences of words after the program's name
    Numbers,     \* the words that parse as numbers
    Formats      \* the lists of output formats a manifest may name

VARIABLES
    words,       \* the command line
    todo,        \* the steps left, None before the command is known
    formats,     \* output.formats of the manifest or study
    done,        \* the steps that succeeded, in order
    exit         \* the exit code, or None while running

vars == <<words, todo, formats, done, exit>>

Ok == 0
Failure == 1
Usage == 2
Panic == 101

(***************************************************************************)
(* Arguments                                                               *)
(***************************************************************************)

\* A word that starts with a dash.
IsFlag(word) == word \in {"--json", "--unpaired", "--replicates", "-o", "--output", "--sd", "--effect",
                          "--alpha", "--power", "--gp-threads", "--threads", "--verbose"}
\* Takes one word more: the value of a flag, a flag with a value, a switch, or
\* an argument of its own.
TakeWord(parsed, word, switches, valued) ==
    IF parsed.flag # None
    THEN [flag |-> None, values |-> Append(parsed.values, <<parsed.flag, word>>), rest |-> parsed.rest]
    ELSE IF word \in valued THEN [parsed EXCEPT !.flag = word]
    ELSE IF word \in switches THEN parsed
    ELSE [parsed EXCEPT !.rest = Append(@, word)]
\* The words that are neither a switch, nor a flag with a value nor its value;
\* the values, in order; and a flag at the end that lacks its value.
ParseArgs(args, switches, valued) ==
    LET parsed[n \in 0..Len(args)] ==
            IF n = 0 THEN [flag |-> None, values |-> <<>>, rest |-> <<>>]
            ELSE TakeWord(parsed[n - 1], args[n], switches, valued)
    IN parsed[Len(args)]
LastWord(args) == IF args = <<>> THEN None ELSE args[Len(args)]
\* The number given last to a flag; an incomplete or malformed one unsets it.
Number(parsed, flag) ==
    LET given == SelectSeq(parsed.values, LAMBDA pair : pair[1] = flag)
    IN IF parsed.flag = flag \/ given = <<>> \/ LastWord(given)[2] \notin Numbers
       THEN None ELSE LastWord(given)[2]
\* The path of a command that skips the flags it does not know.
Path(args, valued) ==
    LastWord(SelectSeq(ParseArgs(args, {}, valued).rest, LAMBDA x : ~IsFlag(x)))

\* Every command shares these, and finds its own arguments without them.
Positional(args) ==
    ParseArgs(args, {"--verbose", "--json-logs"}, {"--log-level", "--log-file", "--threads"}).rest

(***************************************************************************)
(* Commands: what each does, in order, or Usage                            *)
(***************************************************************************)

Bad == <<"usage">>
\* What a command is made of.
Writes == {"writeJson", "writeJsonl", "writeYaml"}
Steps == {"help", "load", "run", "runStudy", "optimize", "package", "createDirectory", "plot",
          "skipFormat", "writeReport", "writePackage", "report", "reportBest"} \cup Writes

\* A format nobody knows is skipped; JSON is written when none is left.
WriteOf(word) ==
    CASE word = "json" -> "writeJson" [] word = "jsonl" -> "writeJsonl"
      [] word \in {"yaml", "yml"} -> "writeYaml" [] OTHER -> "skipFormat"
Known(list) == {i \in DOMAIN list : WriteOf(list[i]) \in Writes}
\* Only the first format is written.
FaultyWriteEach(list) == IF Known(list) = {} THEN <<"writeJson">> ELSE <<WriteOf(Head(list))>>
WriteEach(list) ==
    IF Known(list) = {} THEN <<"writeJson">> ELSE [i \in DOMAIN list |-> WriteOf(list[i])]

FinishStudy(list) == WriteEach(list) \o <<"report">>

\* The first argument is the manifest, whatever it looks like; plots, asked for
\* by the manifest, may fail without being counted.
Run(args) ==
    IF args = <<>> THEN {Bad}
    ELSE {<<"load", "runStudy">> \o FinishStudy(formats)}
        \cup {<<"load", "run">> \o WriteEach(formats) \o extras :
                  extras \in {<<>>, <<"plot">>, <<"writeReport">>, <<"plot", "writeReport">>}}
\* --replicates must be followed by a count; any other word, a flag too, is the path.
Study(args) ==
    LET parsed == ParseArgs(args, {"--json"}, {"--replicates"})
    IN IF \/ parsed.flag # None \/ parsed.rest = <<>>
          \/ \E i \in DOMAIN parsed.values : parsed.values[i][2] \notin Numbers
       THEN {Bad} ELSE {<<"load", "runStudy">> \o FinishStudy(formats)}
Reads(n) == [i \in 1..n |-> "load"]
\* Every word but --json is a result to read.
Compare(args) ==
    LET paths == ParseArgs(args, {"--json"}, {}).rest
    IN IF paths = <<>> THEN {Bad} ELSE {Reads(Len(paths)) \o <<"report">>}
Package(args) ==
    IF Path(args, {"-o", "--output"}) = None THEN {Bad} ELSE {<<"load", "package", "writePackage">>}
Analyze(args) ==
    IF Path(args, {}) = None THEN {Bad} ELSE {<<"load", "report">>}
\* --unpaired changes a line of the output, not the analysis.
CompareStats(args) ==
    LET paths == Cardinality({i \in DOMAIN args : ~IsFlag(args[i])})
    IN IF paths < 2 THEN {Bad} ELSE {Reads(paths) \o <<"report">>}
\* The flags of power take the word that follows whatever it is; an --alpha or
\* --power that is no number keeps its default.
Power(args) ==
    LET parsed == ParseArgs(args, {}, {"--sd", "--effect", "--alpha", "--power"})
    IN IF None \in {Number(parsed, "--sd"), Number(parsed, "--effect")} THEN {Bad} ELSE {<<"report">>}
\* Only a number after --gp-threads is taken with it.
OptimizeArgs(args) ==
    LET threads(i) == i > 1 /\ args[i - 1] = "--gp-threads" /\ args[i] \in Numbers
        path(i) == ~threads(i) /\ ~IsFlag(args[i])
        last(S) == IF S = {} THEN None ELSE args[CHOOSE i \in S : \A j \in S : j <= i]
    IN [json |-> "--json" \in ToSet(args),
        path |-> last({i \in DOMAIN args : path(i)}), threads |-> last({i \in DOMAIN args : threads(i)})]
\* The best is shown before the result is written.
FaultyOptimize(args) ==
    IF OptimizeArgs(args).path = None THEN {Bad}
    ELSE {<<"load", "optimize", "createDirectory", "reportBest", "writeJson">>}
Optimize(args) ==
    IF OptimizeArgs(args).path = None THEN {Bad}
    ELSE {<<"load", "optimize", "createDirectory", "writeJson">>
              \o (IF OptimizeArgs(args).json THEN <<"report">> ELSE <<"reportBest">>)}

Commands == {"run", "study", "compare", "package", "analyze", "compare-stats", "power", "optimize"}
\* The steps a command line may come to.
Dispatch(args) ==
    LET command == Head(args)  rest == Tail(args)
    IN IF args = <<>> \/ Head(args) \in {"--version", "-V", "--help", "-h"} THEN {<<"help">>}
       ELSE IF command \notin Commands THEN {Bad}
       ELSE CASE command = "run" -> Run(rest) [] command = "study" -> Study(rest)
              [] command = "compare" -> Compare(rest) [] command = "package" -> Package(rest)
              [] command = "analyze" -> Analyze(rest) [] command = "compare-stats" -> CompareStats(rest)
              [] command = "power" -> Power(rest) [] command = "optimize" -> Optimize(rest)

(***************************************************************************)
(* A run of the program                                                    *)
(***************************************************************************)

Init ==
    /\ words \in Arguments
    /\ formats \in Formats
    /\ todo = None /\ done = <<>> /\ exit = None

Main ==
    /\ exit = None /\ todo = None
    /\ \E steps \in Dispatch(Positional(words)) :
           IF steps = Bad THEN exit' = Usage /\ UNCHANGED todo
           ELSE todo' = steps /\ UNCHANGED exit
    /\ UNCHANGED <<words, formats, done>>

Step ==
    /\ exit = None /\ todo # None /\ todo # <<>>
    /\ done' = Append(done, Head(todo))
    /\ todo' = Tail(todo)
    /\ UNCHANGED <<words, formats, exit>>

\* Steps that cannot fail print; the plots of a run are best effort.
MayFail(step) == step \notin {"help", "report", "reportBest", "plot", "skipFormat"}
\* A failed write is reported and the program goes on.
FaultyFail ==
    /\ exit = None /\ todo # None /\ todo # <<>> /\ MayFail(Head(todo))
    /\ IF Head(todo) \in Writes THEN todo' = Tail(todo) /\ UNCHANGED exit
       ELSE exit' = Failure /\ UNCHANGED todo
    /\ UNCHANGED <<words, formats, done>>
Fail ==
    /\ exit = None /\ todo # None /\ todo # <<>> /\ MayFail(Head(todo))
    /\ exit' = Failure
    /\ UNCHANGED <<words, formats, done, todo>>
PlotFails ==
    /\ exit = None /\ todo # None /\ todo # <<>> /\ Head(todo) = "plot"
    /\ todo' = Tail(todo)
    /\ UNCHANGED <<words, formats, done, exit>>

\* What simulates, searches or computes statistics may panic: on a run of a study
\* that fails, on values that are no numbers, on a best trial when there is none.
\* The statistics of a study are computed for every format it is written in.
MayPanic(step) ==
    \/ step \in {"run", "runStudy", "optimize", "plot", "writeReport", "report", "reportBest"}
    \/ step \in Writes /\ "runStudy" \in ToSet(done)
Panics ==
    /\ exit = None /\ todo # None /\ todo # <<>> /\ MayPanic(Head(todo))
    /\ exit' = Panic
    /\ UNCHANGED <<words, formats, done, todo>>

Return ==
    /\ exit = None /\ todo = <<>>
    /\ exit' = Ok
    /\ UNCHANGED <<words, formats, done, todo>>

Next == Main \/ Step \/ Fail \/ PlotFails \/ Panics \/ Return
Spec == Init /\ [][Next]_vars

(***************************************************************************)
(* Properties                                                              *)
(***************************************************************************)

\* What has to be written in the end: a run and a study in every format asked for
\* that is known, an optimization in JSON, a package.
Asked(list) == IF Known(list) = {} THEN {"writeJson"} ELSE {WriteOf(list[i]) : i \in Known(list)}
Saved(steps) ==
    /\ {"run", "runStudy"} \cap steps # {} => Asked(formats) \subseteq steps
    /\ "optimize" \in steps => "writeJson" \in steps
    /\ "package" \in steps => "writePackage" \in steps

\* The exit code tells what happened: 0 when all that a command made has been
\* written, 2 when it has touched nothing, 1 and 101 when it did not come to its
\* end.  A panic may take the result of a study along, but not that of a run or
\* an optimization that has ended: it is written before anything may panic.
ExitIsHonest ==
    /\ exit = Usage => done = <<>>
    /\ exit \in {Failure, Panic} => todo # <<>>
    /\ exit = Ok => Saved(ToSet(done))
    /\ exit = Panic /\ "runStudy" \notin ToSet(done) => Saved(ToSet(done))
===============================================================================
