------------------------------ MODULE MCAnalysis ------------------------------
(***************************************************************************)
(* Instances of what the analysis reads: two small studies, samples,       *)
(* tables of results, operating points, p-values and factor designs.       *)
(***************************************************************************)
EXTENDS Integers, Sequences, TLC

CONSTANTS None, NoName

VARIABLES input, output

Exactly(n) == [num |-> n, den |-> 1]

(***************************************************************************)
(* Studies: two or three arms; one may lack a replicate, or a metric of it *)
(***************************************************************************)

Result(kind, values) == [kind |-> kind, values |-> values]
Outcomes ==
    {[k \in {} |-> 0], "mae" :> Result("scalar", <<Exactly(1)>>), "mae" :> Result("series", <<>>),
     "mae" :> Result("distribution", <<>>), "mae" :> Result("distribution", <<Exactly(0), Exactly(2)>>),
     ("mae" :> Result("histogram", <<>>)) @@ ("wait" :> Result("summary", <<Exactly(3)>>))}
Replicate(i, metrics) == [index |-> i, metrics |-> metrics]
Arm(name, condition, replicates) ==
    [name |-> name, condition |-> condition, replicates |-> replicates]
OneReplicate(name, condition) == {Arm(name, condition, <<Replicate(0, x)>>) : x \in Outcomes}
TwoReplicates(name, condition, firsts) ==
    {Arm(name, condition, <<Replicate(i, x), Replicate(1, y)>>) : i \in firsts, x, y \in Outcomes}
StudyOf(arms, paired) ==
    [kind |-> "study", arms |-> arms, paired |-> paired, place |-> [mae |-> 1, wait |-> 2]]

NewStudies ==
    {StudyOf(<<a, b>>, p) : a \in TwoReplicates("a", "a", {0, 2}),
       b \in TwoReplicates("b", "b", {0}) \cup OneReplicate("b", "b"), p \in BOOLEAN}
ThreeArms ==
    {StudyOf(<<a, b, Arm("c", "c", <<Replicate(0, "mae" :> Result("scalar", <<Exactly(2)>>))>>)>>, TRUE) :
       a \in OneReplicate("a", "a"), b \in OneReplicate("b", "b")}
\* Files written before arms had a condition id.
OldStudies ==
    {StudyOf(<<a, b>>, TRUE) : a \in OneReplicate("a", NoName), b \in OneReplicate("b", NoName)}

(***************************************************************************)
(* The other inputs                                                        *)
(***************************************************************************)

Columns ==
    {<<>>} \cup {<<Exactly(a)>> : a \in 0..2} \cup {<<Exactly(a), Exactly(b)>> : a, b \in {-1, 0, 2}}
        \cup {<<Exactly(0), Exactly(2), Exactly(5)>>}
Samples ==
    [kind : {"samples"}, control : Columns, treatment : Columns, paired : BOOLEAN, p : {2, 90}, conf : {95}]

Text(x) == [type |-> "str", v |-> [text |-> x]]
Number(type, n) == [type |-> type, v |-> Exactly(n)]
Rows ==
    {<<Text("mae"), Text(c), v>> : c \in {"a", "b"}, v \in {Number("float", 1), Number("int", 2), Text("x")}}
        \cup {<<Text("wait"), Text("a"), Number("float", 3)>>}
Tables ==
    {[kind |-> "frame", frame |-> [columns |-> <<"metric", "condition", "value">>, rows |-> <<r, q, w>>],
      metric |-> Text("mae"), a |-> Text("a"), b |-> Text("b"), ascending |-> d] :
        r, q, w \in Rows, d \in BOOLEAN}

Corners == {<<0, 2>>, <<1, 1>>, <<2, 0>>, <<2, 2>>, <<1, 2>>}
OperatingPoints ==
    {[kind |-> "points", higher |-> h,
      points |-> <<[label |-> 1, values |-> x], [label |-> 2, values |-> y], [label |-> l, values |-> z]>>] :
        x, y, z \in Corners, l \in {1, 3}, h \in {<<FALSE, FALSE>>, <<TRUE, FALSE>>}}

\* Probabilities are sixtieths.
PValues ==
    {[kind |-> "pvalues", ps |-> s, plan |-> [conditions |-> k, effect_sd |-> 1, minimum_effect |-> e]] :
        s \in UNION {[1..n -> {0, 6, 12, 30, 60}] : n \in 0..3}, k \in {0, 3}, e \in {0, 1}}

Level(f, l) == [factor |-> f, level |-> l]
FactorDesigns ==
    {<<<<Level("k", "8")>>, <<Level("k", "16")>>>>, <<<<Level("k", "8")>>, <<Level("k", "8")>>>>,
     <<<<Level("k", "8"), Level("w", "60")>>, <<Level("k", "16"), Level("w", "90")>>>>,
     <<<<Level("k", "8"), Level("w", "60")>>, <<Level("k", "16"), Level("w", "60")>>>>,
     <<<<Level("k", "8"), Level("k", "16")>>, <<Level("w", "90")>>>>, <<>>}
Terms ==
    {<<[kind |-> "main", factor |-> "k"]>>, <<[kind |-> "interaction", factors |-> <<"k", "w">>]>>,
     <<[kind |-> "interaction", factors |-> <<"k", "k">>]>>}
TwoColumns(c, t) == <<[control |-> c, treatment |-> t], [control |-> t, treatment |-> c]>>
Effects ==
    {[kind |-> "factors", design |-> d, factors |-> f, terms |-> ts, columns |-> TwoColumns(a, b),
      paired |-> p, nameLength |-> ("8" :> 1 @@ "16" :> 2 @@ "60" :> 2 @@ "90" :> 2)] :
        d \in FactorDesigns, f \in {<<"k">>, <<"k", "w">>}, ts \in Terms, p \in BOOLEAN,
        a, b \in {<<>>, <<Exactly(1)>>, <<Exactly(0), Exactly(3)>>}}

Statistics == INSTANCE Analysis WITH
    Large <- 2, One <- 60,
    Inputs <- NewStudies \cup ThreeArms \cup OldStudies \cup Samples \cup Tables
              \cup OperatingPoints \cup PValues \cup Effects

-------------------------------------------------------------------------------

Spec == Statistics!Init /\ [][Statistics!Next]_<<input, output>>

\* Analysis: replicates of different arms are kept apart.
ArmsKeptApart == Statistics!ArmsKeptApart
===============================================================================
