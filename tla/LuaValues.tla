------------------------------- MODULE LuaValues -------------------------------
(***************************************************************************)
(* Values between YAML and Lua: the parameters of a plugin become its      *)
(* config, and its context is read back (context.rs).  A YAML value is a   *)
(* record [kind, v]; numbers count halves, so that an even one is whole.   *)
(* Lua has one kind of number, a double, and a table is a function from    *)
(* its keys.  How wide mlua's Integer is, and when Luau gives a number as  *)
(* one, is the library's (32 bits in the mlua of Cargo.lock, 64 in others).*)
(***************************************************************************)
EXTENDS Integers, Sequences, FiniteSets

CONSTANTS
    None,
    Inputs,
    IntegerLimit,  \* mlua::Integer is -IntegerLimit..IntegerLimit - 1
    ExactLimit     \* a double holds every whole number up to this one,
                   \* and the even ones up to twice as much

VARIABLES input, output
vars == <<input, output>>

Nil == [kind |-> "nil"]
Error == [kind |-> "error"]

\* Setting a nil leaves the key absent; a nil key, or an element that does not
\* convert, is an error.
Table(entries) ==
    IF \E e \in entries : e[1] \in {Nil, Error} \/ e[2] = Error THEN Error
    ELSE LET kept == {e \in entries : e[2] # Nil}
         IN [kind |-> "table",
             v |-> [k \in {e[1] : e \in kept} |-> (CHOOSE e \in kept : e[1] = k)[2]]]

Number(i) == [kind |-> "number", v |-> 2 * i]

\* `as mlua::Integer`, of an i64 or of a u64 above it, keeps the low bits.
AsInteger(i) == ((i + IntegerLimit) % (2 * IntegerLimit)) - IntegerLimit
\* Luau keeps it as the nearest double, of two the one with an even mantissa.
AsDouble(i) ==
    IF i \in -ExactLimit..ExactLimit \/ i % 2 = 0 THEN i
    ELSE CHOOSE j \in {i - 1, i + 1} : j % 4 = 0

RECURSIVE YamlToLua(_)
YamlToLua(y) ==
    CASE y.kind = "null" -> Nil
      [] y.kind = "int" -> Number(AsDouble(AsInteger(y.v \div 2)))
      [] y.kind = "float" -> [kind |-> "number", v |-> y.v]
      [] y.kind \in {"bool", "string"} -> y
      [] y.kind = "sequence" ->
           Table({<<Number(i), YamlToLua(y.v[i])>> : i \in DOMAIN y.v})
      [] y.kind = "mapping" -> Table({<<YamlToLua(k), YamlToLua(y.v[k])>> : k \in DOMAIN y.v})
      [] y.kind = "tagged" -> YamlToLua(y.v)

\* The number is taken as the double it is.
FaultyReadNumber(halves) == [kind |-> "float", v |-> halves]

\* A whole number comes back as an integer, if an Integer can hold it.
ReadNumber(halves) ==
    [kind |-> IF halves % 2 = 0 /\ halves \div 2 \in -IntegerLimit..(IntegerLimit - 1)
              THEN "int" ELSE "float",
     v |-> halves]

\* The keys of an empty table are exactly 1..0.
FaultyIsSequence(keys) == keys = {Number(i) : i \in 1..Cardinality(keys)}

\* Keys that are exactly 1..n make a sequence, an empty table a mapping.
IsSequence(keys) == keys # {} /\ keys = {Number(i) : i \in 1..Cardinality(keys)}

\* What is no data is refused.
RECURSIVE LuaToYaml(_)
LuaToYaml(l) ==
    CASE l.kind = "nil" -> [kind |-> "null"]
      [] l.kind = "number" -> ReadNumber(l.v)
      [] l.kind \in {"bool", "string"} -> l
      [] l.kind = "function" -> Error
      [] l.kind = "table" ->
           LET keys == {LuaToYaml(k) : k \in DOMAIN l.v}
           IN IF \E k \in DOMAIN l.v : LuaToYaml(k) = Error \/ LuaToYaml(l.v[k]) = Error
              THEN Error
              ELSE IF IsSequence(DOMAIN l.v)
              THEN [kind |-> "sequence",
                    v |-> [i \in 1..Cardinality(DOMAIN l.v) |-> LuaToYaml(l.v[Number(i)])]]
              ELSE [kind |-> "mapping",
                    v |-> [k \in keys |->
                              LuaToYaml(l.v[CHOOSE x \in DOMAIN l.v : LuaToYaml(x) = k])]]

\* Parameters become the script's config; null stands for an empty mapping.
Config(params) ==
    YamlToLua(IF params.kind = "null" THEN [kind |-> "mapping", v |-> <<>>] ELSE params)

\* A context given to a call, and read back from it as it was.
RoundTrip(y) == IF YamlToLua(y) = Error THEN Error ELSE LuaToYaml(YamlToLua(y))

Init == input \in Inputs /\ output = None

Convert ==
    /\ output = None
    /\ output' = [config |-> Config(input), context |-> RoundTrip(input)]
    /\ UNCHANGED input

Next == Convert
Spec == Init /\ [][Next]_vars

--------------------------------------------------------------------------------

\* The values that have a form of their own in Lua: no null inside, no empty
\* sequence, no mapping numbered from 1, no tag, no integer wider than mlua's or
\* than a double's mantissa, no float that is one of mlua's integers.
RECURSIVE Restorable(_)
Restorable(y) ==
    CASE y.kind \in {"null", "tagged"} -> FALSE
      [] y.kind \in {"bool", "string"} -> TRUE
      [] y.kind = "int" -> y.v \div 2 \in (-IntegerLimit..(IntegerLimit - 1)) \cap (-ExactLimit..ExactLimit)
      [] y.kind = "float" -> y.v % 2 = 1 \/ y.v \div 2 \notin -IntegerLimit..(IntegerLimit - 1)
      [] y.kind = "sequence" -> y.v # <<>> /\ \A i \in DOMAIN y.v : Restorable(y.v[i])
      [] y.kind = "mapping" ->
           /\ \A k \in DOMAIN y.v : Restorable(k) /\ Restorable(y.v[k])
           /\ y.v = <<>> \/ DOMAIN y.v # {[kind |-> "int", v |-> 2 * i] : i \in 1..Cardinality(DOMAIN y.v)}

\* A context read back is the value that was put in, for every value with a form
\* of its own; any other is changed by the first call at most, and no later one
\* changes it again (context.rs:5 has every value "round-trip exactly").  The
\* config is a table whatever a mapping of parameters holds.
ContextRoundTrips ==
    output # None =>
        /\ Restorable(input) => output.context = input
        /\ output.context # Error => RoundTrip(output.context) = output.context
        /\ input.kind \in {"null", "mapping"} /\ output.config # Error => output.config.kind = "table"
================================================================================
