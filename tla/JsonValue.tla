------------------------------ MODULE JsonValue ------------------------------
(***************************************************************************)
(* JSON values, as the parser of the library gives them: the order of the  *)
(* members and duplicates are kept, the text is not.  And a file of one,   *)
(* which may not be readable, or break off after some events of the scan.  *)
(***************************************************************************)
EXTENDS Integers, Sequences

Object(members) == [kind |-> "object", members |-> members]     \* sequence of [key, value]
Array(items)    == [kind |-> "array", items |-> items]
Number(n)       == [kind |-> "number", number |-> n]            \* an integer
Text(s)         == [kind |-> "string", string |-> s]
Other           == [kind |-> "other"]                           \* anything else

\* The values in a value, in their order.
Parts(v) ==
    CASE v.kind = "object" -> [n \in DOMAIN v.members |-> v.members[n].value]
      [] v.kind = "array"  -> v.items
      [] OTHER -> <<>>

\* The values of a set are values, and so are their parts.
AreValues(S) ==
    \A v \in S :
        \/ v.kind = "object" /\ v = Object(v.members) /\ v.members \in Seq([key : STRING, value : S])
        \/ v.kind = "array"  /\ v = Array(v.items)    /\ v.items \in Seq(S)
        \/ v.kind = "number" /\ v = Number(v.number)  /\ v.number \in Int
        \/ v.kind = "string" /\ v = Text(v.string)    /\ v.string \in STRING
        \/ v = Other

\* events: how many there are before the syntax error, or Whole.
File(readable, value, events) == [readable |-> readable, value |-> value, events |-> events]
Whole == -1
=============================================================================
