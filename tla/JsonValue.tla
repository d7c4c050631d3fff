------------------------------ MODULE JsonValue ------------------------------
(***************************************************************************)
(* JSON values as Go holds them in an `any`, tagged by their type.         *)
(*                                                                         *)
(* A number is counted in halves, so 4 is 2 and 5 is 2.5: what tells the   *)
(* code's cases apart is whether it is whole.  Numbers are those an int64  *)
(* holds: converting another one is left out.  A string is a sequence of   *)
(* tokens: a piece of text, the decimal image of a number, a date, or the  *)
(* image of an object or array.  An object key is <<d, name>> with d       *)
(* leading dollar signs.                                                   *)
(***************************************************************************)
EXTENDS Integers, Sequences, FiniteSets

CONSTANTS
  None,       \* stands for what a file or a message leaves out
  Value,      \* the values that occur, with their parts
  Depth(_)    \* the nesting of schema and template nodes

Nil     == [nil |-> TRUE]
Str(s)  == [str |-> s]
Num(h)  == [num |-> h]
Bool(b) == [bool |-> b]
Obj(f)  == [obj |-> f]
Arr(s)  == [arr |-> s]

Is(v, type) == type \in DOMAIN v

Whole(h) == h % 2 = 0

Text(x) == [text |-> x]
Image(h) == [dec |-> h]
Date(h) == [date |-> h]
Dump(v) == [dump |-> v]

(* A piece of a template string that refers to a value. *)
IsRef(piece) == "ref" \in DOMAIN piece

Key(name) == <<0, name>>
Dollar(name) == <<1, name>>
Escaped(name) == <<2, name>>

(* The value of a field; a missing field reads as nil. *)
Field(f, k) == IF k \in DOMAIN f THEN f[k] ELSE Nil

ASSUME ValueAssumption ==
  Nil \in Value /\ \A v \in Value :
    \/ v = Nil
    \/ DOMAIN v = {"str"}
    \/ DOMAIN v = {"num"} /\ v.num \in Int
    \/ DOMAIN v = {"bool"} /\ v.bool \in BOOLEAN
    \/ DOMAIN v = {"obj"} /\ \A k \in DOMAIN v.obj : v.obj[k] \in Value
    \/ DOMAIN v = {"arr"} /\ \A i \in DOMAIN v.arr : v.arr[i] \in Value
=============================================================================
