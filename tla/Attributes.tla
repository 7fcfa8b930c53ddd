----------------------------- MODULE Attributes -----------------------------
(***************************************************************************)
(* The decoding of a resource's attributes: Attr of attr.go.               *)
(*                                                                         *)
(* What the YAML decoder hands over is kept as its dynamic type, a number  *)
(* where it has one, and the items of a list.  It makes a uint64 of an     *)
(* integer that is not negative, an int64 of one that is.                  *)
(***************************************************************************)
EXTENDS Integers, Sequences

CONSTANT Width          \* bits of an integer
ASSUME WidthAssumption == Width \in Nat \ {0}

Value(type, n) == [type |-> type, n |-> n, items |-> <<>>]
List(items) == [type |-> "list", n |-> 0, items |-> items]
Nothing == Value("null", 0)

Elements == {"string", "uint64", "float64", "bool"}

(* int(v) of a uint64 keeps the bits. *)
AsInt(n) == IF n < 2^(Width - 1) THEN n ELSE n - 2^Width
Attribute(v) == IF v.type = "uint64" THEN Value("int64", AsInt(v.n)) ELSE v

Decoded(v) == [outcome |-> "ok", value |-> v]
Refusal == [outcome |-> "error", value |-> Nothing]
Panic == [outcome |-> "panic", value |-> Nothing]

SameType(vs) == \A i \in DOMAIN vs : vs[i].type = vs[1].type

(* Mutant of DecodeSlice: a string slice leaves out what is not a string.  *)
DecodeSliceFiltered(vs) ==
    IF vs = <<>> THEN Decoded(List(<<>>))
    ELSE IF vs[1].type \notin Elements THEN Refusal
    ELSE IF SameType(vs) THEN Decoded(List([i \in DOMAIN vs |-> Attribute(vs[i])]))
    ELSE IF vs[1].type = "string"
    THEN Decoded(List(SelectSeq(vs, LAMBDA v : v.type = "string")))
    ELSE Panic

(* The first item decides on the type; a type assertion fails on one that  *)
(* differs, but after a string there is a check.                           *)
DecodeSlice(vs) ==
    IF vs = <<>> THEN Decoded(List(<<>>))
    ELSE IF vs[1].type \notin Elements THEN Refusal
    ELSE IF SameType(vs) THEN Decoded(List([i \in DOMAIN vs |-> Attribute(vs[i])]))
    ELSE IF vs[1].type = "string" THEN Refusal
    ELSE Panic

DecodeValue(v) ==
    IF v.type \in Elements THEN Decoded(Attribute(v))
    ELSE IF v.type = "list" THEN DecodeSlice(v.items)
    ELSE Refusal
=============================================================================
