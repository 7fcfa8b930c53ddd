----------------------------- MODULE ConfigLoad -----------------------------
(***************************************************************************)
(* Config.UnmarshalYAML of config.go, with the ids of identifiable.go, the *)
(* registries of registry.go, and what the entries decode to.              *)
(*                                                                         *)
(* A document has two sections of entries, which are walked over in the    *)
(* order of a Go map, that is, in any.  The key of an entry is kept by its *)
(* two parts, "" for an empty one, "bad" for one with characters that an   *)
(* id may not have, "none" for a name that is not there; the blanks around *)
(* a part are gone with the trimming.  The node of an entry is             *)
(*   null         nothing at all                                           *)
(*   text         something that does not decode to a struct               *)
(*   resource     attributes and detectors                                 *)
(*   sampler      a type of sampler, or "unset", and a ratio               *)
(*   exporter     a function of the knobs that are written down            *)
(***************************************************************************)
EXTENDS Attributes

Sections == {"processors", "exporters"}

CONSTANTS
    Docs,               \* the documents: for a section its nodes by key
    Registered,         \* the types that are registered, for a section
    Fields              \* the knobs that a type of exporter has fields for

ASSUME LoadAssumption ==
    \A d \in Docs : DOMAIN d = Sections

VARIABLES
    doc,
    at,                 \* the section that is walked over, or what comes after
    todo,               \* its keys that are still to come
    loaded,             \* what is in the Config, for a section
    errs,               \* the keys with an error, for a section
    loadAnswer

loadVars == <<doc, at, todo, loaded, errs, loadAnswer>>

LoadInit ==
    /\ doc \in Docs
    /\ at = "document"
    /\ todo = {}
    /\ loaded = [s \in Sections |-> <<>>]
    /\ errs = [s \in Sections |-> {}]
    /\ loadAnswer = "none"

----------------------------------------------------------------------------
(* What an entry decodes to. *)

(* Id.UnmarshalText. *)
KeyRefused(k) == {k.type, k.name} \cap {"", "bad"} # {}

Default(type) ==
    CASE type = "resource" -> [kind |-> "resource", attributes |-> <<>>,
                               detectors |-> {}]
      [] type = "sampler" -> [kind |-> "sampler", type |-> "unset", ratio |-> 0]
      [] OTHER -> [kind |-> "exporter", knobs |-> <<>>]

DecodeResource(node) ==
    LET decoded == [i \in DOMAIN node.attributes |-> DecodeValue(node.attributes[i])]
        Some(outcome) == \E i \in DOMAIN decoded : decoded[i].outcome = outcome
    IN  [outcome |-> IF Some("panic") THEN "panic"
                     ELSE IF Some("error") THEN "error" ELSE "ok",
         value |-> [node EXCEPT !.attributes =
                       [i \in DOMAIN decoded |-> decoded[i].value]]]

(* A knob without a field is passed over. *)
DecodeExporter(type, node) ==
    Decoded([node EXCEPT !.knobs =
                [k \in DOMAIN @ \cap Fields[type] |-> @[k]]])

Decode(type, node) ==
    CASE node.kind = "null" -> Decoded(Default(type))
      [] node.kind = "text" -> [outcome |-> "error", value |-> Default(type)]
      [] node.kind = "resource" -> DecodeResource(node)
      [] node.kind = "sampler" -> Decoded(node)
      [] node.kind = "exporter" -> DecodeExporter(type, node)

----------------------------------------------------------------------------
(* The steps of UnmarshalYAML. *)

LoadReturns(a) ==
    /\ at' = "returned"
    /\ loadAnswer' = a
    /\ UNCHANGED <<doc, todo, loaded, errs>>

(* The document as a whole: keys are parsed. *)
UnmarshalDocument ==
    /\ at = "document"
    /\ IF \E s \in Sections : \E k \in DOMAIN doc[s] : KeyRefused(k)
       THEN LoadReturns("error")
       ELSE /\ at' = "processors"
            /\ todo' = DOMAIN doc["processors"]
            /\ UNCHANGED <<doc, loaded, errs, loadAnswer>>

UnknownType(k) ==
    /\ at \in Sections
    /\ k \in todo
    /\ k.type \notin Registered[at]
    /\ todo' = todo \ {k}
    /\ errs' = [errs EXCEPT ![at] = @ \cup {k}]
    /\ UNCHANGED <<doc, at, loaded, loadAnswer>>

(* Mutant of DecodeEntry: an entry that fails ends the walk.               *)
DecodeEntryOrStop(k) ==
    /\ at \in Sections
    /\ k \in todo
    /\ k.type \in Registered[at]
    /\ LET d == Decode(k.type, doc[at][k])
       IN  /\ d.outcome # "panic"
           /\ todo' = IF d.outcome = "error" THEN {} ELSE todo \ {k}
           /\ errs' = [errs EXCEPT ![at] = IF d.outcome = "error" THEN @ \cup {k} ELSE @]
           /\ loaded' = [loaded EXCEPT ![at] =
                  [j \in DOMAIN @ \cup {k} |-> IF j = k THEN d.value ELSE @[j]]]
    /\ UNCHANGED <<doc, at, loadAnswer>>

(* An entry is stored even if it did not decode. *)
DecodeEntry(k) ==
    /\ at \in Sections
    /\ k \in todo
    /\ k.type \in Registered[at]
    /\ LET d == Decode(k.type, doc[at][k])
       IN  /\ d.outcome # "panic"
           /\ todo' = todo \ {k}
           /\ errs' = [errs EXCEPT ![at] = IF d.outcome = "error" THEN @ \cup {k} ELSE @]
           /\ loaded' = [loaded EXCEPT ![at] =
                  [j \in DOMAIN @ \cup {k} |-> IF j = k THEN d.value ELSE @[j]]]
    /\ UNCHANGED <<doc, at, loadAnswer>>

DecodePanics(k) ==
    /\ at \in Sections
    /\ k \in todo
    /\ k.type \in Registered[at]
    /\ Decode(k.type, doc[at][k]).outcome = "panic"
    /\ LoadReturns("panic")

NextSection ==
    /\ at = "processors"
    /\ todo = {}
    /\ at' = "exporters"
    /\ todo' = DOMAIN doc["exporters"]
    /\ UNCHANGED <<doc, loaded, errs, loadAnswer>>

(* The errors of both sections are joined. *)
JoinErrors ==
    /\ at = "exporters"
    /\ todo = {}
    /\ LoadReturns(IF \A s \in Sections : errs[s] = {} THEN "ok" ELSE "error")

LoadNext ==
    \/ UnmarshalDocument
    \/ \E k \in todo : UnknownType(k) \/ DecodeEntry(k) \/ DecodePanics(k)
    \/ NextSection
    \/ JoinErrors

----------------------------------------------------------------------------
(* Correctness. *)

(* The keys of a section whose entries are no good. *)
Broken(s) ==
    {k \in DOMAIN doc[s] :
        \/ k.type \notin Registered[s]
        \/ Decode(k.type, doc[s][k]).outcome = "error"}

(* One look at a document reports everything that is wrong with it: in     *)
(* whatever order the entries are ranged over, one that fails keeps no     *)
(* other one from being decoded or reported, in either section, and what   *)
(* is accepted has every entry (config.go:77-121).  That holds of the      *)
(* entries once the keys have been parsed: a key that is no id ends the    *)
(* load before any entry is looked at, so nothing is said of the entries   *)
(* next to it; nor of a load that panics, on a list of an attribute with   *)
(* items of several types (attr.go:79).                                    *)
LoadReportsAll ==
    (at = "returned" /\ loadAnswer # "panic") =>
        LET BadKey == \E s \in Sections : \E k \in DOMAIN doc[s] : KeyRefused(k)
        IN  IF BadKey THEN loadAnswer = "error"
            ELSE /\ \A s \in Sections : errs[s] = Broken(s)
                 /\ loadAnswer = "ok" <=> \A s \in Sections : Broken(s) = {}
                 /\ \A s \in Sections : \A k \in DOMAIN doc[s] :
                       k \in DOMAIN loaded[s] \/ k.type \notin Registered[s]
=============================================================================
