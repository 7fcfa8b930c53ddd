----------------------------- MODULE LoadProofs -----------------------------
(***************************************************************************)
(* What ConfigLoad guarantees for every set of documents, proved.          *)
(*                                                                         *)
(* LoadReportsAll speaks of the answer; WalkInv says in the middle of a    *)
(* walk what has been seen so far: the errors of the section that is       *)
(* walked over are its broken entries but for those still to come.  What   *)
(* an entry decodes to is never looked into, so all of this holds whatever *)
(* Decode does.                                                            *)
(***************************************************************************)
EXTENDS ConfigLoad, TLAPS

Entries(s) == DOMAIN doc[s]
AnyBadKey == \E s \in Sections : \E k \in Entries(s) : KeyRefused(k)

(* The entries of a section that have been visited. *)
Visited(s) ==
    {k \in Entries(s) : \/ at = "returned"
                        \/ at = "exporters" /\ s = "processors"
                        \/ at = s /\ k \notin todo}

Usable(s) == {k \in Entries(s) : k.type \in Registered[s]}

LoadTypes ==
    /\ doc \in Docs
    /\ at \in Sections \cup {"document", "returned"}
    /\ loadAnswer \in {"none", "ok", "error", "panic"}
    /\ loadAnswer # "none" <=> at = "returned"
    /\ at \in Sections => todo \subseteq Entries(at)
    /\ DOMAIN errs = Sections
    /\ DOMAIN loaded = Sections

(* What is known of a section: its errors, and its entries that are in the *)
(* config with what they decode to.                                        *)
Seen(s) ==
    /\ errs[s] = Broken(s) \cap Visited(s)
    /\ DOMAIN loaded[s] = Usable(s) \cap Visited(s)
    /\ \A k \in Usable(s) \cap Visited(s) :
          loaded[s][k] = Decode(k.type, doc[s][k]).value
    /\ \A k \in Usable(s) \cap Visited(s) :
          Decode(k.type, doc[s][k]).outcome # "panic"

(* A document with a bad key is refused before the walk. *)
RefusedAtOnce == at = "document" \/ (at = "returned" /\ loadAnswer = "error")

Answered ==
    at = "returned" /\ loadAnswer # "panic" /\ ~AnyBadKey =>
        (loadAnswer = "ok" <=> \A s \in Sections : Broken(s) = {})

WalkInv ==
    /\ LoadTypes
    /\ AnyBadKey => RefusedAtOnce
    /\ ~AnyBadKey /\ loadAnswer # "panic" => \A s \in Sections : Seen(s)
    /\ Answered

----------------------------------------------------------------------------
(* Nothing is known of the sections before a walk, and nothing is needed.  *)
LEMMA WalkBegins == LoadInit => WalkInv
<1> SUFFICES ASSUME LoadInit PROVE WalkInv
  OBVIOUS
<1>1. /\ \A s \in Sections : Visited(s) = {}
      /\ \A s \in Sections : errs[s] = {} /\ DOMAIN loaded[s] = {}
  BY DEF LoadInit, Visited, Sections
<1>2. LoadTypes
  BY DEF LoadInit, LoadTypes, Sections
<1>3. \A s \in Sections : Seen(s)
  BY <1>1 DEF Seen
<1>4. RefusedAtOnce /\ Answered
  BY DEF LoadInit, RefusedAtOnce, Answered
<1> QED
  BY <1>2, <1>3, <1>4 DEF WalkInv

(* An entry is visited: what the other section and the other entries are   *)
(* known for stays.                                                        *)
LEMMA VisitsOne ==
  ASSUME WalkInv, NEW k \in todo, at \in Sections, loadAnswer = "none",
         UNCHANGED <<doc, at, loadAnswer>>, todo' = todo \ {k}
  PROVE  /\ Visited(at)' = Visited(at) \cup {k}
         /\ k \in Entries(at) /\ k \notin Visited(at)
         /\ \A s \in Sections \ {at} : Visited(s)' = Visited(s)
         /\ \A s \in Sections : Broken(s)' = Broken(s) /\ Usable(s)' = Usable(s)
         /\ ~AnyBadKey /\ ~AnyBadKey'
         /\ \A s \in Sections : Seen(s)
         /\ (AnyBadKey => RefusedAtOnce)' /\ Answered'
<1>1. LoadTypes /\ todo \subseteq Entries(at)
  BY DEF WalkInv, LoadTypes
<1>2. ~AnyBadKey /\ \A s \in Sections : Seen(s)
  BY DEF WalkInv, RefusedAtOnce, Sections
<1>3. ~AnyBadKey'
  BY <1>2 DEF AnyBadKey, Entries, KeyRefused
<1>4. Answered'
  BY DEF Answered, Sections
<1>5. \A s \in Sections : Broken(s)' = Broken(s) /\ Usable(s)' = Usable(s)
  BY DEF Broken, Usable, Entries
<1>6. /\ Visited(at)' = Visited(at) \cup {k}
      /\ k \in Entries(at) /\ k \notin Visited(at)
      /\ \A s \in Sections \ {at} : Visited(s)' = Visited(s)
  BY <1>1 DEF Visited, Sections, Entries
<1> QED
  BY <1>2, <1>3, <1>4, <1>5, <1>6

LEMMA WalkStep == WalkInv /\ [LoadNext]_loadVars => WalkInv'
<1> SUFFICES ASSUME WalkInv, [LoadNext]_loadVars PROVE WalkInv'
  OBVIOUS
<1>types. LoadTypes
  BY DEF WalkInv, LoadTypes
<1>same. ASSUME UNCHANGED doc
         PROVE  /\ AnyBadKey' <=> AnyBadKey
                /\ \A s : Entries(s)' = Entries(s)
                /\ \A s \in Sections : Broken(s)' = Broken(s) /\ Usable(s)' = Usable(s)
  BY <1>same DEF AnyBadKey, Entries, KeyRefused, Broken, Usable
<1>1. CASE UnmarshalDocument
  <2>1. /\ UNCHANGED <<doc, loaded, errs>> /\ at = "document" /\ loadAnswer = "none"
    BY <1>1, <1>types DEF UnmarshalDocument, LoadReturns, LoadTypes, Sections
  <2>2. AnyBadKey <=> \E s \in Sections : \E k \in DOMAIN doc[s] : KeyRefused(k)
    BY DEF AnyBadKey, Entries
  <2>3. CASE AnyBadKey
    <3>1. at' = "returned" /\ loadAnswer' = "error" /\ todo' = todo
      BY <1>1, <2>2, <2>3 DEF UnmarshalDocument, LoadReturns
    <3>2. LoadTypes'
      BY <1>types, <2>1, <3>1 DEF LoadTypes, Sections
    <3> QED
      BY <1>same, <2>1, <2>3, <3>1, <3>2 DEF WalkInv, RefusedAtOnce, Answered
  <2>4. CASE ~AnyBadKey
    <3>1. at' = "processors" /\ todo' = Entries("processors") /\ loadAnswer' = "none"
      BY <1>1, <2>1, <2>2, <2>4 DEF UnmarshalDocument, Entries
    <3>2. LoadTypes'
      BY <1>types, <2>1, <3>1 DEF LoadTypes, Sections, Entries
    <3>3. \A s \in Sections : Visited(s) = {} /\ Visited(s)' = {}
      BY <1>same, <2>1, <3>1 DEF Visited, Sections, Entries
    <3>4. \A s \in Sections : Seen(s)
      BY <2>1, <2>4 DEF WalkInv
    <3>5. \A s \in Sections : Seen(s)'
      BY <1>same, <2>1, <3>3, <3>4 DEF Seen
    <3> QED
      BY <1>same, <2>1, <2>4, <3>1, <3>2, <3>5 DEF WalkInv, Answered
  <2> QED
    BY <2>3, <2>4
<1>2. ASSUME NEW k \in todo, UnknownType(k) PROVE WalkInv'
  <2>1. /\ at \in Sections /\ loadAnswer = "none"
        /\ UNCHANGED <<doc, at, loadAnswer, loaded>> /\ todo' = todo \ {k}
        /\ k.type \notin Registered[at]
        /\ errs' = [errs EXCEPT ![at] = @ \cup {k}]
    BY <1>2, <1>types DEF UnknownType, LoadTypes, Sections
  <2>2. /\ Visited(at)' = Visited(at) \cup {k}
        /\ k \in Entries(at) /\ k \notin Visited(at)
        /\ \A s \in Sections \ {at} : Visited(s)' = Visited(s)
        /\ \A s \in Sections : Broken(s)' = Broken(s) /\ Usable(s)' = Usable(s)
        /\ \A s \in Sections : Seen(s)
        /\ (AnyBadKey => RefusedAtOnce)' /\ Answered'
    BY <2>1, VisitsOne
  <2>3. LoadTypes'
    BY <1>types, <2>1 DEF LoadTypes, Sections, Entries
  <2>4. k \in Broken(at) /\ k \notin Usable(at)
    BY <2>1, <2>2 DEF Broken, Usable, Entries
  <2>5. /\ errs'[at] = errs[at] \cup {k}
        /\ \A s \in Sections \ {at} : errs'[s] = errs[s]
    BY <1>types, <2>1 DEF LoadTypes
  <2>6. \A s \in Sections : Seen(s)'
    BY <2>1, <2>2, <2>4, <2>5 DEF Seen
  <2> QED
    BY <2>2, <2>3, <2>6 DEF WalkInv
<1>3. ASSUME NEW k \in todo, DecodeEntry(k) PROVE WalkInv'
  <2> DEFINE d == Decode(k.type, doc[at][k])
  <2>1. /\ at \in Sections /\ loadAnswer = "none"
        /\ UNCHANGED <<doc, at, loadAnswer>> /\ todo' = todo \ {k}
        /\ k.type \in Registered[at] /\ d.outcome # "panic"
        /\ errs' = [errs EXCEPT ![at] = IF d.outcome = "error" THEN @ \cup {k} ELSE @]
        /\ loaded' = [loaded EXCEPT ![at] =
               [j \in DOMAIN @ \cup {k} |-> IF j = k THEN d.value ELSE @[j]]]
    BY <1>3, <1>types DEF DecodeEntry, LoadTypes, Sections
  <2>2. /\ Visited(at)' = Visited(at) \cup {k}
        /\ k \in Entries(at) /\ k \notin Visited(at)
        /\ \A s \in Sections \ {at} : Visited(s)' = Visited(s)
        /\ \A s \in Sections : Broken(s)' = Broken(s) /\ Usable(s)' = Usable(s)
        /\ \A s \in Sections : Seen(s)
        /\ (AnyBadKey => RefusedAtOnce)' /\ Answered'
    BY <2>1, VisitsOne
  <2>3. LoadTypes'
    BY <1>types, <2>1 DEF LoadTypes, Sections, Entries
  <2>4. (k \in Broken(at) <=> d.outcome = "error") /\ k \in Usable(at)
    BY <2>1, <2>2 DEF Broken, Usable, Entries
  <2>5. /\ errs'[at] = IF d.outcome = "error" THEN errs[at] \cup {k} ELSE errs[at]
        /\ \A s \in Sections \ {at} : errs'[s] = errs[s] /\ loaded'[s] = loaded[s]
        /\ DOMAIN loaded'[at] = DOMAIN loaded[at] \cup {k}
        /\ loaded'[at][k] = d.value
        /\ \A j \in DOMAIN loaded[at] : j # k => loaded'[at][j] = loaded[at][j]
    BY <1>types, <2>1 DEF LoadTypes
  <2>6. ASSUME NEW s \in Sections, s # at PROVE Seen(s)'
    BY <2>1, <2>2, <2>5, <2>6 DEF Seen
  <2>7. Seen(at)'
    <3> HIDE DEF d
    <3>1. Seen(at)
      BY <2>1, <2>2
    <3>2. errs'[at] = Broken(at) \cap (Visited(at) \cup {k})
      BY <3>1, <2>4, <2>5 DEF Seen
    <3>3. DOMAIN loaded'[at] = Usable(at) \cap (Visited(at) \cup {k})
      BY <3>1, <2>4, <2>5 DEF Seen
    <3>4. ASSUME NEW j \in Usable(at) \cap (Visited(at) \cup {k})
          PROVE  /\ loaded'[at][j] = Decode(j.type, doc[at][j]).value
                 /\ Decode(j.type, doc[at][j]).outcome # "panic"
      <4>1. CASE j = k
        BY <4>1, <2>1, <2>5 DEF d
      <4>2. CASE j # k
        BY <4>2, <3>1, <3>4, <2>5 DEF Seen
      <4> QED
        BY <4>1, <4>2
    <3> QED
      BY <2>1, <2>2, <3>2, <3>3, <3>4 DEF Seen
  <2> QED
    BY <2>1, <2>2, <2>3, <2>6, <2>7 DEF WalkInv
<1>4. ASSUME NEW k \in todo, DecodePanics(k) PROVE WalkInv'
  <2>1. /\ at \in Sections /\ at' = "returned" /\ loadAnswer' = "panic"
        /\ loadAnswer = "none" /\ UNCHANGED <<doc, todo, loaded, errs>>
    BY <1>4, <1>types DEF DecodePanics, LoadReturns, LoadTypes, Sections
  <2>2. LoadTypes'
    BY <1>types, <2>1 DEF LoadTypes, Sections
  <2> QED
    BY <1>same, <2>1, <2>2 DEF WalkInv, RefusedAtOnce, Answered, Sections
<1>5. CASE NextSection
  <2>1. /\ at = "processors" /\ at' = "exporters" /\ todo = {}
        /\ todo' = Entries("exporters") /\ loadAnswer = "none"
        /\ UNCHANGED <<doc, loaded, errs, loadAnswer>>
    BY <1>5, <1>types DEF NextSection, LoadTypes, Entries, Sections
  <2>2. LoadTypes'
    BY <1>types, <2>1 DEF LoadTypes, Sections, Entries
  <2>3. \A s \in Sections : Visited(s)' = Visited(s)
    BY <1>same, <2>1 DEF Visited, Sections, Entries
  <2>4. \A s \in Sections : Seen(s) => Seen(s)'
    BY <1>same, <2>1, <2>3 DEF Seen
  <2> QED
    BY <1>same, <2>1, <2>2, <2>4 DEF WalkInv, RefusedAtOnce, Answered
<1>6. CASE JoinErrors
  <2>1. /\ at = "exporters" /\ todo = {} /\ at' = "returned" /\ loadAnswer = "none"
        /\ loadAnswer' = IF \A s \in Sections : errs[s] = {} THEN "ok" ELSE "error"
        /\ UNCHANGED <<doc, todo, loaded, errs>>
    BY <1>6, <1>types DEF JoinErrors, LoadReturns, LoadTypes, Sections
  <2>2. LoadTypes'
    BY <1>types, <2>1 DEF LoadTypes, Sections
  <2>3. ~AnyBadKey /\ \A s \in Sections : Seen(s)
    BY <2>1 DEF WalkInv, RefusedAtOnce
  <2>4. \A s \in Sections : Visited(s)' = Visited(s) /\ Visited(s) = Entries(s)
    BY <1>same, <2>1 DEF Visited, Sections, Entries
  <2>5. \A s \in Sections : Seen(s)'
    BY <1>same, <2>1, <2>3, <2>4 DEF Seen
  <2>6. \A s \in Sections : errs[s] = Broken(s)
    BY <2>3, <2>4 DEF Seen, Broken, Entries
  <2>7. Answered'
    BY <1>same, <2>1, <2>6 DEF Answered
  <2> QED
    BY <1>same, <2>1, <2>2, <2>3, <2>5, <2>7 DEF WalkInv
<1>7. CASE UNCHANGED loadVars
  BY <1>7 DEF loadVars, WalkInv, LoadTypes, RefusedAtOnce, Answered, Seen,
              AnyBadKey, Entries, Visited, Usable, Broken, KeyRefused
<1> QED
  BY <1>1, <1>2, <1>3, <1>4, <1>5, <1>6, <1>7 DEF LoadNext

(* The answer is about all entries of both sections.                       *)
LEMMA WalkReports == WalkInv => LoadReportsAll
<1> SUFFICES ASSUME WalkInv, at = "returned", loadAnswer # "panic"
             PROVE  LoadReportsAll
  BY DEF LoadReportsAll
<1>1. AnyBadKey <=> \E s \in Sections : \E k \in DOMAIN doc[s] : KeyRefused(k)
  BY DEF AnyBadKey, Entries
<1>2. CASE AnyBadKey
  BY <1>1, <1>2 DEF WalkInv, RefusedAtOnce, LoadReportsAll
<1>3. CASE ~AnyBadKey
  <2>1. \A s \in Sections : Visited(s) = Entries(s) /\ Seen(s)
    BY <1>3 DEF WalkInv, Visited
  <2>2. \A s \in Sections : errs[s] = Broken(s)
    BY <2>1 DEF Seen, Broken, Entries
  <2>3. loadAnswer = "ok" <=> \A s \in Sections : Broken(s) = {}
    BY <1>3 DEF WalkInv, Answered
  <2>4. \A s \in Sections : \A k \in DOMAIN doc[s] :
           k \in DOMAIN loaded[s] \/ k.type \notin Registered[s]
    BY <2>1 DEF Seen, Usable, Entries
  <2> QED
    BY <1>1, <1>3, <2>2, <2>3, <2>4 DEF LoadReportsAll
<1> QED
  BY <1>2, <1>3
=============================================================================
