------------------------- MODULE SharedWriterProofs -------------------------
(***************************************************************************)
(* Theorems about SharedWriter, for any clients, outputs and lists.        *)
(***************************************************************************)
EXTENDS SharedWriter, FiniteSetTheorems, FunctionTheorems, TLAPS

Holds(c, i) == <<c, i>> \in held
Length(c) == Len(PathsOf[c])

(* Where a client is in its list says which of its outputs it has: the     *)
(* first ones while it opens, all of them between calls, and what is left  *)
(* from its position on, without a gap, while it closes (io.go:80-95,      *)
(* 107-126).                                                               *)
Placed(c) ==
    /\ at[c] >= 1
    /\ pc[c] = "opening" => at[c] <= Length(c) + 1
    /\ \A i \in 1..Length(c) :
          /\ pc[c] = "idle" => ~Holds(c, i)
          /\ pc[c] = "opening" => (Holds(c, i) <=> i < at[c])
          /\ pc[c] \in {"holding", "writing"} => Holds(c, i)
          /\ pc[c] \in {"unwinding", "closing"} /\ Holds(c, i)
                => i >= at[c] /\ \A j \in at[c]..i : Holds(c, j)

(* A shared writer is open when somebody is counted (io.go:30-39, 63-66).  *)
CountInv ==
    /\ IsFiniteSet(held)
    /\ CountIsHolders
    /\ \A p \in Shared : open[p] <=> n[p] > 0

PlaceInv == \A c \in Clients : Placed(c)
WriterInv == TypeOK /\ PlaceInv /\ CountInv

StepOf(c) ==
    \/ OpenAll(c) \/ Open(c) \/ OpenFails(c) \/ OpenAllDone(c)
    \/ MultiWrite(c) \/ Write(c) \/ MultiWriteDone(c)
    \/ MultiClose(c) \/ Close(c) \/ MultiCloseDone(c)

(* A handle is a client and a place in its list. *)
LEMMA HandleForm ==
    /\ \A h : h \in Handles <=>
          \E c \in Clients : \E i \in 1..Length(c) : h = <<c, i>>
    /\ \A c \in Clients : Length(c) \in Nat
    /\ \A c \in Clients : \A i \in 1..Length(c) :
          /\ <<c, i>> \in Handles
          /\ PathOf(<<c, i>>) \in Paths
<1>1. \A c \in Clients : PathsOf[c] \in Seq(Paths)
  BY WriterAssumption
<1>2. \A c \in Clients : Length(c) \in Nat
  BY <1>1 DEF Length
<1>3. \A h : h \in Handles <=>
         \E c \in Clients : \E i \in 1..Length(c) : h = <<c, i>>
  BY DEF Handles, Length
<1>4. \A c \in Clients : \A i \in 1..Length(c) : PathsOf[c][i] \in Paths
  BY <1>1 DEF Length
<1>. QED  BY <1>2, <1>3, <1>4 DEF PathOf

(* A step of c moves c in its list; of the handles it adds or removes at   *)
(* most the one that c is at, which is counted (io.go:30-39, 52-68).       *)
Opens(c) ==
    /\ pc[c] = "opening" /\ InList(c)
    /\ held' = held \cup {Current(c)}
    /\ at' = [at EXCEPT ![c] = @ + 1] /\ pc' = pc
    /\ IF PathOf(Current(c)) \in Shared THEN SharedOpens(PathOf(Current(c)))
                                       ELSE UNCHANGED <<n, open>>

Closes(c) ==
    /\ pc[c] \in {"unwinding", "closing"}
    /\ Current(c) \in held
    /\ held' = held \ {Current(c)}
    /\ at' = [at EXCEPT ![c] = @ + 1] /\ pc' = pc
    /\ IF PathOf(Current(c)) \in Shared THEN SharedCloses(PathOf(Current(c)))
                                       ELSE UNCHANGED <<n, open>>

Writes(c) ==
    /\ pc[c] = "writing" /\ InList(c)
    /\ at' = [at EXCEPT ![c] = @ + 1]
    /\ UNCHANGED <<n, open, held, pc>>

Enters(c, to) ==
    /\ pc' = [pc EXCEPT ![c] = to] /\ at' = [at EXCEPT ![c] = 1]
    /\ UNCHANGED <<n, open, held>>

LEMMA StepForm ==
    ASSUME NEW c \in Clients, StepOf(c)
    PROVE  \/ Opens(c)
           \/ Closes(c)
           \/ Writes(c)
           \/ pc[c] = "idle" /\ Enters(c, "opening")
           \/ pc[c] = "opening" /\ Enters(c, "unwinding")
           \/ pc[c] = "opening" /\ ~InList(c) /\ Enters(c, "holding")
           \/ pc[c] = "holding" /\ Enters(c, "writing")
           \/ pc[c] = "writing" /\ Enters(c, "holding")
           \/ pc[c] = "holding" /\ Enters(c, "closing")
           \/ /\ pc[c] \in {"unwinding", "closing"} /\ Current(c) \notin held
              /\ Enters(c, "idle")
<1>1. CASE Open(c)
  BY <1>1 DEF Open, Opens
<1>2. CASE Close(c)
  BY <1>2 DEF Close, Closes
<1>3. CASE Write(c)
  BY <1>3 DEF Write, Writes
<1>4. CASE OpenFails(c)
  BY <1>4 DEF OpenFails, SharedOpenFails, Enters
<1>5. CASE OpenAll(c) \/ OpenAllDone(c)
  BY <1>5 DEF OpenAll, OpenAllDone, Enter, Enters
<1>6. CASE MultiWrite(c) \/ MultiWriteDone(c) \/ MultiClose(c)
  BY <1>6 DEF MultiWrite, MultiWriteDone, MultiClose, Enter, Enters
<1>7. CASE MultiCloseDone(c)
  BY <1>7 DEF MultiCloseDone, Enter, Enters
<1>. QED  BY <1>1, <1>2, <1>3, <1>4, <1>5, <1>6, <1>7 DEF StepOf

LEMMA NextForm ==
    ASSUME [Next]_vars
    PROVE  (\E c \in Clients : StepOf(c)) \/ UNCHANGED vars
BY DEF Next, StepOf

(* Who is at a place of its list while it opens or closes is at a handle   *)
(* it does not have yet, or has.                                           *)
LEMMA AtHandle ==
    ASSUME WriterInv, NEW c \in Clients
    PROVE  /\ Opens(c) => /\ at[c] \in 1..Length(c) /\ Current(c) \in Handles
                          /\ Current(c) \notin held
           /\ Closes(c) => /\ at[c] \in 1..Length(c) /\ Current(c) \in Handles
                           /\ Current(c) \in held
<1>1. at[c] \in Nat /\ at[c] >= 1 /\ Length(c) \in Nat
  BY HandleForm DEF WriterInv, TypeOK, PlaceInv, Placed
<1>2. ASSUME Opens(c)
      PROVE  /\ at[c] \in 1..Length(c) /\ Current(c) \in Handles
             /\ Current(c) \notin held
  <2>1. at[c] \in 1..Length(c)
    BY <1>1, <1>2 DEF Opens, InList, Length
  <2>2. ~Holds(c, at[c])
    BY <1>1, <1>2, <2>1 DEF Opens, WriterInv, PlaceInv, Placed
  <2>. QED  BY <2>1, <2>2, HandleForm DEF Current, Holds
<1>3. ASSUME Closes(c)
      PROVE  /\ at[c] \in 1..Length(c) /\ Current(c) \in Handles
             /\ Current(c) \in held
  <2>1. Current(c) \in held /\ Current(c) \in Handles
    BY <1>3 DEF Closes, WriterInv, TypeOK
  <2>2. PICK d \in Clients : \E i \in 1..Length(d) : Current(c) = <<d, i>>
    BY <2>1, HandleForm
  <2>. QED  BY <2>1, <2>2 DEF Current
<1>. QED  BY <1>2, <1>3

----------------------------------------------------------------------------
(* The places. *)

(* A client that does nothing keeps its place and its handles. *)
LEMMA PlacedOther ==
    ASSUME NEW d \in Clients, Placed(d),
           pc'[d] = pc[d], at'[d] = at[d],
           \A i : Holds(d, i)' <=> Holds(d, i)
    PROVE  Placed(d)'
BY DEF Placed

LEMMA PlaceStep ==
    ASSUME WriterInv, NEW c \in Clients, StepOf(c)
    PROVE  PlaceInv'
<1>1. /\ pc \in [Clients -> {"idle", "opening", "unwinding", "holding",
                             "writing", "closing"}]
      /\ at \in [Clients -> Nat]
      /\ Length(c) \in Nat
      /\ Placed(c)
  BY HandleForm DEF WriterInv, TypeOK, PlaceInv
<1>2. ASSUME NEW d \in Clients, d # c PROVE Placed(d)'
  <2>1. pc'[d] = pc[d] /\ at'[d] = at[d]
    BY <1>1, <1>2, StepForm DEF Opens, Closes, Writes, Enters
  <2>2. \A i : Holds(d, i)' <=> Holds(d, i)
    <3>1. held' \in {held, held \cup {Current(c)}, held \ {Current(c)}}
      BY StepForm DEF Opens, Closes, Writes, Enters
    <3>2. \A i : <<d, i>> # Current(c)
      BY <1>2 DEF Current
    <3>. QED  BY <3>1, <3>2 DEF Holds
  <2>. QED  BY <2>1, <2>2, PlacedOther DEF WriterInv, PlaceInv
<1>3. Placed(c)'
  <2>1. CASE Opens(c)
    <3>1. /\ pc[c] = "opening" /\ pc'[c] = "opening" /\ at[c] <= Length(c)
          /\ at[c] \in Nat /\ at'[c] = at[c] + 1
      BY <1>1, <2>1 DEF Opens, InList, Length
    <3>2. \A i : Holds(c, i)' <=> Holds(c, i) \/ i = at[c]
      BY <2>1 DEF Opens, Holds, Current
    <3>. QED  BY <1>1, <3>1, <3>2 DEF Placed
  <2>2. CASE Closes(c)
    <3>1. /\ pc'[c] = pc[c] /\ pc[c] \in {"unwinding", "closing"}
          /\ at[c] \in Nat /\ at'[c] = at[c] + 1
      BY <1>1, <2>2 DEF Closes
    <3>2. \A i : Holds(c, i)' <=> Holds(c, i) /\ i # at[c]
      BY <2>2 DEF Closes, Holds, Current
    <3>. QED  BY <1>1, <3>1, <3>2 DEF Placed
  <2>3. CASE Writes(c)
    <3>1. /\ pc'[c] = "writing" /\ pc[c] = "writing"
          /\ at[c] \in Nat /\ at'[c] = at[c] + 1
      BY <1>1, <2>3 DEF Writes
    <3>2. \A i : Holds(c, i)' <=> Holds(c, i)
      BY <2>3 DEF Writes, Holds
    <3>. QED  BY <1>1, <3>1, <3>2 DEF Placed
  <2>4. ASSUME NEW to \in {"opening", "unwinding", "holding", "writing",
                           "closing", "idle"}, Enters(c, to),
               to = "opening" => pc[c] = "idle",
               to = "unwinding" => pc[c] = "opening",
               to = "holding" => \/ pc[c] = "opening" /\ ~InList(c)
                                 \/ pc[c] = "writing",
               to \in {"writing", "closing"} => pc[c] = "holding",
               to = "idle" => /\ pc[c] \in {"unwinding", "closing"}
                              /\ Current(c) \notin held
        PROVE  Placed(c)'
    <3>1. pc'[c] = to /\ at'[c] = 1
      BY <1>1, <2>4 DEF Enters
    <3>2. \A i : Holds(c, i)' <=> Holds(c, i)
      BY <2>4 DEF Enters, Holds
    <3>3. CASE to = "opening"
      BY <1>1, <2>4, <3>1, <3>2, <3>3 DEF Placed
    <3>4. CASE to = "unwinding"
      BY <1>1, <2>4, <3>1, <3>2, <3>4 DEF Placed
    <3>5. CASE to = "holding" /\ pc[c] = "writing"
      BY <1>1, <2>4, <3>1, <3>2, <3>5 DEF Placed
    <3>6. CASE to = "holding" /\ pc[c] = "opening"
      <4>1. at[c] \in Nat /\ ~(at[c] <= Length(c))
        BY <1>1, <2>4, <3>6 DEF InList, Length
      <4>2. \A i \in 1..Length(c) : Holds(c, i)
        BY <1>1, <3>6, <4>1 DEF Placed
      <4>. QED  BY <3>1, <3>2, <3>6, <4>2 DEF Placed
    <3>7. CASE to \in {"writing", "closing"}
      <4>1. \A i \in 1..Length(c) : Holds(c, i)
        BY <1>1, <2>4, <3>7 DEF Placed
      <4>. QED  BY <1>1, <3>1, <3>2, <3>7, <4>1 DEF Placed
    <3>8. CASE to = "idle"
      <4>1. pc[c] \in {"unwinding", "closing"} /\ ~Holds(c, at[c])
            /\ at[c] \in Nat
        BY <1>1, <2>4, <3>8 DEF Current, Holds
      <4>2. \A i \in 1..Length(c) : ~Holds(c, i)
        <5> SUFFICES ASSUME NEW i \in 1..Length(c), Holds(c, i) PROVE FALSE
          OBVIOUS
        <5>1. i >= at[c] /\ \A j \in at[c]..i : Holds(c, j)
          BY <1>1, <4>1 DEF Placed
        <5>2. at[c] \in at[c]..i
          BY <4>1, <5>1
        <5>. QED  BY <4>1, <5>1, <5>2
      <4>. QED  BY <3>1, <3>2, <3>8, <4>2 DEF Placed
    <3>. QED  BY <2>4, <3>3, <3>4, <3>5, <3>6, <3>7, <3>8
  <2>. QED  BY <2>1, <2>2, <2>3, <2>4, StepForm
<1>. QED  BY <1>2, <1>3 DEF PlaceInv

----------------------------------------------------------------------------
(* The counts. *)

LEMMA HoldersOpened ==
    ASSUME NEW h, held' = held \cup {h}, NEW p
    PROVE  HoldersOf(p)' = IF PathOf(h) = p THEN HoldersOf(p) \cup {h}
                                          ELSE HoldersOf(p)
BY DEF HoldersOf, PathOf

LEMMA HoldersClosed ==
    ASSUME NEW h, held' = held \ {h}, NEW p
    PROVE  HoldersOf(p)' = IF PathOf(h) = p THEN HoldersOf(p) \ {h}
                                          ELSE HoldersOf(p)
BY DEF HoldersOf, PathOf

LEMMA HoldersFinite ==
    ASSUME CountInv, NEW p
    PROVE  /\ IsFiniteSet(HoldersOf(p)) /\ Cardinality(HoldersOf(p)) \in Nat
           /\ \A h \in HoldersOf(p) : Cardinality(HoldersOf(p)) >= 1
<1>1. HoldersOf(p) \in SUBSET held /\ IsFiniteSet(held)
  BY DEF HoldersOf, CountInv
<1>2. IsFiniteSet(HoldersOf(p))
  BY <1>1, FS_Subset
<1>3. Cardinality(HoldersOf(p)) \in Nat
  BY <1>2, FS_CardinalityType
<1>4. HoldersOf(p) # {} => Cardinality(HoldersOf(p)) # 0
  BY <1>2, FS_EmptySet
<1>. QED  BY <1>2, <1>3, <1>4

(* The shared writer that is opened or closed is open when somebody is     *)
(* counted, and the others are left alone (io.go:30-39, 63-66).            *)
LEMMA SharedOpened ==
    ASSUME n \in [Shared -> Nat], open \in [Shared -> BOOLEAN],
           \A p \in Shared : open[p] <=> n[p] > 0,
           NEW q, IF q \in Shared THEN SharedOpens(q) ELSE UNCHANGED <<n, open>>
    PROVE  /\ n' \in [Shared -> Nat] /\ open' \in [Shared -> BOOLEAN]
           /\ \A p \in Shared : n'[p] = IF p = q THEN n[p] + 1 ELSE n[p]
           /\ \A p \in Shared : open'[p] <=> n'[p] > 0
<1>1. CASE q \in Shared
  <2>1. n' = [n EXCEPT ![q] = n[q] + 1]
    BY <1>1 DEF SharedOpens
  <2>2. n' \in [Shared -> Nat]
    BY <1>1, <2>1
  <2>3. \A p \in Shared : n'[p] = IF p = q THEN n[p] + 1 ELSE n[p]
    BY <2>1
  <2>4. open' = [open EXCEPT ![q] = TRUE]
    <3>1. CASE n[q] + 1 > 1
      <4>1. open' = open /\ open[q] = TRUE
        BY <1>1, <3>1 DEF SharedOpens
      <4>. QED  BY <4>1
    <3>2. CASE ~(n[q] + 1 > 1)
      BY <1>1, <3>2 DEF SharedOpens
    <3>. QED  BY <3>1, <3>2
  <2>5. open' \in [Shared -> BOOLEAN]
    BY <2>4
  <2>6. \A p \in Shared : p # q => open'[p] = open[p] /\ n'[p] = n[p]
    BY <2>3, <2>4
  <2>7. open'[q] /\ n'[q] > 0
    BY <1>1, <2>3, <2>4
  <2>. QED  BY <2>2, <2>3, <2>5, <2>6, <2>7
<1>2. CASE q \notin Shared
  BY <1>2
<1>. QED  BY <1>1, <1>2

LEMMA SharedClosed ==
    ASSUME n \in [Shared -> Nat], open \in [Shared -> BOOLEAN],
           \A p \in Shared : open[p] <=> n[p] > 0,
           NEW q, IF q \in Shared THEN SharedCloses(q) ELSE UNCHANGED <<n, open>>,
           q \in Shared => n[q] >= 1
    PROVE  /\ n' \in [Shared -> Nat] /\ open' \in [Shared -> BOOLEAN]
           /\ \A p \in Shared : n'[p] = IF p = q THEN n[p] - 1 ELSE n[p]
           /\ \A p \in Shared : open'[p] <=> n'[p] > 0
<1>1. CASE q \in Shared
  <2>1. n' = [n EXCEPT ![q] = n[q] - 1]
    BY <1>1 DEF SharedCloses
  <2>2. n' \in [Shared -> Nat]
    BY <1>1, <2>1
  <2>3. \A p \in Shared : n'[p] = IF p = q THEN n[p] - 1 ELSE n[p]
    BY <2>1
  <2>4. /\ open' \in [Shared -> BOOLEAN]
        /\ \A p \in Shared : p # q => open'[p] = open[p]
        /\ open'[q] <=> n[q] - 1 # 0
    <3>1. CASE n[q] - 1 = 0
      <4>1. open' = [open EXCEPT ![q] = FALSE]
        BY <1>1, <3>1 DEF SharedCloses
      <4>. QED  BY <1>1, <3>1, <4>1
    <3>2. CASE n[q] - 1 # 0
      <4>1. open' = open
        BY <1>1, <3>2 DEF SharedCloses
      <4>2. open[q]
        BY <1>1
      <4>. QED  BY <3>2, <4>1, <4>2
    <3>. QED  BY <3>1, <3>2
  <2>5. \A p \in Shared : p # q => open'[p] = open[p] /\ n'[p] = n[p]
    BY <2>3, <2>4
  <2>6. open'[q] <=> n'[q] > 0
    BY <1>1, <2>3, <2>4
  <2>. QED  BY <2>2, <2>3, <2>4, <2>5, <2>6
<1>2. CASE q \notin Shared
  BY <1>2
<1>. QED  BY <1>1, <1>2

(* The handle that is opened is counted once more, the one that is closed  *)
(* once less (io.go:30-39, 63-66).                                         *)
LEMMA CountStep ==
    ASSUME WriterInv, NEW c \in Clients, StepOf(c)
    PROVE  CountInv' /\ n' \in [Shared -> Nat] /\ open' \in [Shared -> BOOLEAN]
<1> DEFINE h == Current(c)
           q == PathOf(h)
<1>1. /\ n \in [Shared -> Nat] /\ open \in [Shared -> BOOLEAN]
      /\ IsFiniteSet(held)
      /\ \A p \in Shared : n[p] = Cardinality(HoldersOf(p))
      /\ \A p \in Shared : open[p] <=> n[p] > 0
      /\ CountInv
  BY DEF WriterInv, TypeOK, CountInv, CountIsHolders
<1>2. CASE Opens(c)
  <2>1. h \notin held /\ held' = held \cup {h}
    BY <1>2, AtHandle DEF Opens
  <2>2. IsFiniteSet(held')
    BY <1>1, <2>1, FS_AddElement
  <2>3. /\ n' \in [Shared -> Nat] /\ open' \in [Shared -> BOOLEAN]
        /\ \A p \in Shared : n'[p] = IF p = q THEN n[p] + 1 ELSE n[p]
        /\ \A p \in Shared : open'[p] <=> n'[p] > 0
    BY <1>1, <1>2, SharedOpened DEF Opens
  <2>4. ASSUME NEW p \in Shared PROVE n'[p] = Cardinality(HoldersOf(p)')
    <3>1. HoldersOf(p)' = IF q = p THEN HoldersOf(p) \cup {h} ELSE HoldersOf(p)
      BY <2>1, HoldersOpened
    <3>2. h \notin HoldersOf(p) /\ IsFiniteSet(HoldersOf(p))
      BY <1>1, <2>1, HoldersFinite DEF HoldersOf
    <3>3. Cardinality(HoldersOf(p) \cup {h}) = Cardinality(HoldersOf(p)) + 1
      BY <3>2, FS_AddElement
    <3>. QED  BY <1>1, <2>3, <3>1, <3>3
  <2>. QED  BY <2>2, <2>3, <2>4 DEF CountInv, CountIsHolders
<1>3. CASE Closes(c)
  <2>1. h \in held /\ held' = held \ {h}
    BY <1>3 DEF Closes
  <2>2. IsFiniteSet(held')
    BY <1>1, <2>1, FS_RemoveElement
  <2>3. \A p \in Shared : p = q => n[p] >= 1
    <3>1. \A p : p = q => h \in HoldersOf(p)
      BY <2>1 DEF HoldersOf
    <3>. QED  BY <1>1, <3>1, HoldersFinite
  <2>4. /\ n' \in [Shared -> Nat] /\ open' \in [Shared -> BOOLEAN]
        /\ \A p \in Shared : n'[p] = IF p = q THEN n[p] - 1 ELSE n[p]
        /\ \A p \in Shared : open'[p] <=> n'[p] > 0
    BY <1>1, <1>3, <2>3, SharedClosed DEF Closes
  <2>5. ASSUME NEW p \in Shared PROVE n'[p] = Cardinality(HoldersOf(p)')
    <3>1. HoldersOf(p)' = IF q = p THEN HoldersOf(p) \ {h} ELSE HoldersOf(p)
      BY <2>1, HoldersClosed
    <3>2. IsFiniteSet(HoldersOf(p)) /\ (q = p => h \in HoldersOf(p))
      BY <1>1, <2>1, HoldersFinite DEF HoldersOf
    <3>3. q = p => Cardinality(HoldersOf(p) \ {h}) = Cardinality(HoldersOf(p)) - 1
      BY <3>2, FS_RemoveElement
    <3>. QED  BY <1>1, <2>4, <3>1, <3>3
  <2>. QED  BY <2>2, <2>4, <2>5 DEF CountInv, CountIsHolders
<1>4. CASE UNCHANGED <<n, open, held>>
  BY <1>1, <1>4 DEF CountInv, CountIsHolders, HoldersOf
<1>. QED  BY <1>2, <1>3, <1>4, StepForm DEF Writes, Enters

LEMMA WriterStep ==
    ASSUME WriterInv, [Next]_vars
    PROVE  WriterInv'
<1>1. ASSUME NEW c \in Clients, StepOf(c) PROVE WriterInv'
  <2>1. held' \subseteq Handles
    BY <1>1, StepForm, AtHandle
       DEF WriterInv, TypeOK, Opens, Closes, Writes, Enters
  <2>2. pc' \in [Clients -> {"idle", "opening", "unwinding", "holding",
                             "writing", "closing"}]
        /\ at' \in [Clients -> Nat]
    BY <1>1, StepForm DEF WriterInv, TypeOK, Opens, Closes, Writes, Enters
  <2>3. TypeOK'
    BY <1>1, <2>1, <2>2, CountStep DEF TypeOK
  <2>. QED  BY <1>1, <2>3, PlaceStep, CountStep DEF WriterInv
<1>2. CASE UNCHANGED vars
  BY <1>2 DEF vars, WriterInv, TypeOK, PlaceInv, Placed, Holds, CountInv,
              CountIsHolders, HoldersOf
<1>. QED  BY <1>1, <1>2, NextForm

LEMMA WriterInit == Init => WriterInv
<1> SUFFICES ASSUME Init PROVE WriterInv
  OBVIOUS
<1>1. TypeOK /\ PlaceInv
  BY DEF Init, TypeOK, PlaceInv, Placed, Holds
<1>2. CountInv
  <2>1. \A p \in Shared : HoldersOf(p) = {}
    BY DEF Init, HoldersOf
  <2>. QED  BY <2>1, FS_EmptySet DEF Init, CountInv, CountIsHolders
<1>. QED  BY <1>1, <1>2 DEF WriterInv

LEMMA Writer == Spec => []WriterInv
BY WriterInit, WriterStep, PTL DEF Spec

----------------------------------------------------------------------------
(* A count never goes below zero, and what is held is in a client's list   *)
(* (io.go:30-39, 63-66).                                                   *)
THEOREM Typing == Spec => []TypeOK
<1>1. WriterInv => TypeOK
  BY DEF WriterInv
<1>. QED  BY <1>1, Writer, PTL

(* The count of a shared writer is the number of handles to it, through    *)
(* every failed OpenAll and every interleaving (io.go:30-39, 63-66).       *)
THEOREM Counts == Spec => []CountIsHolders
<1>1. WriterInv => CountIsHolders
  BY DEF WriterInv, CountInv
<1>. QED  BY <1>1, Writer, PTL

(* A client writes only to outputs that are open (io.go:52-68, 107-116):   *)
(* it holds the output it writes to, so it is counted there.               *)
THEOREM OpenWhenWritten == Spec => []WritesAreOpen
<1>1. WriterInv => WritesAreOpen
  <2> SUFFICES ASSUME WriterInv, NEW c \in Clients, pc[c] = "writing", InList(c),
                      PathOf(Current(c)) \in Shared
               PROVE  open[PathOf(Current(c))]
    BY DEF WritesAreOpen
  <2>1. at[c] \in 1..Length(c)
    BY HandleForm DEF WriterInv, TypeOK, PlaceInv, Placed, InList, Length
  <2>2. Current(c) \in held
    BY <2>1 DEF WriterInv, PlaceInv, Placed, Holds, Current
  <2>3. Current(c) \in HoldersOf(PathOf(Current(c)))
    BY <2>2 DEF HoldersOf
  <2>4. n[PathOf(Current(c))] >= 1
    BY <2>3, HoldersFinite DEF WriterInv, CountInv, CountIsHolders
  <2>5. n[PathOf(Current(c))] \in Nat
    BY DEF WriterInv, TypeOK
  <2>6. \A p \in Shared : open[p] <=> n[p] > 0
    BY DEF WriterInv, CountInv
  <2>. QED  BY <2>4, <2>5, <2>6
<1>. QED  BY <1>1, Writer, PTL

(* A client that has opened its whole list holds as many handles as the    *)
(* list is long, however often a path is in it.                            *)
LEMMA WholeList ==
    ASSUME NEW c \in Clients
    PROVE  Cardinality({<<c, i>> : i \in 1..Length(c)}) = Length(c)
<1> DEFINE S == {<<c, i>> : i \in 1..Length(c)}
           f == [i \in 1..Length(c) |-> <<c, i>>]
<1>1. f \in [1..Length(c) -> S]
  OBVIOUS
<1>2. \A i, j \in 1..Length(c) : f[i] = f[j] => i = j
  OBVIOUS
<1>3. \A h \in S : \E i \in 1..Length(c) : f[i] = h
  OBVIOUS
<1>4. f \in Bijection(1..Length(c), S)
  <2> HIDE DEF S, f
  <2>. QED  BY <1>1, <1>2, <1>3, Fun_IsBij
<1>5. ExistsBijection(1..Length(c), S)
  BY <1>4 DEF ExistsBijection
<1>6. Length(c) \in Nat
  BY HandleForm
<1>. QED  BY <1>5, <1>6, FS_CountingElements

(* A client between calls holds all of its outputs or none: a failed       *)
(* OpenAll and a Close that met errors leave none behind (io.go:86-92,     *)
(* 122-126), since both stop only where nothing is left to close.          *)
THEOREM AllAreHeldOrNone == Spec => []AllOrNothing
<1>1. WriterInv => AllOrNothing
  <2> SUFFICES ASSUME WriterInv, NEW c \in Clients
               PROVE  LET mine == {h \in held : h[1] = c} IN
                      /\ pc[c] = "idle" => mine = {}
                      /\ pc[c] = "holding" => Cardinality(mine) = Len(PathsOf[c])
    BY DEF AllOrNothing
  <2> DEFINE mine == {h \in held : h[1] = c}
  <2>1. \A h \in mine : \E i \in 1..Length(c) : h = <<c, i>>
    <3> SUFFICES ASSUME NEW h \in mine PROVE \E i \in 1..Length(c) : h = <<c, i>>
      OBVIOUS
    <3>1. PICK d \in Clients : \E i \in 1..Length(d) : h = <<d, i>>
      BY HandleForm DEF WriterInv, TypeOK
    <3>2. d = c
      BY <3>1
    <3>. QED  BY <3>1, <3>2
  <2>2. Placed(c)
    BY DEF WriterInv, PlaceInv
  <2>3. ASSUME pc[c] = "idle" PROVE mine = {}
    BY <2>1, <2>2, <2>3 DEF Placed, Holds
  <2>4. ASSUME pc[c] = "holding" PROVE Cardinality(mine) = Length(c)
    <3>1. \A i \in 1..Length(c) : <<c, i>> \in mine
      BY <2>2, <2>4 DEF Placed, Holds
    <3>2. mine = {<<c, i>> : i \in 1..Length(c)}
      BY <2>1, <3>1
    <3>. QED  BY <3>2, WholeList
  <2>. QED  BY <2>3, <2>4 DEF Length
<1>. QED  BY <1>1, Writer, PTL

----------------------------------------------------------------------------
(* The abstract specification. *)

LEMMA AbstractOpen ==
    ASSUME WriterInv, NEW c \in Clients, Opens(c),
           NEW p \in Shared, PathOf(Current(c)) = p
    PROVE  Abstract(p)!Acquire(Current(c)) /\ Current(c) \in Handles
<1>1. /\ Current(c) \notin held /\ Current(c) \in Handles
      /\ held' = held \cup {Current(c)}
  BY AtHandle DEF Opens
<1>2. HoldersOf(p)' = HoldersOf(p) \cup {Current(c)}
  BY <1>1, HoldersOpened
<1>3. Current(c) \notin HoldersOf(p)
  BY <1>1 DEF HoldersOf
<1>4. open'[p] = TRUE
  <2>1. SharedOpens(p)
    BY DEF Opens
  <2>2. /\ n \in [Shared -> Nat] /\ open \in [Shared -> BOOLEAN]
        /\ open[p] <=> n[p] > 0
    BY DEF WriterInv, TypeOK, CountInv
  <2>3. CASE n[p] + 1 > 1
    <3>1. open' = open
      BY <2>1, <2>3 DEF SharedOpens
    <3>. QED  BY <2>2, <2>3, <3>1
  <2>4. CASE ~(n[p] + 1 > 1)
    <3>1. open' = [open EXCEPT ![p] = TRUE]
      BY <2>1, <2>4 DEF SharedOpens
    <3>. QED  BY <2>2, <3>1
  <2>. QED  BY <2>3, <2>4
<1>. QED  BY <1>1, <1>2, <1>3, <1>4 DEF Abstract!Acquire

LEMMA AbstractClose ==
    ASSUME WriterInv, NEW c \in Clients, Closes(c),
           NEW p \in Shared, PathOf(Current(c)) = p
    PROVE  Abstract(p)!Release(Current(c)) /\ Current(c) \in Handles
<1>1. /\ Current(c) \in held /\ Current(c) \in Handles
      /\ held' = held \ {Current(c)}
  BY AtHandle DEF Closes
<1>2. HoldersOf(p)' = HoldersOf(p) \ {Current(c)}
  BY <1>1, HoldersClosed
<1>3. Current(c) \in HoldersOf(p)
  BY <1>1 DEF HoldersOf
<1>4. HoldersOf(p) = {Current(c)} <=> n[p] = 1
  <2>1. IsFiniteSet(HoldersOf(p)) /\ n[p] = Cardinality(HoldersOf(p))
    BY HoldersFinite DEF WriterInv, CountInv, CountIsHolders
  <2>. QED  BY <1>3, <2>1, FS_Singleton
<1>5. open'[p] = (HoldersOf(p) # {Current(c)})
  <2>1. SharedCloses(p)
    BY DEF Closes
  <2>2. /\ n \in [Shared -> Nat] /\ open \in [Shared -> BOOLEAN]
        /\ open[p] <=> n[p] > 0
    BY DEF WriterInv, TypeOK, CountInv
  <2>3. n[p] >= 1
    BY <1>3, HoldersFinite DEF WriterInv, CountInv, CountIsHolders
  <2>4. CASE n[p] - 1 = 0
    <3>1. open' = [open EXCEPT ![p] = FALSE]
      BY <2>1, <2>4 DEF SharedCloses
    <3>2. n[p] = 1
      BY <2>2, <2>4
    <3>. QED  BY <1>4, <2>2, <3>1, <3>2
  <2>5. CASE n[p] - 1 # 0
    <3>1. open' = open
      BY <2>1, <2>5 DEF SharedCloses
    <3>2. n[p] # 1 /\ open[p] = TRUE
      BY <2>2, <2>3, <2>5
    <3>. QED  BY <1>4, <3>1, <3>2
  <2>. QED  BY <2>4, <2>5
<1>. QED  BY <1>1, <1>2, <1>3, <1>5 DEF Abstract!Release

LEMMA AbstractStep ==
    ASSUME WriterInv, [Next]_vars, NEW p \in Shared
    PROVE  [Abstract(p)!Next]_(Abstract(p)!vars)
<1>1. ASSUME NEW c \in Clients, StepOf(c)
      PROVE  \/ Opens(c) /\ PathOf(Current(c)) = p
             \/ Closes(c) /\ PathOf(Current(c)) = p
             \/ HoldersOf(p)' = HoldersOf(p) /\ open'[p] = open[p]
  <2>1. open \in [Shared -> BOOLEAN]
    BY DEF WriterInv, TypeOK
  <2>2. CASE Opens(c) /\ PathOf(Current(c)) # p
    <3>1. HoldersOf(p)' = HoldersOf(p)
      BY <2>2, HoldersOpened DEF Opens
    <3>2. open'[p] = open[p]
      BY <2>1, <2>2 DEF Opens, SharedOpens
    <3>. QED  BY <3>1, <3>2
  <2>3. CASE Closes(c) /\ PathOf(Current(c)) # p
    <3>1. HoldersOf(p)' = HoldersOf(p)
      BY <2>3, HoldersClosed DEF Closes
    <3>2. open'[p] = open[p]
      BY <2>1, <2>3 DEF Closes, SharedCloses
    <3>. QED  BY <3>1, <3>2
  <2>4. CASE UNCHANGED <<held, open>>
    BY <2>4 DEF HoldersOf
  <2>. QED  BY <1>1, <2>2, <2>3, <2>4, StepForm DEF Writes, Enters
<1>2. ASSUME HoldersOf(p)' = HoldersOf(p), open'[p] = open[p]
      PROVE  UNCHANGED Abstract(p)!vars
  BY <1>2 DEF Abstract!vars
<1>3. CASE UNCHANGED vars
  BY <1>2, <1>3 DEF vars, HoldersOf
<1>4. ASSUME NEW c \in Clients, StepOf(c)
      PROVE  [Abstract(p)!Next]_(Abstract(p)!vars)
  <2>1. CASE Opens(c) /\ PathOf(Current(c)) = p
    BY <2>1, AbstractOpen DEF Abstract!Next
  <2>2. CASE Closes(c) /\ PathOf(Current(c)) = p
    BY <2>2, AbstractClose DEF Abstract!Next
  <2>3. CASE HoldersOf(p)' = HoldersOf(p) /\ open'[p] = open[p]
    BY <1>2, <2>3
  <2>. QED  BY <1>1, <1>4, <2>1, <2>2, <2>3
<1>. QED  BY <1>3, <1>4, NextForm

(* Every shared writer is the reference-counted output of RefCounted: the  *)
(* first holder opens it, the last one closes it, in whatever order the    *)
(* clients open, fail, unwind and close (io.go:21-70).                     *)
THEOREM SharedIsRefCounted == Spec => IsRefCounted
<1>1. Init => \A p \in Shared : Abstract(p)!Init
  BY DEF Init, Abstract!Init, HoldersOf
<1>2. WriterInv /\ [Next]_vars
        => [\A p \in Shared : [Abstract(p)!Next]_(Abstract(p)!vars)]_vars
  BY AbstractStep
<1>. QED  BY <1>1, <1>2, Writer, PTL DEF Spec, IsRefCounted
=============================================================================
