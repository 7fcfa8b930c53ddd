---------------------------- MODULE SharedWriter ----------------------------
(***************************************************************************)
(* io.go: outputs that several exporters write to.                         *)
(*                                                                         *)
(* A client is an exporter: it opens the outputs of its configuration with *)
(* OpenAll, writes to all of them and closes them.  Clients run            *)
(* concurrently; the mutex of a shared writer makes each open, write and   *)
(* close of it one step, but OpenAll, Write and Close of the whole list    *)
(* are many.  Opening, writing and closing may fail.                       *)
(*                                                                         *)
(* The i-th output of client c is the handle <<c, i>>.  Outputs not in     *)
(* Shared are files that every client opens for itself.                    *)
(***************************************************************************)
EXTENDS Integers, Sequences, FiniteSets

CONSTANTS Clients,
          Paths,
          Shared,       \* the outputs made by NewSharedWriter
          PathsOf       \* [Clients -> Seq(Paths)]: what each client opens

ASSUME WriterAssumption ==
    /\ Shared \subseteq Paths
    /\ PathsOf \in [Clients -> Seq(Paths)]

VARIABLES
    n,                  \* n[p]: the writers counted by shared writer p
    open,               \* open[p]: its underlying writer is open
    held,               \* the handles handed out and not closed
    pc,                 \* pc[c]: the call client c is in
    at                  \* at[c]: its position in the list

vars == <<n, open, held, pc, at>>

Handles == UNION {{c} \X (1..Len(PathsOf[c])) : c \in Clients}
PathOf(h) == PathsOf[h[1]][h[2]]
HoldersOf(p) == {h \in held : PathOf(h) = p}

TypeOK ==
    /\ n \in [Shared -> Nat]
    /\ open \in [Shared -> BOOLEAN]
    /\ held \subseteq Handles
    /\ pc \in [Clients -> {"idle", "opening", "unwinding", "holding",
                           "writing", "closing"}]
    /\ at \in [Clients -> Nat]

Init ==
    /\ n = [p \in Shared |-> 0]
    /\ open = [p \in Shared |-> FALSE]
    /\ held = {}
    /\ pc = [c \in Clients |-> "idle"]
    /\ at = [c \in Clients |-> 1]

Current(c) == <<c, at[c]>>
InList(c) == at[c] <= Len(PathsOf[c])

Enter(c, from, to) ==
    /\ pc[c] = from
    /\ pc' = [pc EXCEPT ![c] = to]
    /\ at' = [at EXCEPT ![c] = 1]
    /\ UNCHANGED <<n, open, held>>

----------------------------------------------------------------------------
(* The WriterOpenFunc of NewSharedWriter counts first and opens only for   *)
(* the first writer; when that fails the count is taken back.              *)
SharedOpens(p) ==
    /\ n' = [n EXCEPT ![p] = @ + 1]
    /\ open' = IF n[p] + 1 > 1 THEN open ELSE [open EXCEPT ![p] = TRUE]

(* Mutant of SharedOpenFails: the count is not taken back ...              *)
SharedOpenFailsCounted(p) ==
    /\ n[p] + 1 <= 1
    /\ n' = [n EXCEPT ![p] = @ + 1]
    /\ UNCHANGED open

(* ... or is taken back without having been counted.                       *)
SharedOpenFailsUncounted(p) ==
    /\ n[p] + 1 <= 1
    /\ n' = [n EXCEPT ![p] = @ - 1]
    /\ UNCHANGED open

SharedOpenFails(p) ==
    /\ n[p] + 1 <= 1
    /\ UNCHANGED <<n, open>>

(* Mutant of SharedCloses: every Close closes the underlying writer ...    *)
SharedClosesAlways(p) ==
    /\ n' = [n EXCEPT ![p] = @ - 1]
    /\ open' = [open EXCEPT ![p] = FALSE]

(* ... or none of them does.                                               *)
SharedClosesNever(p) ==
    /\ n' = [n EXCEPT ![p] = @ - 1]
    /\ UNCHANGED open

(* Close of a shared writer closes the underlying one for the last writer. *)
SharedCloses(p) ==
    /\ n' = [n EXCEPT ![p] = @ - 1]
    /\ open' = IF n[p] - 1 = 0 THEN [open EXCEPT ![p] = FALSE] ELSE open

(* OutputStore.Open of the next path in the list. *)
Open(c) ==
    /\ pc[c] = "opening"
    /\ InList(c)
    /\ \/ PathOf(Current(c)) \in Shared /\ SharedOpens(PathOf(Current(c)))
       \/ PathOf(Current(c)) \notin Shared /\ UNCHANGED <<n, open>>
    /\ held' = held \cup {Current(c)}
    /\ at' = [at EXCEPT ![c] = @ + 1]
    /\ UNCHANGED pc

(* Mutant of OpenFails: OpenAll returns without closing anything.          *)
OpenFailsLeaks(c) ==
    /\ pc[c] = "opening"
    /\ InList(c)
    /\ \/ PathOf(Current(c)) \in Shared /\ SharedOpenFails(PathOf(Current(c)))
       \/ PathOf(Current(c)) \notin Shared /\ UNCHANGED <<n, open>>
    /\ pc' = [pc EXCEPT ![c] = "idle"]
    /\ at' = [at EXCEPT ![c] = 1]
    /\ UNCHANGED held

(* OpenAll closes what it has opened when the next open fails. *)
OpenFails(c) ==
    /\ pc[c] = "opening"
    /\ InList(c)
    /\ \/ PathOf(Current(c)) \in Shared /\ SharedOpenFails(PathOf(Current(c)))
       \/ PathOf(Current(c)) \notin Shared /\ UNCHANGED <<n, open>>
    /\ pc' = [pc EXCEPT ![c] = "unwinding"]
    /\ at' = [at EXCEPT ![c] = 1]
    /\ UNCHANGED held

OpenAll(c) == Enter(c, "idle", "opening")
OpenAllDone(c) == ~InList(c) /\ Enter(c, "opening", "holding")

(* MultiWriteCloser.Write stops at the first writer that fails. *)
Write(c) ==
    /\ pc[c] = "writing"
    /\ InList(c)
    /\ at' = [at EXCEPT ![c] = @ + 1]
    /\ UNCHANGED <<n, open, held, pc>>

MultiWrite(c) == Enter(c, "holding", "writing")
MultiWriteDone(c) == Enter(c, "writing", "holding")

(* MultiWriteCloser.Close closes every writer, whatever the others answer. *)
Close(c) ==
    /\ pc[c] \in {"unwinding", "closing"}
    /\ Current(c) \in held
    /\ \/ PathOf(Current(c)) \in Shared /\ SharedCloses(PathOf(Current(c)))
       \/ PathOf(Current(c)) \notin Shared /\ UNCHANGED <<n, open>>
    /\ held' = held \ {Current(c)}
    /\ at' = [at EXCEPT ![c] = @ + 1]
    /\ UNCHANGED pc

MultiClose(c) == Enter(c, "holding", "closing")
MultiCloseDone(c) ==
    /\ Current(c) \notin held
    /\ Enter(c, "unwinding", "idle") \/ Enter(c, "closing", "idle")

Next == \E c \in Clients :
    \/ OpenAll(c) \/ Open(c) \/ OpenFails(c) \/ OpenAllDone(c)
    \/ MultiWrite(c) \/ Write(c) \/ MultiWriteDone(c)
    \/ MultiClose(c) \/ Close(c) \/ MultiCloseDone(c)

Spec == Init /\ [][Next]_vars

----------------------------------------------------------------------------
(* Correctness. *)

(* The count of a shared writer is the number of handles to it, through    *)
(* every failed OpenAll and every interleaving (io.go:30-39, 63-66).       *)
CountIsHolders == \A p \in Shared : n[p] = Cardinality(HoldersOf(p))

(* A client writes only to outputs that are open: nobody else's Close took *)
(* the underlying writer away (io.go:52-68).                               *)
WritesAreOpen ==
    \A c \in Clients :
        pc[c] = "writing" /\ InList(c) /\ PathOf(Current(c)) \in Shared
        => open[PathOf(Current(c))]

(* A client between calls holds all of its outputs or none: a failed       *)
(* OpenAll and a Close that met errors leave none behind (:86-92, :122-126)*)
AllOrNothing ==
    \A c \in Clients :
        LET mine == {h \in held : h[1] = c} IN
        /\ pc[c] = "idle" => mine = {}
        /\ pc[c] = "holding" => Cardinality(mine) = Len(PathsOf[c])

(* Every shared writer is the reference-counted output of RefCounted.      *)
Abstract(p) == INSTANCE RefCounted WITH
    Handles <- Handles,
    holders <- HoldersOf(p),
    open <- open[p]

IsRefCounted ==
    /\ \A p \in Shared : Abstract(p)!Init
    /\ [][\A p \in Shared : [Abstract(p)!Next]_(Abstract(p)!vars)]_vars
=============================================================================
