----------------------------- MODULE Component -----------------------------
(***************************************************************************)
(* The lifecycle components a resolver keeps for its providers: what       *)
(* calling Start and Shutdown on each kind of component does to it.        *)
(*                                                                         *)
(*   deferred   spanComponent (component.go) around an OTLP span exporter: *)
(*              built unstarted, its Start works once.                     *)
(*   immediate  spanComponent around an exporter without a Start method:   *)
(*              Start answers nil and does nothing (debug, pretty).        *)
(*   server     the Prometheus reader, whose HTTP server runs in a         *)
(*              goroutine of its own from Start to Shutdown.  Its inner    *)
(*              steps are in PrometheusReader.                             *)
(*   pipeline   logComponent and the SDK's periodic metric reader: at work *)
(*              since they were built, no Start method.                    *)
(*   bare       a metric exporter without the reader that collects for it. *)
(*                                                                         *)
(* kind and shut describe the component, running the connection or the     *)
(* server that Start opens, used the sync.Once in the OTLP exporter.       *)
(***************************************************************************)
EXTENDS FiniteSets

CONSTANT Cids           \* the component instances a run may build

VARIABLES
    kind,               \* kind[c]: what c is, "unbuilt" before it exists
    used,               \* exporters whose startOnce is spent
    running,            \* components whose connection or server is up
    shut                \* components whose Shutdown has been entered

components_vars == <<kind, used, running, shut>>

Kinds == {"deferred", "immediate", "server", "pipeline", "bare"}

Built == {c \in Cids : kind[c] # "unbuilt"}

ComponentTypeOK ==
    /\ kind \in [Cids -> Kinds \cup {"unbuilt"}]
    /\ used \subseteq Cids
    /\ running \subseteq Cids
    /\ shut \subseteq Cids

ComponentInit ==
    /\ kind = [c \in Cids |-> "unbuilt"]
    /\ used = {}
    /\ running = {}
    /\ shut = {}

----------------------------------------------------------------------------
(* An exporter config hands out a new instance. *)
New(c, k) ==
    /\ kind[c] = "unbuilt"
    /\ kind' = [kind EXCEPT ![c] = k]
    /\ UNCHANGED <<used, running, shut>>

(* The type assertion to interface{ Start(context.Context) error }. *)
HasStart(c) == kind[c] \in {"deferred", "immediate", "server"}

(* Start answers nil. *)
StartOk(c) ==
    /\ UNCHANGED <<kind, shut>>
    /\ \/ /\ kind[c] = "deferred"
          /\ c \notin used
          /\ used' = used \cup {c}
          /\ running' = running \cup {c}
       \/ /\ kind[c] = "immediate"
          /\ UNCHANGED <<used, running>>
       \/ /\ kind[c] = "server"
          /\ c \notin shut
          /\ running' = running \cup {c}
          /\ UNCHANGED used

(* Mutant of StartErr: a client that cannot start may be started again.    *)
StartErrRetried(c) ==
    /\ UNCHANGED <<kind, running, shut, used>>
    /\ \/ kind[c] = "deferred"
       \/ kind[c] = "server" /\ c \in shut

(* Start answers an error: "already started" or a client that cannot start *)
(* (either way the once is spent), "already closed" for the server.        *)
StartErr(c) ==
    /\ UNCHANGED <<kind, running, shut>>
    /\ \/ /\ kind[c] = "deferred"
          /\ used' = used \cup {c}
       \/ /\ kind[c] = "server"
          /\ c \in shut
          /\ UNCHANGED used

(* Shutdown of all but a live server returns at once.  The span and log    *)
(* processors behind it stop once: an exporter started after that is never *)
(* stopped by them.                                                        *)
ShutdownReturns(c) ==
    /\ kind[c] # "server" \/ c \in shut
    /\ shut' = shut \cup {c}
    /\ running' = IF c \in shut THEN running ELSE running \ {c}
    /\ UNCHANGED <<kind, used>>

(* Shutdown of a server sets closed, cancels the reader's own context and  *)
(* then waits, holding the reader's mutex, for the goroutine to end.       *)
ShutdownBlocks(c) ==
    /\ kind[c] = "server"
    /\ c \notin shut
    /\ shut' = shut \cup {c}
    /\ UNCHANGED <<kind, used, running>>

(* The goroutine ends only if there is one, and only once it is told to.   *)
ServerEnds(c) ==
    /\ c \in running
    /\ c \in shut
    /\ running' = running \ {c}
    /\ UNCHANGED <<kind, used, shut>>

(* All that can happen to a server once it is built. *)
ServerNext(c) ==
    \/ StartOk(c)
    \/ StartErr(c)
    \/ ShutdownReturns(c)
    \/ ShutdownBlocks(c)
    \/ ServerEnds(c)

============================================================================
