------------------------------ MODULE Resolver ------------------------------
(***************************************************************************)
(* resolver.go: a Resolver builds providers from its config on demand and  *)
(* keeps, per provider, the lifecycle components it must start and shut.   *)
(*                                                                         *)
(* One goroutine calls the resolver (it has no lock); op is the call in    *)
(* progress and each call is a sequence of steps, because every exporter   *)
(* build, Start and Shutdown in it can fail or block.  The context given   *)
(* to Start is cancelled at any moment by somebody else.                   *)
(***************************************************************************)
EXTENDS Component, Sequences

CONSTANTS
    Pids,               \* the provider ids that are asked for
    Eids,               \* exporter ids
    Procs,              \* processor ids
    SignalOf,           \* [Pids -> Signals]: which of the three calls asks
    Configured,         \* the ids that are keys of config.Providers
    ProcessorsOf,       \* [Pids -> Seq(Procs)]: ProviderConfig.Processors
    ExportersOf,        \* [Pids -> Seq(Eids)]: ProviderConfig.Exporters
    Accepts,            \* [Signals -> SUBSET Procs]: processors with options
    Offers,             \* [Eids -> [Methods -> Kinds or Nil]]: Nil when the
                        \* id is not in config.Exporters or unimplemented
    Nil

Signals == {"tracer", "meter", "logger"}
Methods == {"SpanExporter", "MetricReader", "MetricExporter", "LogExporter"}

ASSUME ResolverAssumption ==
    /\ Nil \notin Cids
    /\ Nil \notin Kinds
    /\ SignalOf \in [Pids -> Signals]
    /\ Configured \subseteq Pids
    /\ ProcessorsOf \in [Pids -> Seq(Procs)]
    /\ ExportersOf \in [Pids -> Seq(Eids)]
    /\ Accepts \in [Signals -> SUBSET Procs]
    /\ Offers \in [Eids -> [Methods -> Kinds \cup {Nil}]]

VARIABLES
    ctxDone,            \* the context given to Start has been cancelled
    registered,         \* the keys of r.providers
    components,         \* components[p][e]: provider p's component for e
    wired,              \* wired[p]: the components in p's options
    op,                 \* the call in progress, or "idle"
    ret,                \* what the last call answered
    target,             \* Tracer, Meter, Logger: the id being built
    procs,              \*   processors still to apply
    exps,               \*   exporters still to build
    building,           \*   the local map components
    opts,               \*   the components whose options were appended
    visited,            \* Start, Shutdown: the entries ranged over so far
    started,            \* Start: the local slice components, in order
    waiting,            \* the server a Shutdown is waiting for, or Nil
    before              \* history: running and shut when the call began

build_vars == <<target, procs, exps, building, opts>>
walk_vars == <<visited, started, waiting>>
provider_vars == <<registered, components, wired>>
vars == <<components_vars, ctxDone, provider_vars, op, ret, build_vars,
          walk_vars, before>>

NoComponents == [e \in Eids |-> Nil]

Ops == {"idle", "build", "start", "rollback", "shutdown"}
Rets == {"none", "provider", "notexist", "builderror",
         "started", "starterror", "shutdown"}

TypeOK ==
    /\ ComponentTypeOK
    /\ ctxDone \in BOOLEAN
    /\ registered \subseteq Pids
    /\ components \in [Pids -> [Eids -> Cids \cup {Nil}]]
    /\ wired \in [Pids -> SUBSET Cids]
    /\ op \in Ops
    /\ ret \in Rets
    /\ target \in Pids \cup {Nil}
    /\ op = "build" => target \in Pids
    /\ procs \in Seq(Procs)
    /\ exps \in Seq(Eids)
    /\ building \in [Eids -> Cids \cup {Nil}]
    /\ opts \subseteq Cids
    /\ visited \subseteq Pids \X Eids
    /\ started \in Seq(Cids)
    /\ waiting \in Cids \cup {Nil}
    /\ before \in [running : SUBSET Cids, shut : SUBSET Cids]

(* Make, and the first call of the program. *)
Init ==
    /\ ComponentInit
    /\ ctxDone = FALSE
    /\ registered = {}
    /\ components = [p \in Pids |-> NoComponents]
    /\ wired = [p \in Pids |-> {}]
    /\ op = "idle"
    /\ ret = "none"
    /\ target = Nil
    /\ procs = <<>>
    /\ exps = <<>>
    /\ building = NoComponents
    /\ opts = {}
    /\ visited = {}
    /\ started = <<>>
    /\ waiting = Nil
    /\ before = [running |-> {}, shut |-> {}]

(* The entries <<provider, exporter>> of r.providers and of the component  *)
(* maps under it.                                                          *)
Entries == {pe \in registered \X Eids : components[pe[1]][pe[2]] # Nil}
ComponentAt(pe) == components[pe[1]][pe[2]]
Managed == {ComponentAt(pe) : pe \in Entries}

----------------------------------------------------------------------------
(* Tracer, Meter and Logger. *)

Answer(r) == op' = "idle" /\ ret' = r

(* A call that returns leaves its local variables behind. *)
ReturnFromBuild(r) ==
    /\ Answer(r)
    /\ target' = Nil
    /\ procs' = <<>>
    /\ exps' = <<>>
    /\ building' = NoComponents
    /\ opts' = {}
    /\ UNCHANGED <<components_vars, ctxDone, walk_vars, before>>

ReturnFromWalk(r) ==
    /\ Answer(r)
    /\ visited' = {}
    /\ started' = <<>>
    /\ UNCHANGED <<components_vars, ctxDone, provider_vars, build_vars,
                   waiting, before>>

(* A provider that exists is handed out again. *)
Cached(p) ==
    /\ p \in registered
    /\ Answer("provider")
    /\ UNCHANGED <<components_vars, ctxDone, provider_vars, build_vars,
                   walk_vars, before>>

(* ErrNotExist. *)
NotConfigured(p) ==
    /\ p \notin registered
    /\ p \notin Configured
    /\ Answer("notexist")
    /\ UNCHANGED <<components_vars, ctxDone, provider_vars, build_vars,
                   walk_vars, before>>

(* Mutant of BeginBuild: the providers map is not consulted first.         *)
BeginBuildAgain(p) ==
    /\ p \in Configured
    /\ op' = "build"
    /\ ret' = "none"
    /\ target' = p
    /\ procs' = ProcessorsOf[p]
    /\ exps' = ExportersOf[p]
    /\ building' = NoComponents
    /\ opts' = {}
    /\ UNCHANGED <<components_vars, ctxDone, provider_vars, walk_vars, before>>

BeginBuild(p) ==
    /\ p \notin registered
    /\ p \in Configured
    /\ op' = "build"
    /\ ret' = "none"
    /\ target' = p
    /\ procs' = ProcessorsOf[p]
    /\ exps' = ExportersOf[p]
    /\ building' = NoComponents
    /\ opts' = {}
    /\ UNCHANGED <<components_vars, ctxDone, provider_vars, walk_vars, before>>

Ask(p) == op = "idle" /\ (Cached(p) \/ NotConfigured(p) \/ BeginBuild(p))

Tracer(p) == SignalOf[p] = "tracer" /\ Ask(p)
Meter(p) == SignalOf[p] = "meter" /\ Ask(p)
Logger(p) == SignalOf[p] = "logger" /\ Ask(p)

(* The build gives up: what it had built so far is forgotten. *)
GiveUp ==
    /\ op = "build"
    /\ procs # <<>> \/ exps # <<>>
    /\ ReturnFromBuild("builderror")
    /\ UNCHANGED provider_vars

ApplyProcessor ==
    /\ op = "build"
    /\ procs # <<>>
    /\ Head(procs) \in Accepts[SignalOf[target]]
    /\ procs' = Tail(procs)
    /\ UNCHANGED <<components_vars, ctxDone, provider_vars, op, ret, target,
                   exps, building, opts, walk_vars, before>>

(* The component an exporter yields to a signal.  A meter takes the reader *)
(* if there is one and the bare exporter otherwise.                        *)
Offer(e, signal) ==
    CASE signal = "tracer" -> Offers[e]["SpanExporter"]
      [] signal = "logger" -> Offers[e]["LogExporter"]
      [] signal = "meter"  -> IF Offers[e]["MetricReader"] # Nil
                              THEN Offers[e]["MetricReader"]
                              ELSE Offers[e]["MetricExporter"]

(* Mutant of BuildExporter: an id that offers nothing is not refused.      *)
BuildExporterUnoffered(c) ==
    /\ op = "build"
    /\ procs = <<>>
    /\ exps # <<>>
    /\ New(c, Offer(Head(exps), SignalOf[target]))
    /\ building' = [building EXCEPT ![Head(exps)] = c]
    /\ opts' = opts \cup {c}
    /\ exps' = Tail(exps)
    /\ UNCHANGED <<ctxDone, provider_vars, op, ret, target, procs, walk_vars,
                   before>>

(* Mutant of BuildExporter: an instance is shared between providers.       *)
BuildExporterShared(c) ==
    /\ op = "build"
    /\ procs = <<>>
    /\ exps # <<>>
    /\ Offer(Head(exps), SignalOf[target]) # Nil
    /\ \/ New(c, Offer(Head(exps), SignalOf[target]))
       \/ /\ kind[c] = Offer(Head(exps), SignalOf[target])
          /\ UNCHANGED components_vars
    /\ building' = [building EXCEPT ![Head(exps)] = c]
    /\ opts' = opts \cup {c}
    /\ exps' = Tail(exps)
    /\ UNCHANGED <<ctxDone, provider_vars, op, ret, target, procs, walk_vars,
                   before>>

(* Mutant of BuildExporter: the component is not recorded.                 *)
BuildExporterUnrecorded(c) ==
    /\ op = "build"
    /\ procs = <<>>
    /\ exps # <<>>
    /\ Offer(Head(exps), SignalOf[target]) # Nil
    /\ New(c, Offer(Head(exps), SignalOf[target]))
    /\ opts' = opts \cup {c}
    /\ UNCHANGED building
    /\ exps' = Tail(exps)
    /\ UNCHANGED <<ctxDone, provider_vars, op, ret, target, procs, walk_vars,
                   before>>

BuildExporter(c) ==
    /\ op = "build"
    /\ procs = <<>>
    /\ exps # <<>>
    /\ Offer(Head(exps), SignalOf[target]) # Nil
    /\ New(c, Offer(Head(exps), SignalOf[target]))
    /\ building' = [building EXCEPT ![Head(exps)] = c]
    /\ opts' = opts \cup {c}
    /\ exps' = Tail(exps)
    /\ UNCHANGED <<ctxDone, provider_vars, op, ret, target, procs, walk_vars,
                   before>>

Register ==
    /\ op = "build"
    /\ procs = <<>>
    /\ exps = <<>>
    /\ registered' = registered \cup {target}
    /\ components' = [components EXCEPT ![target] = building]
    /\ wired' = [wired EXCEPT ![target] = opts]
    /\ ReturnFromBuild("provider")

----------------------------------------------------------------------------
(* Start and Shutdown range over the maps: providers in any order, and all *)
(* components of one, in any order, before those of the next.              *)

Unvisited == Entries \ visited
Entered(p) == /\ \E e \in Eids : <<p, e>> \in visited
              /\ \E e \in Eids : <<p, e>> \in Unvisited
NextEntries == {pe \in Unvisited :
                   (\E p \in Pids : Entered(p)) => Entered(pe[1])}

BeginWalk(name) ==
    /\ op = "idle"
    /\ op' = name
    /\ ret' = "none"
    /\ visited' = {}
    /\ started' = <<>>
    /\ before' = [running |-> running, shut |-> shut]
    /\ UNCHANGED <<components_vars, ctxDone, provider_vars, build_vars,
                   waiting>>

Start == BeginWalk("start")
Shutdown == BeginWalk("shutdown")

Visit(pe) ==
    /\ visited' = visited \cup {pe}
    /\ UNCHANGED <<ctxDone, provider_vars, ret, build_vars, before>>

SkipComponent(pe) ==
    /\ op = "start"
    /\ ~HasStart(ComponentAt(pe))
    /\ Visit(pe)
    /\ UNCHANGED <<components_vars, op, started, waiting>>

(* Mutant of StartComponent: the started component is not appended.        *)
StartComponentUnlisted(pe) ==
    /\ op = "start"
    /\ StartOk(ComponentAt(pe))
    /\ Visit(pe)
    /\ UNCHANGED <<op, started, waiting>>

StartComponent(pe) ==
    /\ op = "start"
    /\ StartOk(ComponentAt(pe))
    /\ started' = Append(started, ComponentAt(pe))
    /\ Visit(pe)
    /\ UNCHANGED <<op, waiting>>

(* Mutant of StartComponentFails: the loop goes on after an error.         *)
StartComponentIgnored(pe) ==
    /\ op = "start"
    /\ StartErr(ComponentAt(pe))
    /\ Visit(pe)
    /\ UNCHANGED <<op, started, waiting>>

(* Mutant of StartComponentFails: the rollback takes in a component that   *)
(* this call has not come to.                                              *)
StartComponentOverreach(pe) ==
    /\ op = "start"
    /\ StartErr(ComponentAt(pe))
    /\ op' = "rollback"
    /\ \E qf \in Unvisited : started' = Append(started, ComponentAt(qf))
    /\ Visit(pe)
    /\ UNCHANGED waiting

(* An error ends the loop and hands over to the deferred function. *)
StartComponentFails(pe) ==
    /\ op = "start"
    /\ StartErr(ComponentAt(pe))
    /\ op' = "rollback"
    /\ Visit(pe)
    /\ UNCHANGED <<started, waiting>>

StartDone ==
    /\ op = "start"
    /\ Unvisited = {}
    /\ ReturnFromWalk("started")

(* The deferred function shuts what this call has started, ignoring errors.*)
Rollback ==
    /\ op = "rollback"
    /\ waiting = Nil
    /\ started # <<>>
    /\ started' = Tail(started)
    /\ \/ ShutdownReturns(Head(started)) /\ UNCHANGED waiting
       \/ ShutdownBlocks(Head(started)) /\ waiting' = Head(started)
    /\ UNCHANGED <<ctxDone, provider_vars, op, ret, build_vars, visited, before>>

RollbackDone ==
    /\ op = "rollback"
    /\ waiting = Nil
    /\ started = <<>>
    /\ ReturnFromWalk("starterror")

(* Shutdown goes on whatever a component answers; errors are joined. *)
ShutdownComponent(pe) ==
    /\ op = "shutdown"
    /\ waiting = Nil
    /\ \/ ShutdownReturns(ComponentAt(pe)) /\ UNCHANGED waiting
       \/ ShutdownBlocks(ComponentAt(pe)) /\ waiting' = ComponentAt(pe)
    /\ Visit(pe)
    /\ UNCHANGED <<op, started>>

(* Mutant of ShutdownDone: the first error ends the loop.                  *)
ShutdownDoneEarly ==
    /\ op = "shutdown"
    /\ waiting = Nil
    /\ ReturnFromWalk("shutdown")

ShutdownDone ==
    /\ op = "shutdown"
    /\ waiting = Nil
    /\ Unvisited = {}
    /\ ReturnFromWalk("shutdown")

(* Mutant of WaitServer: the goroutine ends without closing r.done.        *)
WaitServerForever ==
    /\ waiting # Nil
    /\ ServerEnds(waiting)
    /\ UNCHANGED <<waiting, ctxDone, provider_vars, op, ret, build_vars,
                   visited, started, before>>

(* The server a Shutdown or a rollback waits for has ended. *)
WaitServer ==
    /\ waiting # Nil
    /\ ServerEnds(waiting)
    /\ waiting' = Nil
    /\ UNCHANGED <<ctxDone, provider_vars, op, ret, build_vars, visited,
                   started, before>>

(* Somebody cancels the context the application passes to Start. *)
Cancel ==
    /\ ~ctxDone
    /\ ctxDone' = TRUE
    /\ UNCHANGED <<components_vars, provider_vars, op, ret, build_vars,
                   walk_vars, before>>

----------------------------------------------------------------------------
Build == ApplyProcessor \/ Register \/ GiveUp \/ \E c \in Cids : BuildExporter(c)

StartStep ==
    \/ \E pe \in NextEntries : \/ SkipComponent(pe)
                               \/ StartComponent(pe)
                               \/ StartComponentFails(pe)
    \/ StartDone
    \/ Rollback
    \/ RollbackDone

ShutdownStep ==
    \/ \E pe \in NextEntries : ShutdownComponent(pe)
    \/ ShutdownDone

(* What the calling goroutine does once it is inside a call. *)
InCall == Build \/ StartStep \/ ShutdownStep \/ WaitServer

Next ==
    \/ \E p \in Pids : Tracer(p) \/ Meter(p) \/ Logger(p)
    \/ Start
    \/ Shutdown
    \/ InCall
    \/ Cancel

Spec == Init /\ [][Next]_vars

(* The goroutine inside a call goes on while it can; which calls are made  *)
(* is up to the application.  A server is sure to end when told to only if *)
(* the context it was started with is cancelled; otherwise it ends only if *)
(* it happens to be between two attempts to listen.                        *)
Progress ==
    Build \/ StartStep \/ ShutdownStep \/ (ctxDone /\ WaitServer)

(* The application also cancels the context it started the providers with. *)
FairSpec == Spec /\ WF_vars(Progress) /\ WF_vars(Cancel)

----------------------------------------------------------------------------
(* Correctness. *)

(* A failed Start takes back what it did: whatever is up when it answers   *)
(* was up before (resolver.go:61-76), except exporters already shut before *)
(* they were ever started, which their processor cannot close any more.    *)
RollbackComplete ==
    ret = "starterror" => running \ before.running \subseteq before.shut

(* A Start that answers nil has brought up every component that needs it,  *)
(* whatever order the maps were ranged over in (resolver.go:78-95).        *)
StartAllUp ==
    ret = "started" =>
        \A c \in Managed : kind[c] \in {"deferred", "server"} => c \in running

(* When Shutdown answers, every component of every provider has been shut  *)
(* and closed, whatever the others answered (resolver.go:98-117), with the *)
(* same exception as above.                                                *)
ShutdownComplete ==
    ret = "shutdown" => /\ Managed \subseteq shut
                        /\ Managed \cap running \subseteq before.shut

(* Start is the single starter of a component: none that it still has to   *)
(* start has been started by this very call, though providers may name the *)
(* same exporter (otlp/exporter_test.go:478-480).                          *)
SingleStarter ==
    op = "start" =>
        \A pe \in Unvisited :
            \A i \in DOMAIN started : started[i] # ComponentAt(pe)

(* A provider feeds no pipeline that Shutdown cannot reach, unless its     *)
(* exporter list names one exporter twice (resolver.go:179, 252, 260, 343).*)
WiredManaged ==
    \A p \in registered :
        (\A i, j \in DOMAIN ExportersOf[p] :
            ExportersOf[p][i] = ExportersOf[p][j] => i = j)
        => wired[p] = {components[p][e] : e \in Eids} \ {Nil}

(* The provider of an id is built once: it and its components stay those   *)
(* that were handed out first (resolver.go:126, 203, 289).                 *)
ProvidersStable ==
    [][\A p \in registered : /\ p \in registered'
                             /\ components'[p] = components[p]
                             /\ wired'[p] = wired[p]]_vars

(* After a failed Start no later one answers nil: a resolver whose         *)
(* components were rolled back is never reported as started.               *)
FailedStartIsFinal == [](ret = "starterror" => [](ret # "started"))

(* Start answers, also when it has to roll back a server.                  *)
StartReturns == op \in {"start", "rollback"} ~> op = "idle"

(* Shutdown answers if every server it meets was started, or shut, before. *)
ShutdownReturnsOnceStarted ==
    /\ op = "shutdown"
    /\ \A c \in Managed : kind[c] = "server" => c \in running \cup before.shut
    ~> op = "idle"

(* Shutdown answers at whatever point the application defers it to, as the *)
(* README does (README.md:53-65): before Start, or when Start has failed.  *)
ShutdownAlwaysReturns == op = "shutdown" ~> op = "idle"

(* Every component that was built and is not shut is one that the resolver *)
(* manages (component.go:10-15), so that Shutdown can close it.            *)
OpenIsManaged == op = "idle" => Built \ shut \subseteq Managed
============================================================================
