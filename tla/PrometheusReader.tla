-------------------------- MODULE PrometheusReader --------------------------
(***************************************************************************)
(* prometheus/exporter.go: the reader that serves /metrics.                *)
(*                                                                         *)
(* Any goroutine may call Start and Shutdown, each with a context of its   *)
(* own.  The first Start spawns a goroutine, here identified with the      *)
(* caller that spawned it, that keeps an HTTP server up until the reader's *)
(* own context is cancelled.  A context.AfterFunc shuts the HTTP server    *)
(* when the context of that Start is cancelled.  The address may be in     *)
(* use, and an accepting server may fail.                                  *)
(***************************************************************************)
EXTENDS Naturals, FiniteSets

CONSTANTS Callers,      \* goroutines that use the reader
          Nil

ASSUME ReaderAssumption == Nil \notin Callers

VARIABLES
    mu,                 \* the holder of r.mu while it waits, or Nil
    isStarted,          \* r.started
    closed,             \* r.closed
    cancelled,          \* r.ctx is cancelled
    doneClosed,         \* how often r.done has been closed
    pc,                 \* pc[g]: the call of g in progress
    ret,                \* ret[g]: what the last call of g answered
    ctxDone,            \* the callers whose contexts are cancelled
    loop,               \* loop[g]: the goroutine that g's Start spawned
    server,             \* server[g]: its current http.Server
    after               \* after[g]: the AfterFunc for that server

lock_vars == <<mu, isStarted, closed, cancelled>>
call_vars == <<pc, ret>>
loop_vars == <<loop, server, after>>
vars == <<lock_vars, doneClosed, call_vars, ctxDone, loop_vars>>

TypeOK ==
    /\ mu \in Callers \cup {Nil}
    /\ isStarted \in BOOLEAN
    /\ closed \in BOOLEAN
    /\ cancelled \in BOOLEAN
    /\ doneClosed \in {0, 1}
    /\ pc \in [Callers -> {"idle", "start", "shutdown", "join"}]
    /\ ret \in [Callers -> {"none", "started", "already closed", "shut"}]
    /\ ctxDone \subseteq Callers
    /\ loop \in [Callers -> {"none", "top", "listen", "serve", "returned",
                             "select", "ended"}]
    /\ server \in [Callers -> {"none", "new", "listening", "shut", "failed"}]
    /\ after \in [Callers -> {"none", "armed", "fired", "stopped"}]

(* MetricReader has built the reader. *)
Init ==
    /\ mu = Nil
    /\ isStarted = FALSE
    /\ closed = FALSE
    /\ cancelled = FALSE
    /\ doneClosed = 0
    /\ pc = [g \in Callers |-> "idle"]
    /\ ret = [g \in Callers |-> "none"]
    /\ ctxDone = {}
    /\ loop = [g \in Callers |-> "none"]
    /\ server = [g \in Callers |-> "none"]
    /\ after = [g \in Callers |-> "none"]

----------------------------------------------------------------------------
(* The callers. *)

Call(g, name) ==
    /\ pc[g] = "idle"
    /\ pc' = [pc EXCEPT ![g] = name]
    /\ ret' = [ret EXCEPT ![g] = "none"]
    /\ UNCHANGED <<lock_vars, doneClosed, ctxDone, loop_vars>>

Return(g, r) ==
    /\ pc' = [pc EXCEPT ![g] = "idle"]
    /\ ret' = [ret EXCEPT ![g] = r]

(* Mutant of Start: r.started is not looked at.                            *)
StartAgain(g) ==
    /\ pc[g] = "start"
    /\ mu = Nil
    /\ \/ /\ closed
          /\ Return(g, "already closed")
          /\ UNCHANGED <<isStarted, loop>>
       \/ /\ ~closed
          /\ isStarted' = TRUE
          /\ loop' = [loop EXCEPT ![g] = "top"]
          /\ Return(g, "started")
    /\ UNCHANGED <<mu, closed, cancelled, doneClosed, ctxDone, server, after>>

(* Mutant of Start: r.closed is not looked at.                             *)
StartClosed(g) ==
    /\ pc[g] = "start"
    /\ mu = Nil
    /\ isStarted' = TRUE
    /\ loop' = IF isStarted THEN loop ELSE [loop EXCEPT ![g] = "top"]
    /\ Return(g, "started")
    /\ UNCHANGED <<mu, closed, cancelled, doneClosed, ctxDone, server, after>>

(* Start under the mutex; it never blocks once it has it. *)
Start(g) ==
    /\ pc[g] = "start"
    /\ mu = Nil
    /\ \/ /\ closed
          /\ Return(g, "already closed")
          /\ UNCHANGED <<isStarted, loop>>
       \/ /\ ~closed
          /\ isStarted
          /\ Return(g, "started")
          /\ UNCHANGED <<isStarted, loop>>
       \/ /\ ~closed
          /\ ~isStarted
          /\ isStarted' = TRUE
          /\ loop' = [loop EXCEPT ![g] = "top"]
          /\ Return(g, "started")
    /\ UNCHANGED <<mu, closed, cancelled, doneClosed, ctxDone, server, after>>

(* Mutant of Shutdown: it does not wait for r.done.                        *)
ShutdownUnjoined(g) ==
    /\ pc[g] = "shutdown"
    /\ mu = Nil
    /\ closed' = TRUE
    /\ cancelled' = TRUE
    /\ Return(g, "shut")
    /\ UNCHANGED <<mu, isStarted, doneClosed, ctxDone, loop_vars>>

(* Shutdown under the mutex, up to the receive from r.done. *)
Shutdown(g) ==
    /\ pc[g] = "shutdown"
    /\ mu = Nil
    /\ \/ /\ closed
          /\ Return(g, "shut")
          /\ UNCHANGED lock_vars
       \/ /\ ~closed
          /\ closed' = TRUE
          /\ cancelled' = TRUE
          /\ mu' = g
          /\ pc' = [pc EXCEPT ![g] = "join"]
          /\ UNCHANGED <<isStarted, ret>>
    /\ UNCHANGED <<doneClosed, ctxDone, loop_vars>>

(* The receive from r.done succeeds once it is closed. *)
Join(g) ==
    /\ pc[g] = "join"
    /\ doneClosed > 0
    /\ mu' = Nil
    /\ Return(g, "shut")
    /\ UNCHANGED <<isStarted, closed, cancelled, doneClosed, ctxDone, loop_vars>>

(* The context that g passes to its calls is cancelled. *)
Cancel(g) ==
    /\ g \notin ctxDone
    /\ ctxDone' = ctxDone \cup {g}
    /\ UNCHANGED <<lock_vars, doneClosed, call_vars, loop_vars>>

----------------------------------------------------------------------------
(* The goroutine spawned by g's Start. *)

Goto(g, l) == loop' = [loop EXCEPT ![g] = l]
UnchangedByLoop == UNCHANGED <<lock_vars, call_vars, ctxDone>>

NewServer(g) ==
    /\ loop[g] = "top"
    /\ Goto(g, "listen")
    /\ server' = [server EXCEPT ![g] = "new"]
    /\ after' = [after EXCEPT ![g] = "armed"]
    /\ UNCHANGED doneClosed
    /\ UnchangedByLoop

(* ListenAndServe of a server that is not shut yet gets the address ... *)
Listen(g) ==
    /\ loop[g] = "listen"
    /\ server[g] = "new"
    /\ Goto(g, "serve")
    /\ server' = [server EXCEPT ![g] = "listening"]
    /\ UNCHANGED <<after, doneClosed>>
    /\ UnchangedByLoop

(* ... or does not, or stops accepting later on ... *)
ListenFails(g) ==
    /\ loop[g] \in {"listen", "serve"}
    /\ server[g] # "shut"
    /\ Goto(g, "returned")
    /\ server' = [server EXCEPT ![g] = "failed"]
    /\ UNCHANGED <<after, doneClosed>>
    /\ UnchangedByLoop

(* ... and returns at once when it has been shut. *)
ServerClosed(g) ==
    /\ loop[g] \in {"listen", "serve"}
    /\ server[g] = "shut"
    /\ Goto(g, "returned")
    /\ UNCHANGED <<server, after, doneClosed>>
    /\ UnchangedByLoop

(* Mutant of Stop: a server that cannot listen ends the loop.              *)
StopOnFailure(g) ==
    /\ loop[g] = "returned"
    /\ after' = [after EXCEPT ![g] = "stopped"]
    /\ Goto(g, "ended")
    /\ doneClosed' = doneClosed + 1
    /\ UNCHANGED server
    /\ UnchangedByLoop

(* Mutant of Stop: the select watches the context given to Start.          *)
StopOnStartContext(g) ==
    /\ loop[g] = "returned"
    /\ after' = [after EXCEPT ![g] =
                    IF after[g] = "armed" THEN "stopped" ELSE @]
    /\ \/ /\ cancelled \/ g \in ctxDone
          /\ Goto(g, "ended")
          /\ doneClosed' = doneClosed + 1
       \/ /\ ~cancelled
          /\ g \notin ctxDone
          /\ Goto(g, "select")
          /\ UNCHANGED doneClosed
    /\ UNCHANGED server
    /\ UnchangedByLoop

(* stop(), and the select when r.ctx is cancelled before it: the timer     *)
(* still has its three seconds to run, so the goroutine ends.              *)
Stop(g) ==
    /\ loop[g] = "returned"
    /\ after' = [after EXCEPT ![g] =
                    IF after[g] = "armed" THEN "stopped" ELSE @]
    /\ \/ /\ cancelled
          /\ Goto(g, "ended")
          /\ doneClosed' = doneClosed + 1
       \/ /\ ~cancelled
          /\ Goto(g, "select")
          /\ UNCHANGED doneClosed
    /\ UNCHANGED server
    /\ UnchangedByLoop

(* r.ctx is cancelled during the pause ... *)
End(g) ==
    /\ loop[g] = "select"
    /\ cancelled
    /\ Goto(g, "ended")
    /\ doneClosed' = doneClosed + 1
    /\ UNCHANGED <<server, after>>
    /\ UnchangedByLoop

(* ... or the pause is over; the select may see both and pick this one.    *)
Retry(g) ==
    /\ loop[g] = "select"
    /\ Goto(g, "top")
    /\ UNCHANGED <<server, after, doneClosed>>
    /\ UnchangedByLoop

(* Mutant of AfterFunc: the server is left alone.                          *)
AfterFuncIdle(g) ==
    /\ after[g] = "armed"
    /\ g \in ctxDone
    /\ after' = [after EXCEPT ![g] = "fired"]
    /\ UNCHANGED <<server, loop, doneClosed>>
    /\ UnchangedByLoop

(* The AfterFunc runs in a goroutine of its own once the context of the    *)
(* Start that spawned the loop is done, and shuts the server.              *)
AfterFunc(g) ==
    /\ after[g] = "armed"
    /\ g \in ctxDone
    /\ after' = [after EXCEPT ![g] = "fired"]
    /\ server' = [server EXCEPT ![g] = IF @ = "failed" THEN @ ELSE "shut"]
    /\ UNCHANGED <<loop, doneClosed>>
    /\ UnchangedByLoop

----------------------------------------------------------------------------
CallStep(g) == Start(g) \/ Shutdown(g) \/ Join(g)
LoopStep(g) ==
    \/ NewServer(g)
    \/ Listen(g)
    \/ ListenFails(g)
    \/ ServerClosed(g)
    \/ Stop(g)
    \/ End(g)
    \/ Retry(g)

Next == \E g \in Callers :
    \/ Call(g, "start")
    \/ Call(g, "shutdown")
    \/ CallStep(g)
    \/ LoopStep(g)
    \/ AfterFunc(g)
    \/ Cancel(g)

Spec == Init /\ [][Next]_vars

(* Goroutines and the AfterFunc run; sync.Mutex does not starve a waiter.  *)
(* The loop runs on through everything but a listener that does its work.  *)
Fairness == \A g \in Callers :
    /\ SF_vars(Start(g))
    /\ SF_vars(Shutdown(g))
    /\ WF_vars(Join(g))
    /\ WF_vars(NewServer(g))
    /\ WF_vars(loop[g] = "listen" /\ LoopStep(g))
    /\ WF_vars(ServerClosed(g))
    /\ WF_vars(Stop(g))
    /\ WF_vars(End(g) \/ Retry(g))
    /\ WF_vars(AfterFunc(g))

FairSpec == Spec /\ Fairness

----------------------------------------------------------------------------
(* Correctness. *)

Alive(g) == loop[g] \notin {"none", "ended"}

(* However many goroutines call Start, one serves: a second one would find *)
(* the address in use for good and close r.done twice, which panics        *)
(* (prometheus/exporter.go:81-87).                                         *)
OneLoop ==
    \A g, h \in Callers : Alive(g) /\ Alive(h) => g = h

(* Whoever finds the reader closed finds its server gone as well: the one  *)
(* that closes it keeps the mutex until then (:110-120).                   *)
ClosedMeansStopped ==
    closed /\ mu = Nil =>
        \A g \in Callers : ~Alive(g) /\ server[g] # "listening"

(* A Start that answers nil leaves a goroutine at work, also when it has   *)
(* waited for the mutex behind a Shutdown (:78-84).                        *)
StartedMeansAlive ==
    [][\A g \in Callers :
          pc[g] = "start" /\ pc'[g] = "idle" /\ ret'[g] = "started"
          => \E h \in Callers : loop'[h] \notin {"none", "ended"}]_vars

(* While neither context is cancelled, a server that failed is replaced by *)
(* one that listens, provided the address is free often enough (:88-103).  *)
ServesAgain ==
    \A g \in Callers :
        SF_vars(Listen(g)) =>
            (Alive(g) ~> \/ server[g] = "listening"
                         \/ g \in ctxDone
                         \/ cancelled)

(* Once the context of the Start that spawned the goroutine is cancelled,  *)
(* every call answers (:90-95, :117-119).                                  *)
CallsReturnAfterCancel ==
    \A g \in Callers :
        (pc[g] # "idle" /\ \E h \in ctxDone : loop[h] # "none")
        ~> pc[g] = "idle"

(* A Shutdown of a reader that was started answers, whatever becomes of    *)
(* the context given to Start: the README starts and shuts with            *)
(* context.TODO(), which is never cancelled (README.md:53-65).             *)
ShutdownReturns ==
    \A g \in Callers :
        (isStarted /\ pc[g] = "shutdown") ~> pc[g] = "idle"

(* To a resolver the reader is a component of kind "server": it runs from  *)
(* the first Start until a Shutdown ends it, and never ends by itself.     *)
Component == INSTANCE Component WITH
    Cids <- {"reader"},
    kind <- [c \in {"reader"} |-> "server"],
    used <- {},
    running <- IF \E g \in Callers : Alive(g) THEN {"reader"} ELSE {},
    shut <- IF closed THEN {"reader"} ELSE {}

IsServer == Component!ComponentTypeOK
            /\ [][Component!ServerNext("reader")]_(Component!components_vars)
============================================================================
