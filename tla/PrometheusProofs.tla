-------------------------- MODULE PrometheusProofs --------------------------
(***************************************************************************)
(* Theorems about PrometheusReader, for any number of goroutines that use  *)
(* the reader.                                                             *)
(***************************************************************************)
EXTENDS PrometheusReader, TLAPS

States ==
    /\ mu \in Callers \cup {Nil}
    /\ isStarted \in BOOLEAN /\ closed \in BOOLEAN /\ cancelled \in BOOLEAN
    /\ pc \in [Callers -> {"idle", "start", "shutdown", "join"}]
    /\ ret \in [Callers -> {"none", "started", "already closed", "shut"}]
    /\ ctxDone \subseteq Callers
    /\ loop \in [Callers -> {"none", "top", "listen", "serve", "returned",
                             "select", "ended"}]
    /\ server \in [Callers -> {"none", "new", "listening", "shut", "failed"}]
    /\ after \in [Callers -> {"none", "armed", "fired", "stopped"}]

Spawned(g) == loop[g] # "none"

(* The first Start spawns the goroutine, no other one does (:81-87).       *)
SpawnInv ==
    /\ isStarted <=> \E g \in Callers : Spawned(g)
    /\ \A g, h \in Callers : Spawned(g) /\ Spawned(h) => g = h

(* It ends when it is told to, and closes r.done then (:86, :105-107).     *)
DoneInv ==
    /\ doneClosed = IF \E g \in Callers : loop[g] = "ended" THEN 1 ELSE 0
    /\ \A g \in Callers : loop[g] = "ended" => cancelled

(* Only a goroutine that serves has a server that listens (:88-103).       *)
ServeInv == \A g \in Callers : server[g] = "listening" => loop[g] = "serve"

(* A Shutdown that waits holds the mutex (:110-120).                       *)
LockInv ==
    /\ closed <=> cancelled
    /\ \A g \in Callers : pc[g] = "join" <=> mu = g
    /\ mu # Nil => closed
    /\ closed /\ mu = Nil => doneClosed = 1

ReaderInv == States /\ SpawnInv /\ DoneInv /\ ServeInv /\ LockInv

(* A step of the goroutine that does not end it changes nothing but where  *)
(* it is and its server.                                                   *)
LEMMA LoopQuiet ==
    ASSUME ReaderInv, NEW g \in Callers,
           NEW l \in {"top", "listen", "serve", "returned", "select"},
           loop[g] \notin {"none", "ended"}, Goto(g, l), UnchangedByLoop,
           UNCHANGED doneClosed, States',
           server'[g] = "listening" => l = "serve",
           \A h \in Callers : h # g => server'[h] = server[h]
    PROVE  ReaderInv'
<1>1. /\ UNCHANGED <<mu, isStarted, closed, cancelled, doneClosed, pc>>
      /\ loop' = [loop EXCEPT ![g] = l]
      /\ loop \in [Callers -> {"none", "top", "listen", "serve", "returned",
                               "select", "ended"}]
  BY DEF UnchangedByLoop, Goto, lock_vars, call_vars, ReaderInv, States
<1>2. /\ \A h \in Callers : Spawned(h)' <=> Spawned(h)
      /\ \A h \in Callers : loop'[h] = "ended" <=> loop[h] = "ended"
      /\ \A h \in Callers : h # g => loop'[h] = loop[h]
      /\ loop'[g] = l
  BY <1>1 DEF Spawned
<1>3. SpawnInv'
  BY <1>1, <1>2 DEF ReaderInv, SpawnInv
<1>4. DoneInv'
  BY <1>1, <1>2 DEF ReaderInv, DoneInv
<1>5. ServeInv'
  BY <1>2 DEF ReaderInv, ServeInv
<1>6. LockInv'
  BY <1>1 DEF ReaderInv, LockInv
<1>. QED  BY <1>3, <1>4, <1>5, <1>6 DEF ReaderInv

(* The goroutine ends: there is no other, so r.done is closed once         *)
(* (:86, :105-107).                                                        *)
LEMMA LoopEnds ==
    ASSUME ReaderInv, NEW g \in Callers, cancelled,
           loop[g] \in {"returned", "select"}, Goto(g, "ended"),
           UnchangedByLoop, doneClosed' = doneClosed + 1,
           UNCHANGED server, States'
    PROVE  ReaderInv'
<1>1. /\ UNCHANGED <<mu, isStarted, closed, cancelled, pc, server>>
      /\ loop' = [loop EXCEPT ![g] = "ended"]
      /\ loop \in [Callers -> {"none", "top", "listen", "serve", "returned",
                               "select", "ended"}]
  BY DEF UnchangedByLoop, Goto, lock_vars, call_vars, ReaderInv, States
<1>2. \A h \in Callers : Spawned(h) => h = g
  BY DEF ReaderInv, SpawnInv, Spawned
<1>3. /\ doneClosed = 0
      /\ \A h \in Callers : loop[h] # "ended"
  BY <1>2 DEF ReaderInv, DoneInv, Spawned
<1>4. /\ loop'[g] = "ended"
      /\ \A h \in Callers : h # g => loop'[h] = loop[h]
      /\ \A h \in Callers : Spawned(h)' <=> Spawned(h)
  BY <1>1 DEF Spawned
<1>5. SpawnInv'
  BY <1>1, <1>4 DEF ReaderInv, SpawnInv
<1>6. DoneInv'
  BY <1>1, <1>3, <1>4 DEF ReaderInv, DoneInv
<1>7. ServeInv'
  BY <1>1, <1>4 DEF ReaderInv, ServeInv
<1>8. LockInv'
  BY <1>1, <1>3 DEF ReaderInv, LockInv
<1>. QED  BY <1>5, <1>6, <1>7, <1>8 DEF ReaderInv

(* The start of a call and the end of a context touch none of this.        *)
LEMMA CallQuiet ==
    ASSUME ReaderInv, States', UNCHANGED <<lock_vars, doneClosed, loop_vars>>,
           \A g \in Callers : pc'[g] = "join" <=> pc[g] = "join"
    PROVE  ReaderInv'
<1>1. UNCHANGED <<mu, isStarted, closed, cancelled, doneClosed, loop, server>>
  BY DEF lock_vars, loop_vars
<1>2. SpawnInv' /\ DoneInv' /\ ServeInv'
  BY <1>1 DEF ReaderInv, SpawnInv, DoneInv, ServeInv, Spawned
<1>3. LockInv'
  BY <1>1 DEF ReaderInv, LockInv
<1>. QED  BY <1>2, <1>3 DEF ReaderInv

(* Every step keeps the states of the calls and of the goroutines.         *)
LEMMA StatesStep ==
    ASSUME States, [Next]_vars
    PROVE  States'
<1> USE DEF States, lock_vars, call_vars, loop_vars
<1>1. ASSUME NEW g \in Callers, Call(g, "start") \/ Call(g, "shutdown")
      PROVE  States'
  BY <1>1 DEF Call
<1>2. ASSUME NEW g \in Callers, Start(g) PROVE States'
  BY <1>2 DEF Start, Return
<1>3. ASSUME NEW g \in Callers, Shutdown(g) PROVE States'
  BY <1>3 DEF Shutdown, Return
<1>4. ASSUME NEW g \in Callers, Join(g) PROVE States'
  BY <1>4 DEF Join, Return
<1>5. ASSUME NEW g \in Callers, NewServer(g) \/ Listen(g) PROVE States'
  BY <1>5 DEF NewServer, Listen, Goto, UnchangedByLoop
<1>6. ASSUME NEW g \in Callers, ListenFails(g) \/ ServerClosed(g) PROVE States'
  BY <1>6 DEF ListenFails, ServerClosed, Goto, UnchangedByLoop
<1>7. ASSUME NEW g \in Callers, Stop(g) PROVE States'
  BY <1>7 DEF Stop, Goto, UnchangedByLoop
<1>8. ASSUME NEW g \in Callers, End(g) \/ Retry(g) PROVE States'
  BY <1>8 DEF End, Retry, Goto, UnchangedByLoop
<1>9. ASSUME NEW g \in Callers, AfterFunc(g) PROVE States'
  BY <1>9 DEF AfterFunc, UnchangedByLoop
<1>10. ASSUME NEW g \in Callers, Cancel(g) PROVE States'
  BY <1>10 DEF Cancel
<1>11. CASE UNCHANGED vars
  BY <1>11 DEF vars
<1>. QED
  BY <1>1, <1>2, <1>3, <1>4, <1>5, <1>6, <1>7, <1>8, <1>9, <1>10, <1>11
     DEF Next, CallStep, LoopStep

LEMMA ReaderStep ==
    ASSUME ReaderInv, [Next]_vars
    PROVE  ReaderInv'
<1>1. States /\ States'
  BY StatesStep DEF ReaderInv
<1>types. /\ mu \in Callers \cup {Nil}
          /\ pc \in [Callers -> {"idle", "start", "shutdown", "join"}]
          /\ loop \in [Callers -> {"none", "top", "listen", "serve",
                                   "returned", "select", "ended"}]
          /\ server \in [Callers -> {"none", "new", "listening", "shut",
                                     "failed"}]
  BY <1>1 DEF States
<1>2. ASSUME NEW g \in Callers, Call(g, "start") \/ Call(g, "shutdown")
      PROVE  ReaderInv'
  <2>1. \A h \in Callers : pc'[h] = "join" <=> pc[h] = "join"
    BY <1>types, <1>2 DEF Call
  <2>. QED  BY <1>1, <1>2, <2>1, CallQuiet DEF Call
<1>3. ASSUME NEW g \in Callers, Start(g) PROVE ReaderInv'
  <2>1. /\ UNCHANGED <<mu, closed, cancelled, doneClosed, server>>
        /\ pc[g] = "start" /\ pc' = [pc EXCEPT ![g] = "idle"]
    BY <1>3 DEF Start, Return
  <2>2. LockInv'
    BY <1>types, <2>1 DEF ReaderInv, LockInv
  <2>3. CASE UNCHANGED <<isStarted, loop>>
    BY <1>1, <2>1, <2>2, <2>3
       DEF ReaderInv, SpawnInv, DoneInv, ServeInv, Spawned
  <2>4. CASE ~UNCHANGED <<isStarted, loop>>
    <3>1. ~isStarted /\ isStarted' = TRUE /\ loop' = [loop EXCEPT ![g] = "top"]
      BY <1>3, <2>4 DEF Start
    <3>2. \A h \in Callers : loop[h] = "none"
      BY <3>1 DEF ReaderInv, SpawnInv, Spawned
    <3>3. loop'[g] = "top" /\ \A h \in Callers : h # g => loop'[h] = "none"
      BY <1>types, <3>1, <3>2
    <3>4. SpawnInv'
      BY <3>1, <3>3 DEF SpawnInv, Spawned
    <3>5. DoneInv'
      BY <2>1, <3>2, <3>3 DEF ReaderInv, DoneInv
    <3>6. ServeInv'
      BY <2>1, <3>2 DEF ReaderInv, ServeInv
    <3>. QED  BY <1>1, <2>2, <3>4, <3>5, <3>6 DEF ReaderInv
  <2>. QED  BY <2>3, <2>4
<1>4. ASSUME NEW g \in Callers, Shutdown(g) PROVE ReaderInv'
  <2>1. CASE UNCHANGED lock_vars
    <3>1. closed /\ pc[g] = "shutdown" /\ pc' = [pc EXCEPT ![g] = "idle"]
          /\ UNCHANGED <<lock_vars, doneClosed, loop_vars>>
      BY <1>4, <2>1 DEF Shutdown, Return, lock_vars
    <3>2. \A h \in Callers : pc'[h] = "join" <=> pc[h] = "join"
      BY <1>types, <3>1
    <3>. QED  BY <1>1, <3>1, <3>2, CallQuiet
  <2>2. CASE ~UNCHANGED lock_vars
    <3>1. /\ mu = Nil /\ mu' = g /\ closed' = TRUE /\ cancelled' = TRUE
          /\ pc' = [pc EXCEPT ![g] = "join"]
          /\ UNCHANGED <<isStarted, doneClosed, loop, server>>
      BY <1>4, <2>2 DEF Shutdown, loop_vars
    <3>2. LockInv'
      BY <1>types, <3>1, ReaderAssumption DEF ReaderInv, LockInv
    <3>3. SpawnInv' /\ DoneInv' /\ ServeInv'
      BY <3>1 DEF ReaderInv, SpawnInv, DoneInv, ServeInv, Spawned
    <3>. QED  BY <1>1, <3>2, <3>3 DEF ReaderInv
  <2>. QED  BY <2>1, <2>2
<1>5. ASSUME NEW g \in Callers, Join(g) PROVE ReaderInv'
  <2>1. /\ UNCHANGED <<isStarted, closed, cancelled, doneClosed, loop, server>>
        /\ pc[g] = "join" /\ doneClosed > 0
        /\ mu' = Nil /\ pc' = [pc EXCEPT ![g] = "idle"]
    BY <1>5 DEF Join, Return, loop_vars
  <2>2. doneClosed = 1
    BY <2>1 DEF ReaderInv, DoneInv
  <2>3. LockInv'
    BY <1>types, <2>1, <2>2, ReaderAssumption DEF ReaderInv, LockInv
  <2>4. SpawnInv' /\ DoneInv' /\ ServeInv'
    BY <2>1 DEF ReaderInv, SpawnInv, DoneInv, ServeInv, Spawned
  <2>. QED  BY <1>1, <2>3, <2>4 DEF ReaderInv
<1>6. ASSUME NEW g \in Callers,
             NewServer(g) \/ Listen(g) \/ ListenFails(g) \/ ServerClosed(g)
                 \/ Retry(g)
      PROVE  ReaderInv'
  <2>1. \A h \in Callers : h # g => server'[h] = server[h]
    BY <1>types, <1>6
       DEF NewServer, Listen, ListenFails, ServerClosed, Retry
  <2>2. CASE NewServer(g)
    <3>1. server'[g] = "new"
      BY <1>types, <2>2 DEF NewServer
    <3>. QED  BY <1>1, <2>1, <2>2, <3>1, LoopQuiet DEF NewServer
  <2>3. CASE Listen(g)
    BY <1>1, <2>1, <2>3, LoopQuiet DEF Listen
  <2>4. CASE ListenFails(g)
    <3>1. server'[g] = "failed"
      BY <1>types, <2>4 DEF ListenFails
    <3>. QED  BY <1>1, <2>1, <2>4, <3>1, LoopQuiet DEF ListenFails
  <2>5. CASE ServerClosed(g)
    BY <1>1, <2>1, <2>5, LoopQuiet DEF ServerClosed
  <2>6. CASE Retry(g)
    <3>1. server'[g] # "listening"
      BY <2>6 DEF Retry, ReaderInv, ServeInv
    <3>. QED  BY <1>1, <2>1, <2>6, <3>1, LoopQuiet DEF Retry
  <2>. QED  BY <1>6, <2>2, <2>3, <2>4, <2>5, <2>6
<1>7. ASSUME NEW g \in Callers, Stop(g) PROVE ReaderInv'
  <2>1. CASE cancelled
    BY <1>1, <1>7, <2>1, LoopEnds DEF Stop
  <2>2. CASE ~cancelled
    <3>1. server'[g] # "listening"
      BY <1>7 DEF Stop, ReaderInv, ServeInv
    <3>. QED  BY <1>1, <1>7, <2>2, <3>1, LoopQuiet DEF Stop
  <2>. QED  BY <2>1, <2>2
<1>8. ASSUME NEW g \in Callers, End(g) PROVE ReaderInv'
  BY <1>1, <1>8, LoopEnds DEF End
<1>9. ASSUME NEW g \in Callers, AfterFunc(g) PROVE ReaderInv'
  <2>1. UNCHANGED <<mu, isStarted, closed, cancelled, doneClosed, pc, loop>>
    BY <1>9 DEF AfterFunc, UnchangedByLoop, lock_vars, call_vars
  <2>2. \A h \in Callers : server'[h] = "listening" => server[h] = "listening"
    BY <1>types, <1>9 DEF AfterFunc
  <2>3. SpawnInv' /\ DoneInv' /\ ServeInv' /\ LockInv'
    BY <2>1, <2>2 DEF ReaderInv, SpawnInv, DoneInv, ServeInv, LockInv, Spawned
  <2>. QED  BY <1>1, <2>3 DEF ReaderInv
<1>10. ASSUME NEW g \in Callers, Cancel(g) PROVE ReaderInv'
  BY <1>1, <1>10, CallQuiet DEF Cancel, call_vars
<1>11. CASE UNCHANGED vars
  BY <1>1, <1>11, CallQuiet DEF vars, call_vars
<1>. QED
  BY <1>2, <1>3, <1>4, <1>5, <1>6, <1>7, <1>8, <1>9, <1>10, <1>11
     DEF Next, CallStep, LoopStep

LEMMA Reader == Spec => []ReaderInv
<1>1. Init => ReaderInv
  <2> SUFFICES ASSUME Init PROVE ReaderInv
    OBVIOUS
  <2>1. States
    BY DEF Init, States
  <2>2. SpawnInv /\ DoneInv /\ ServeInv /\ LockInv
    BY ReaderAssumption
       DEF Init, SpawnInv, DoneInv, ServeInv, LockInv, Spawned
  <2>. QED  BY <2>1, <2>2 DEF ReaderInv
<1>. QED  BY <1>1, ReaderStep, PTL DEF Spec

----------------------------------------------------------------------------
(* r.done is closed at most once: a second close would panic               *)
(* (prometheus/exporter.go:86).                                            *)
THEOREM Typing == Spec => []TypeOK
<1>1. ReaderInv => TypeOK
  BY DEF ReaderInv, States, DoneInv, TypeOK
<1>. QED  BY <1>1, Reader, PTL

(* However many goroutines call Start, one serves                          *)
(* (prometheus/exporter.go:81-87).                                         *)
THEOREM OneServes == Spec => []OneLoop
<1>1. ReaderInv => OneLoop
  BY DEF ReaderInv, SpawnInv, Spawned, OneLoop, Alive
<1>. QED  BY <1>1, Reader, PTL

(* Whoever finds the reader closed finds its server gone as well: the      *)
(* mutex is free only when r.done is closed, so the one goroutine there is *)
(* has ended (prometheus/exporter.go:110-120).                             *)
THEOREM ClosedIsStopped == Spec => []ClosedMeansStopped
<1>1. ReaderInv => ClosedMeansStopped
  <2> SUFFICES ASSUME ReaderInv, closed, mu = Nil, NEW g \in Callers
               PROVE  ~Alive(g) /\ server[g] # "listening"
    BY DEF ClosedMeansStopped
  <2>1. PICK h \in Callers : loop[h] = "ended"
    BY DEF ReaderInv, LockInv, DoneInv
  <2>2. loop[g] \in {"none", "ended"}
    BY <2>1 DEF ReaderInv, SpawnInv, Spawned
  <2>. QED  BY <2>2 DEF ReaderInv, ServeInv, Alive
<1>. QED  BY <1>1, Reader, PTL

(* A Start that answers nil leaves a goroutine at work, also when it has   *)
(* waited for the mutex behind a Shutdown (prometheus/exporter.go:74-87):  *)
(* the goroutine ends only after the reader has been closed, and then      *)
(* Start answers an error.                                                 *)
THEOREM StartIsAnswered == Spec => StartedMeansAlive
<1> DEFINE AtWork ==
        \A g \in Callers :
          pc[g] = "start" /\ pc'[g] = "idle" /\ ret'[g] = "started"
          => \E h \in Callers : loop'[h] \notin {"none", "ended"}
<1>1. ReaderInv /\ [Next]_vars => [AtWork]_vars
  <2> SUFFICES ASSUME ReaderInv, Next, NEW g \in Callers,
                      pc[g] = "start", pc'[g] = "idle", ret'[g] = "started"
               PROVE  \E h \in Callers : loop'[h] \notin {"none", "ended"}
    OBVIOUS
  <2>1. pc \in [Callers -> {"idle", "start", "shutdown", "join"}]
        /\ ret \in [Callers -> {"none", "started", "already closed", "shut"}]
        /\ loop \in [Callers -> {"none", "top", "listen", "serve", "returned",
                                 "select", "ended"}]
    BY DEF ReaderInv, States
  <2>2. Start(g)
    <3>1. PICK h \in Callers : \/ Call(h, "start") \/ Call(h, "shutdown")
                               \/ CallStep(h) \/ LoopStep(h)
                               \/ AfterFunc(h) \/ Cancel(h)
      BY DEF Next
    <3>2. CASE UNCHANGED pc
      BY <3>2
    <3>3. CASE Call(h, "start") \/ Call(h, "shutdown")
      BY <2>1, <3>3 DEF Call
    <3>4. CASE CallStep(h)
      BY <2>1, <3>4 DEF CallStep, Start, Shutdown, Join, Return
    <3>5. CASE LoopStep(h) \/ AfterFunc(h) \/ Cancel(h)
      BY <3>2, <3>5
         DEF LoopStep, NewServer, Listen, ListenFails, ServerClosed, Stop, End,
             Retry, AfterFunc, Cancel, UnchangedByLoop, call_vars
    <3>. QED  BY <3>1, <3>3, <3>4, <3>5
  <2>3. ~closed
    BY <2>1, <2>2 DEF Start, Return
  <2>4. \A h \in Callers : loop[h] # "ended"
    BY <2>3 DEF ReaderInv, DoneInv, LockInv
  <2>5. CASE isStarted
    <3>1. PICK h \in Callers : loop[h] # "none"
      BY <2>5 DEF ReaderInv, SpawnInv, Spawned
    <3>2. loop' = loop
      BY <2>2, <2>3, <2>5 DEF Start
    <3>. QED  BY <2>4, <3>1, <3>2
  <2>6. CASE ~isStarted
    BY <2>1, <2>2, <2>3, <2>6 DEF Start
  <2>. QED  BY <2>5, <2>6
<1>. QED  BY <1>1, Reader, PTL DEF Spec, StartedMeansAlive

----------------------------------------------------------------------------
(* What a resolver sees of the reader. *)

Serving == \E g \in Callers : Alive(g)

(* The reader as a component: it serves or does not, it is closed or not.  *)
LEMMA ServerStates ==
    ASSUME States
    PROVE  Component!ComponentTypeOK
BY DEF Component!ComponentTypeOK, Component!Kinds

(* A step that changes neither is none of the component.                   *)
LEMMA ServerQuiet ==
    ASSUME closed' = closed, Serving' <=> Serving
    PROVE  UNCHANGED Component!components_vars
BY DEF Component!components_vars, Serving, Alive

(* Shutdown closes the reader and leaves the goroutine alone; only a Start *)
(* of a reader that is not closed spawns it, and it ends only in a reader  *)
(* that is closed (:76-87, :102-107, :113-116).                            *)
LEMMA ServerChanges ==
    ASSUME ReaderInv, [Next]_vars
    PROVE  \/ closed' = closed /\ (Serving' <=> Serving)
           \/ ~closed /\ closed' /\ (Serving' <=> Serving)
           \/ ~closed /\ ~closed' /\ ~Serving /\ Serving'
           \/ closed /\ closed' /\ Serving /\ ~Serving'
<1>1. /\ loop \in [Callers -> {"none", "top", "listen", "serve", "returned",
                               "select", "ended"}]
      /\ closed \in BOOLEAN
      /\ closed <=> cancelled
  BY DEF ReaderInv, States, LockInv
<1>2. ASSUME UNCHANGED loop PROVE Serving' <=> Serving
  BY <1>2 DEF Serving, Alive
<1>3. ASSUME NEW g \in Callers, Start(g), loop' # loop
      PROVE  ~closed /\ ~closed' /\ ~Serving /\ Serving'
  <2>1. ~closed /\ closed' = closed /\ ~isStarted
        /\ loop' = [loop EXCEPT ![g] = "top"]
    BY <1>3 DEF Start
  <2>2. ~Serving
    BY <2>1 DEF ReaderInv, SpawnInv, Spawned, Serving, Alive
  <2>3. loop'[g] = "top"
    BY <1>1, <2>1
  <2>. QED  BY <2>1, <2>2, <2>3 DEF Serving, Alive
<1>4. ASSUME NEW g \in Callers, Shutdown(g) \/ Join(g)
      PROVE  /\ loop' = loop
             /\ closed' = closed \/ (~closed /\ closed')
  BY <1>4 DEF Shutdown, Join, lock_vars, loop_vars
<1>5. ASSUME NEW g \in Callers, LoopStep(g)
      PROVE  /\ closed' = closed
             /\ (Serving' <=> Serving) \/ (closed /\ Serving /\ ~Serving')
  <2>1. Alive(g) /\ closed' = closed
    BY <1>5 DEF LoopStep, NewServer, Listen, ListenFails, ServerClosed, Stop,
                End, Retry, Alive, UnchangedByLoop, lock_vars
  <2>2. PICK l \in {"top", "listen", "serve", "returned", "select", "ended"} :
            loop' = [loop EXCEPT ![g] = l] /\ (l = "ended" => cancelled)
    BY <1>5 DEF LoopStep, NewServer, Listen, ListenFails, ServerClosed, Stop,
                End, Retry, Goto
  <2>3. Serving
    BY <2>1 DEF Serving
  <2>4. l # "ended" => Serving'
    BY <1>1, <2>2 DEF Serving, Alive
  <2>. QED  BY <1>1, <2>1, <2>2, <2>3, <2>4
<1>6. ASSUME NEW g \in Callers,
             Call(g, "start") \/ Call(g, "shutdown") \/ AfterFunc(g) \/ Cancel(g)
      PROVE  UNCHANGED <<loop, closed>>
  BY <1>6 DEF Call, AfterFunc, Cancel, UnchangedByLoop, lock_vars, loop_vars
<1>7. ASSUME NEW g \in Callers, Start(g) PROVE closed' = closed
  BY <1>7 DEF Start
<1>8. CASE UNCHANGED vars
  BY <1>2, <1>8 DEF vars, lock_vars, loop_vars
<1>9. ASSUME NEW g \in Callers, CallStep(g)
      PROVE  \/ closed' = closed /\ (Serving' <=> Serving)
             \/ ~closed /\ closed' /\ (Serving' <=> Serving)
             \/ ~closed /\ ~closed' /\ ~Serving /\ Serving'
  BY <1>2, <1>3, <1>4, <1>7, <1>9 DEF CallStep
<1>. QED  BY <1>2, <1>5, <1>6, <1>8, <1>9 DEF Next

LEMMA ServerStep ==
    ASSUME ReaderInv, [Next]_vars
    PROVE  [Component!ServerNext("reader")]_(Component!components_vars)
<1>1. CASE closed' = closed /\ (Serving' <=> Serving)
  BY <1>1, ServerQuiet
<1>2. CASE ~closed /\ closed' /\ (Serving' <=> Serving)
  BY <1>2 DEF Component!ServerNext, Component!ShutdownBlocks, Serving, Alive
<1>3. CASE ~closed /\ ~closed' /\ ~Serving /\ Serving'
  BY <1>3 DEF Component!ServerNext, Component!StartOk, Serving, Alive
<1>4. CASE closed /\ closed' /\ Serving /\ ~Serving'
  BY <1>4 DEF Component!ServerNext, Component!ServerEnds, Serving, Alive
<1>. QED  BY <1>1, <1>2, <1>3, <1>4, ServerChanges

(* To a resolver the reader is a component of kind "server": it runs from  *)
(* the first Start until a Shutdown ends it, and never ends by itself      *)
(* (prometheus/exporter.go:71-121).  A Shutdown enters before the server   *)
(* is gone; everything between is a stutter of the component.              *)
THEOREM ReaderIsServer == Spec => IsServer
<1>1. Init => Component!ComponentTypeOK
  BY ServerStates DEF Init, States
<1>2. ReaderInv /\ [Next]_vars
        => [Component!ServerNext("reader")]_(Component!components_vars)
  BY ServerStep
<1>. QED  BY <1>1, <1>2, Reader, PTL DEF Spec, IsServer
=============================================================================
