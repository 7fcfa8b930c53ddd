--------------------------- MODULE ResolverProofs ---------------------------
(***************************************************************************)
(* What is proved of the resolver for every set of providers, exporters,   *)
(* processors and component instances.                                     *)
(***************************************************************************)
EXTENDS Resolver, SequenceTheorems, TLAPS

USE DEF components_vars, build_vars, walk_vars, provider_vars

(* A call that ends leaves well-typed, empty local variables.              *)
LEMMA EmptyLocals ==
    /\ NoComponents \in [Eids -> Cids \cup {Nil}]
    /\ <<>> \in Seq(Procs)
    /\ <<>> \in Seq(Eids)
    /\ <<>> \in Seq(Cids)
BY DEF NoComponents

(* The entry an iteration is at names a component of a registered provider.*)
LEMMA EntryType ==
    ASSUME TypeOK, NEW pe \in NextEntries
    PROVE  /\ pe \in registered \X Eids
           /\ pe \in Pids \X Eids
           /\ ComponentAt(pe) \in Cids
           /\ pe \in Entries
           /\ pe \notin visited
BY DEF NextEntries, Unvisited, Entries, ComponentAt, TypeOK

(* What an exporter offers to a signal is a kind of component, or nothing. *)
LEMMA OfferType ==
    ASSUME NEW e \in Eids, NEW s \in Signals
    PROVE  Offer(e, s) \in Kinds \cup {Nil}
BY ResolverAssumption DEF Offer, Methods, Signals

(* Every call of the resolver keeps its tables and the components' states  *)
(* well typed: names of components are instances, never Nil.               *)
THEOREM Typing == Spec => []TypeOK
<1>1. Init => TypeOK
  <2> SUFFICES ASSUME Init PROVE TypeOK
    OBVIOUS
  <2>1. ComponentTypeOK
    BY DEF Init, ComponentInit, ComponentTypeOK
  <2>2. before \in [running : SUBSET Cids, shut : SUBSET Cids]
    BY DEF Init
  <2> QED
    BY <2>1, <2>2, EmptyLocals DEF Init, TypeOK, Ops, Rets
<1>2. TypeOK /\ [Next]_vars => TypeOK'
  <2> SUFFICES ASSUME TypeOK, [Next]_vars PROVE TypeOK'
    OBVIOUS
  <2> USE DEF TypeOK, ComponentTypeOK
  <2>1. ASSUME NEW p \in Pids, Ask(p) PROVE TypeOK'
    BY <2>1, ResolverAssumption, EmptyLocals
       DEF Ask, Cached, NotConfigured, BeginBuild, Answer, Ops, Rets
  <2>2. CASE Start \/ Shutdown
    <3>1. PICK name \in {"start", "shutdown"} : BeginWalk(name)
      BY <2>2 DEF Start, Shutdown
    <3>2. before' \in [running : SUBSET Cids, shut : SUBSET Cids]
      BY <3>1 DEF BeginWalk
    <3> QED
      BY <3>1, <3>2, EmptyLocals DEF BeginWalk, Ops, Rets
  <2>3. CASE ApplyProcessor
    BY <2>3 DEF ApplyProcessor
  <2>4. CASE Register
    BY <2>4, EmptyLocals DEF Register, ReturnFromBuild, Answer, Ops, Rets
  <2>5. CASE GiveUp
    BY <2>5, EmptyLocals DEF GiveUp, ReturnFromBuild, Answer, Ops, Rets
  <2>6. ASSUME NEW c \in Cids, BuildExporter(c) PROVE TypeOK'
    <3>1. /\ Head(exps) \in Eids
          /\ SignalOf[target] \in Signals
      BY <2>6, ResolverAssumption DEF BuildExporter
    <3>2. Offer(Head(exps), SignalOf[target]) \in Kinds
      BY <2>6, <3>1, OfferType DEF BuildExporter
    <3> QED
      BY <2>6, <3>1, <3>2 DEF BuildExporter, New
  <2>7. ASSUME NEW pe \in NextEntries, SkipComponent(pe) PROVE TypeOK'
    BY <2>7, EntryType DEF SkipComponent, Visit
  <2>8. ASSUME NEW pe \in NextEntries, StartComponent(pe) PROVE TypeOK'
    BY <2>8, EntryType DEF StartComponent, StartOk, Visit
  <2>9. ASSUME NEW pe \in NextEntries, StartComponentFails(pe) PROVE TypeOK'
    BY <2>9, EntryType DEF StartComponentFails, StartErr, Visit, Ops
  <2>10. CASE StartDone \/ RollbackDone \/ ShutdownDone
    BY <2>10, EmptyLocals DEF StartDone, RollbackDone, ShutdownDone,
       ReturnFromWalk, Answer, Ops, Rets
  <2>11. CASE Rollback
    BY <2>11 DEF Rollback, ShutdownReturns, ShutdownBlocks
  <2>12. ASSUME NEW pe \in NextEntries, ShutdownComponent(pe) PROVE TypeOK'
    BY <2>12, EntryType
       DEF ShutdownComponent, ShutdownReturns, ShutdownBlocks, Visit
  <2>13. CASE WaitServer
    BY <2>13 DEF WaitServer, ServerEnds
  <2>14. CASE Cancel
    BY <2>14 DEF Cancel
  <2>15. CASE UNCHANGED vars
    BY <2>15 DEF vars
  <2> QED
    BY <2>1, <2>2, <2>3, <2>4, <2>5, <2>6, <2>7, <2>8, <2>9, <2>10, <2>11,
       <2>12, <2>13, <2>14, <2>15
       DEF Next, InCall, Build, StartStep, ShutdownStep, Tracer, Meter, Logger
<1> QED
  BY <1>1, <1>2, PTL DEF Spec

----------------------------------------------------------------------------
(* The inductive invariant behind what Start and Shutdown promise.         *)

(* A call that has not answered has no result, and only the two walks that *)
(* shut components ever wait for a server.                                 *)
CallInv ==
    /\ op # "idle" => ret = "none"
    /\ waiting # Nil => op \in {"rollback", "shutdown"}

(* What the call in progress has shut is down, but for the server it waits *)
(* for.                                                                    *)
ShutInv ==
    /\ op = "start" => shut = before.shut
    /\ op \in {"rollback", "shutdown"} =>
          \A c \in shut \ before.shut : c \in running => c = waiting

(* What Start has brought up is still on its list, or being waited for.    *)
RollbackInv ==
    op \in {"start", "rollback"} =>
        \A c \in running : \/ c \in before.running \cup before.shut
                           \/ c = waiting
                           \/ \E i \in DOMAIN started : started[i] = c

StartInv ==
    op = "start" =>
        \A pe \in Entries \cap visited :
            kind[ComponentAt(pe)] \in {"deferred", "server"}
            => ComponentAt(pe) \in running

ShutdownInv ==
    op = "shutdown" => \A pe \in Entries \cap visited : ComponentAt(pe) \in shut

WalkInv == CallInv /\ ShutInv /\ RollbackInv /\ StartInv /\ ShutdownInv
Promises == RollbackComplete /\ StartAllUp /\ ShutdownComplete

(* The list of started components only grows at its end and shrinks at its *)
(* head.                                                                   *)
LEMMA StartedAppend ==
    ASSUME NEW s \in Seq(Cids), NEW c \in Cids
    PROVE  /\ \A i \in DOMAIN s : \E j \in DOMAIN Append(s, c) :
                 Append(s, c)[j] = s[i]
           /\ \E j \in DOMAIN Append(s, c) : Append(s, c)[j] = c
           /\ \A j \in DOMAIN Append(s, c) :
                 Append(s, c)[j] = c \/ \E i \in DOMAIN s : s[i] = Append(s, c)[j]
<1>1. /\ Append(s, c) \in Seq(Cids)
      /\ Len(Append(s, c)) = Len(s) + 1
      /\ \A i \in 1..Len(s) : Append(s, c)[i] = s[i]
      /\ Append(s, c)[Len(s) + 1] = c
  BY AppendProperties
<1>2. /\ DOMAIN s = 1..Len(s)
      /\ DOMAIN Append(s, c) = 1..(Len(s) + 1)
      /\ Len(s) \in Nat
  BY <1>1
<1> QED
  BY <1>1, <1>2

LEMMA StartedTail ==
    ASSUME NEW s \in Seq(Cids), s # <<>>,
           NEW i \in DOMAIN s
    PROVE  s[i] = Head(s) \/ \E j \in DOMAIN Tail(s) : Tail(s)[j] = s[i]
<1>1. /\ DOMAIN s = 1..Len(s)
      /\ Len(s) \in Nat
      /\ Tail(s) \in Seq(Cids)
      /\ Len(Tail(s)) = Len(s) - 1
      /\ \A j \in 1..Len(Tail(s)) : Tail(s)[j] = s[j + 1]
      /\ Head(s) = s[1]
  BY HeadTailProperties
<1>2. CASE i = 1
  BY <1>1, <1>2
<1>3. CASE i # 1
  <2>1. i - 1 \in 1..Len(Tail(s)) /\ Tail(s)[i - 1] = s[i]
    BY <1>1, <1>3
  <2>2. DOMAIN Tail(s) = 1..Len(Tail(s))
    BY <1>1
  <2> QED
    BY <2>1, <2>2
<1> QED
  BY <1>2, <1>3

(* Actions that leave the tables and the components alone.                 *)
LEMMA WalkInvQuiet ==
    ASSUME WalkInv, Promises,
           UNCHANGED <<components_vars, provider_vars, op, ret, walk_vars,
                       before>>
    PROVE  WalkInv' /\ Promises'
BY DEF WalkInv, CallInv, ShutInv, RollbackInv, StartInv, ShutdownInv, Promises,
       RollbackComplete, StartAllUp, ShutdownComplete, Managed, Entries,
       ComponentAt

LEMMA WalkInvStep ==
    ASSUME TypeOK, WalkInv, Promises, [Next]_vars
    PROVE  WalkInv' /\ Promises'
<1> USE DEF WalkInv, Promises
<1>1. ASSUME NEW p \in Pids, Ask(p) PROVE WalkInv' /\ Promises'
  BY <1>1 DEF Ask, Cached, NotConfigured, BeginBuild, Answer, CallInv, ShutInv,
     RollbackInv, StartInv, ShutdownInv, RollbackComplete, StartAllUp,
     ShutdownComplete
<1>2. CASE Start \/ Shutdown
  <2>1. PICK name \in {"start", "shutdown"} : BeginWalk(name)
    BY <1>2 DEF Start, Shutdown
  <2> QED
    BY <2>1 DEF BeginWalk, CallInv, ShutInv, RollbackInv, StartInv,
       ShutdownInv, RollbackComplete, StartAllUp, ShutdownComplete
<1>3. CASE ApplyProcessor
  BY <1>3, WalkInvQuiet DEF ApplyProcessor
<1>4. CASE Register \/ GiveUp
  BY <1>4 DEF Register, GiveUp, ReturnFromBuild, Answer, CallInv, ShutInv,
     RollbackInv, StartInv, ShutdownInv, RollbackComplete, StartAllUp,
     ShutdownComplete
<1>5. ASSUME NEW c \in Cids, BuildExporter(c) PROVE WalkInv' /\ Promises'
  BY <1>5 DEF BuildExporter, New, CallInv, ShutInv, RollbackInv, StartInv,
     ShutdownInv, RollbackComplete, StartAllUp, ShutdownComplete
<1>6. ASSUME NEW pe \in NextEntries, SkipComponent(pe)
      PROVE  WalkInv' /\ Promises'
  <2>1. StartInv'
    BY <1>6 DEF SkipComponent, Visit, HasStart, StartInv, Entries, ComponentAt
  <2> QED
    BY <1>6, <2>1 DEF SkipComponent, Visit, CallInv, ShutInv, RollbackInv,
       ShutdownInv, RollbackComplete, StartAllUp, ShutdownComplete
<1>7. ASSUME NEW pe \in NextEntries, StartComponent(pe)
      PROVE  WalkInv' /\ Promises'
  <2> DEFINE d == ComponentAt(pe)
  <2>1. d \in Cids /\ started \in Seq(Cids) /\ kind[d] \in Kinds \cup {"unbuilt"}
    BY EntryType DEF TypeOK, ComponentTypeOK
  <2>2. /\ running \subseteq running'
        /\ running' \subseteq running \cup {d}
        /\ kind[d] \in {"deferred", "server"} => d \in running'
    BY <1>7, <2>1 DEF StartComponent, StartOk
  <2>3. RollbackInv'
    <3>1. /\ op = "start" /\ UNCHANGED <<op, waiting, before>>
          /\ started' = Append(started, d)
      BY <1>7 DEF StartComponent, Visit
    <3>2. ASSUME NEW c \in running'
          PROVE  \/ c \in before.running \cup before.shut
                 \/ c = waiting
                 \/ \E i \in DOMAIN started' : started'[i] = c
      <4>1. CASE c = d
        BY <2>1, <3>1, <4>1, StartedAppend
      <4>2. ASSUME NEW i \in DOMAIN started, started[i] = c
            PROVE  \E j \in DOMAIN started' : started'[j] = c
        BY <2>1, <3>1, <4>2, StartedAppend
      <4> QED
        BY <2>2, <3>1, <4>1, <4>2 DEF RollbackInv
    <3> QED
      BY <3>1, <3>2 DEF RollbackInv
  <2>4. StartInv'
    BY <1>7, <2>2 DEF StartComponent, StartOk, Visit, StartInv, Entries,
       ComponentAt
  <2>5. CallInv' /\ ShutInv' /\ ShutdownInv'
    BY <1>7 DEF StartComponent, StartOk, Visit, CallInv, ShutInv, ShutdownInv
  <2> QED
    BY <1>7, <2>3, <2>4, <2>5 DEF StartComponent, Visit, CallInv,
       RollbackComplete, StartAllUp, ShutdownComplete
<1>8. ASSUME NEW pe \in NextEntries, StartComponentFails(pe)
      PROVE  WalkInv' /\ Promises'
  BY <1>8 DEF StartComponentFails, StartErr, Visit, CallInv, ShutInv,
     RollbackInv, StartInv, ShutdownInv, RollbackComplete, StartAllUp,
     ShutdownComplete
<1>9. CASE StartDone
  <2>1. \A c \in Managed : kind[c] \in {"deferred", "server"} => c \in running
    BY <1>9 DEF StartDone, StartInv, Managed, Unvisited
  <2>2. StartAllUp'
    BY <1>9, <2>1 DEF StartDone, ReturnFromWalk, Answer, StartAllUp, Managed,
       Entries, ComponentAt
  <2> QED
    BY <1>9, <2>2 DEF StartDone, ReturnFromWalk, Answer, CallInv, ShutInv,
       RollbackInv, StartInv, ShutdownInv, RollbackComplete, ShutdownComplete
<1>10. CASE Rollback
  <2> DEFINE d == Head(started)
  <2>1. /\ op = "rollback" /\ op' = "rollback" /\ waiting = Nil
        /\ ret = "none" /\ ret' = "none" /\ before' = before
        /\ started # <<>> /\ started' = Tail(started)
        /\ running' \subseteq running /\ shut' = shut \cup {d}
        /\ d \in running' => d \in shut \/ d = waiting'
    BY <1>10 DEF Rollback, ShutdownReturns, ShutdownBlocks, CallInv
  <2>2. ShutInv'
    BY <2>1, ResolverAssumption DEF ShutInv, TypeOK, ComponentTypeOK
  <2>3. RollbackInv'
    <3> SUFFICES ASSUME NEW c \in running'
                 PROVE  \/ c \in before.running \cup before.shut
                        \/ c = waiting'
                        \/ \E i \in DOMAIN started' : started'[i] = c
      BY <2>1 DEF RollbackInv
    <3>1. c \in running /\ c \in Cids /\ Nil \notin Cids
      BY <2>1, ResolverAssumption DEF TypeOK, ComponentTypeOK
    <3>2. CASE c \in before.running \cup before.shut
      BY <3>2
    <3>3. ASSUME NEW i \in DOMAIN started, started[i] = c
          PROVE  \/ c \in before.running \cup before.shut
                 \/ c = waiting'
                 \/ \E j \in DOMAIN started' : started'[j] = c
      <4>1. c = d \/ \E j \in DOMAIN started' : started'[j] = c
        BY <2>1, <3>3, StartedTail DEF TypeOK
      <4>2. c = d => c \in before.shut \/ c = waiting'
        BY <2>1, <3>1 DEF ShutInv
      <4> QED
        BY <4>1, <4>2
    <3> QED
      BY <2>1, <3>1, <3>2, <3>3 DEF RollbackInv
  <2> QED
    BY <2>1, <2>2, <2>3 DEF CallInv, StartInv, ShutdownInv,
       RollbackComplete, StartAllUp, ShutdownComplete
<1>11. CASE RollbackDone
  <2>1. running \ before.running \subseteq before.shut
    BY <1>11, ResolverAssumption
       DEF RollbackDone, RollbackInv, TypeOK, ComponentTypeOK
  <2> QED
    BY <1>11, <2>1 DEF RollbackDone, ReturnFromWalk, Answer, CallInv, ShutInv,
       RollbackInv, StartInv, ShutdownInv, RollbackComplete, StartAllUp,
       ShutdownComplete
<1>12. ASSUME NEW pe \in NextEntries, ShutdownComponent(pe)
       PROVE  WalkInv' /\ Promises'
  <2> DEFINE d == ComponentAt(pe)
  <2>1. /\ op = "shutdown" /\ op' = "shutdown" /\ waiting = Nil
        /\ ret = "none" /\ ret' = "none" /\ before' = before
        /\ running' \subseteq running /\ shut' = shut \cup {d}
        /\ d \in running' => d \in shut \/ d = waiting'
        /\ visited' = visited \cup {pe}
        /\ UNCHANGED provider_vars
    BY <1>12 DEF ShutdownComponent, ShutdownReturns, ShutdownBlocks, Visit,
       CallInv
  <2>2. ShutInv'
    BY <2>1, ResolverAssumption DEF ShutInv, TypeOK, ComponentTypeOK
  <2>3. ShutdownInv'
    BY <2>1 DEF ShutdownInv, Entries, ComponentAt
  <2> QED
    BY <2>1, <2>2, <2>3 DEF CallInv, RollbackInv, StartInv,
       RollbackComplete, StartAllUp, ShutdownComplete
<1>13. CASE ShutdownDone
  <2>1. Managed \subseteq shut
    BY <1>13 DEF ShutdownDone, ShutdownInv, Managed, Unvisited
  <2>2. Managed \cap running \subseteq before.shut
    BY <1>13, <2>1, ResolverAssumption
       DEF ShutdownDone, ShutInv, TypeOK, ComponentTypeOK
  <2>3. Managed' = Managed
    BY <1>13 DEF ShutdownDone, ReturnFromWalk, Managed, Entries, ComponentAt
  <2> QED
    BY <1>13, <2>1, <2>2, <2>3 DEF ShutdownDone, ReturnFromWalk, Answer,
       CallInv, ShutInv, RollbackInv, StartInv, ShutdownInv, RollbackComplete,
       StartAllUp, ShutdownComplete
<1>14. CASE WaitServer
  <2>1. /\ op \in {"rollback", "shutdown"} /\ op' = op
        /\ ret = "none" /\ ret' = "none"
        /\ UNCHANGED <<before, started, visited, shut, provider_vars>>
        /\ running' = running \ {waiting} /\ waiting' = Nil
    BY <1>14 DEF WaitServer, ServerEnds, CallInv
  <2> QED
    BY <2>1 DEF CallInv, ShutInv, RollbackInv, StartInv, ShutdownInv, Entries,
       ComponentAt, RollbackComplete, StartAllUp, ShutdownComplete
<1>15. CASE Cancel
  BY <1>15, WalkInvQuiet DEF Cancel
<1>16. CASE UNCHANGED vars
  BY <1>16, WalkInvQuiet DEF vars
<1> QED
  BY <1>1, <1>2, <1>3, <1>4, <1>5, <1>6, <1>7, <1>8, <1>9, <1>10, <1>11,
     <1>12, <1>13, <1>14, <1>15, <1>16
     DEF Next, InCall, Build, StartStep, ShutdownStep, Tracer, Meter, Logger

LEMMA Walks == Spec => [](WalkInv /\ Promises)
<1>1. Init => WalkInv /\ Promises
  BY DEF Init, WalkInv, Promises, CallInv, ShutInv, RollbackInv, StartInv,
     ShutdownInv, RollbackComplete, StartAllUp, ShutdownComplete
<1>2. TypeOK /\ WalkInv /\ Promises /\ [Next]_vars => (WalkInv /\ Promises)'
  BY WalkInvStep
<1> QED
  BY <1>1, <1>2, Typing, PTL DEF Spec

(* A failed Start leaves up only what was up before it (resolver.go:61-76).*)
THEOREM RollbackIsComplete == Spec => []RollbackComplete
BY Walks, PTL DEF Promises

(* A Start that answers nil has started everything (resolver.go:78-95).    *)
THEOREM StartStartsAll == Spec => []StartAllUp
BY Walks, PTL DEF Promises

(* A Shutdown that answers has shut everything (resolver.go:98-117).       *)
THEOREM ShutdownShutsAll == Spec => []ShutdownComplete
BY Walks, PTL DEF Promises

----------------------------------------------------------------------------
(* Every component instance has one owner.                                 *)

(* The entries of the tables hold pairwise different, existing instances.  *)
TableInv ==
    /\ \A pe, qf \in Entries : ComponentAt(pe) = ComponentAt(qf) => pe = qf
    /\ \A pe \in Entries : kind[ComponentAt(pe)] # "unbuilt"

(* So do those being built, which no provider holds yet.                   *)
BuildingInv ==
    /\ \A e, f \in Eids : building[e] # Nil /\ building[e] = building[f] => e = f
    /\ \A e \in Eids : building[e] # Nil => kind[building[e]] # "unbuilt"
    /\ \A e \in Eids, pe \in Entries : building[e] # ComponentAt(pe)
    /\ op = "build" => target \notin registered

(* What Start has started are components of entries it has visited.        *)
StartedInv ==
    op = "start" => \A i \in DOMAIN started :
                        \E pe \in Entries \cap visited :
                            started[i] = ComponentAt(pe)

OwnerInv == TableInv /\ BuildingInv /\ StartedInv

LEMMA OwnerQuiet ==
    ASSUME OwnerInv, UNCHANGED <<kind, provider_vars, op, building, target>>,
           visited \subseteq visited', started' = started \/ op # "start"
    PROVE  OwnerInv'
BY DEF OwnerInv, TableInv, BuildingInv, StartedInv, Entries, ComponentAt

LEMMA OwnerStep ==
    ASSUME TypeOK, OwnerInv, [Next]_vars
    PROVE  OwnerInv'
<1> USE DEF OwnerInv
<1>1. ASSUME NEW p \in Pids, Ask(p) PROVE OwnerInv'
  <2>1. UNCHANGED <<kind, provider_vars>> /\ op' \in {"idle", "build"}
    BY <1>1 DEF Ask, Cached, NotConfigured, BeginBuild, Answer
  <2>2. CASE BeginBuild(p)
    BY <2>1, <2>2, ResolverAssumption
       DEF BeginBuild, TableInv, BuildingInv, StartedInv, Entries, ComponentAt,
           NoComponents
  <2>3. CASE Cached(p) \/ NotConfigured(p)
    BY <2>1, <2>3 DEF Cached, NotConfigured, Answer, TableInv, BuildingInv,
       StartedInv, Entries, ComponentAt
  <2> QED
    BY <1>1, <2>2, <2>3 DEF Ask
<1>2. CASE Start \/ Shutdown
  BY <1>2 DEF Start, Shutdown, BeginWalk, TableInv, BuildingInv, StartedInv,
     Entries, ComponentAt
<1>3. CASE ApplyProcessor
  BY <1>3, OwnerQuiet DEF ApplyProcessor
<1>4. CASE Register
  <2>1. /\ target \in Pids /\ target \notin registered
        /\ registered' = registered \cup {target}
        /\ components' = [components EXCEPT ![target] = building]
        /\ kind' = kind /\ op' = "idle" /\ building' = NoComponents
    BY <1>4 DEF Register, ReturnFromBuild, Answer, TypeOK, BuildingInv
  <2>2. ASSUME NEW pe \in Entries'
        PROVE  \/ /\ pe \in Entries
                  /\ ComponentAt(pe)' = ComponentAt(pe)
                  /\ pe[1] # target
               \/ /\ pe = <<target, pe[2]>> /\ pe[2] \in Eids
                  /\ ComponentAt(pe)' = building[pe[2]]
                  /\ building[pe[2]] # Nil
    BY <2>1, <2>2 DEF Entries, ComponentAt, TypeOK
  <2>3. TableInv'
    BY <2>1, <2>2 DEF TableInv, BuildingInv
  <2>4. BuildingInv'
    <3>1. \A pe \in Entries' : ComponentAt(pe)' # Nil
      BY DEF Entries, ComponentAt
    <3> QED
      BY <2>1, <3>1 DEF BuildingInv, NoComponents
  <2> QED
    BY <2>1, <2>3, <2>4 DEF StartedInv
<1>5. CASE GiveUp
  <2>1. \A pe \in Entries' : ComponentAt(pe)' # Nil
    BY DEF Entries, ComponentAt
  <2> QED
    BY <1>5, <2>1 DEF GiveUp, ReturnFromBuild, Answer, TableInv, BuildingInv,
       StartedInv, Entries, ComponentAt, NoComponents
<1>6. ASSUME NEW c \in Cids, BuildExporter(c) PROVE OwnerInv'
  <2> DEFINE e == Head(exps)
  <2>1. /\ e \in Eids /\ target \in Pids
        /\ kind[c] = "unbuilt"
        /\ UNCHANGED <<provider_vars, op, target>> /\ op = "build"
        /\ building' = [building EXCEPT ![e] = c]
    BY <1>6 DEF BuildExporter, New, TypeOK
  <2>2. /\ \A d \in Cids : kind[d] # "unbuilt" => kind'[d] # "unbuilt"
        /\ kind'[c] # "unbuilt"
    <3>1. Offer(e, SignalOf[target]) \in Kinds
      BY <1>6, <2>1, ResolverAssumption, OfferType DEF BuildExporter
    <3> QED
      BY <1>6, <3>1 DEF BuildExporter, New, Kinds, TypeOK, ComponentTypeOK
  <2>3. \A pe \in Entries : ComponentAt(pe) \in Cids /\ ComponentAt(pe) # c
    BY <2>1 DEF TableInv, Entries, ComponentAt, TypeOK
  <2>4. \A f \in Eids : building[f] # Nil => building[f] \in Cids /\ building[f] # c
    BY <2>1 DEF BuildingInv, TypeOK
  <2>5. TableInv'
    BY <2>1, <2>2, <2>3 DEF TableInv, Entries, ComponentAt
  <2>6. BuildingInv'
    BY <2>1, <2>2, <2>3, <2>4, ResolverAssumption
       DEF BuildingInv, Entries, ComponentAt, TypeOK
  <2> QED
    BY <2>1, <2>5, <2>6 DEF StartedInv
<1>7. ASSUME NEW pe \in NextEntries, SkipComponent(pe) PROVE OwnerInv'
  BY <1>7, OwnerQuiet DEF SkipComponent, Visit
<1>8. ASSUME NEW pe \in NextEntries, StartComponent(pe) PROVE OwnerInv'
  <2>1. /\ op = "start" /\ UNCHANGED <<kind, provider_vars, op, building, target>>
        /\ visited' = visited \cup {pe}
        /\ started' = Append(started, ComponentAt(pe))
    BY <1>8 DEF StartComponent, StartOk, Visit
  <2>2. /\ started \in Seq(Cids) /\ ComponentAt(pe) \in Cids /\ pe \in Entries
    BY EntryType DEF TypeOK
  <2>3. Entries' = Entries /\ \A qf \in Entries : ComponentAt(qf)' = ComponentAt(qf)
    BY <2>1 DEF Entries, ComponentAt
  <2>4. StartedInv'
    <3> SUFFICES ASSUME NEW j \in DOMAIN started'
                 PROVE  \E qf \in Entries \cap visited' :
                            started'[j] = ComponentAt(qf)
      BY <2>1, <2>3 DEF StartedInv
    <3>1. CASE started'[j] = ComponentAt(pe)
      BY <2>1, <2>2, <3>1
    <3>2. CASE \E i \in DOMAIN started : started[i] = started'[j]
      BY <2>1, <3>2 DEF StartedInv
    <3> QED
      BY <2>1, <2>2, <3>1, <3>2, StartedAppend
  <2> QED
    BY <2>1, <2>3, <2>4 DEF TableInv, BuildingInv
<1>9. ASSUME NEW pe \in NextEntries, StartComponentFails(pe) PROVE OwnerInv'
  <2>1. UNCHANGED <<kind, provider_vars, building>> /\ op' = "rollback"
    BY <1>9 DEF StartComponentFails, StartErr, Visit
  <2> QED
    BY <2>1 DEF TableInv, BuildingInv, StartedInv, Entries, ComponentAt
<1>10. CASE StartDone \/ RollbackDone \/ ShutdownDone
  <2>1. UNCHANGED <<kind, provider_vars, building>> /\ op' = "idle"
    BY <1>10 DEF StartDone, RollbackDone, ShutdownDone, ReturnFromWalk, Answer
  <2> QED
    BY <2>1 DEF TableInv, BuildingInv, StartedInv, Entries, ComponentAt
<1>11. CASE Rollback
  BY <1>11, OwnerQuiet DEF Rollback, ShutdownReturns, ShutdownBlocks
<1>12. ASSUME NEW pe \in NextEntries, ShutdownComponent(pe) PROVE OwnerInv'
  BY <1>12, OwnerQuiet
     DEF ShutdownComponent, ShutdownReturns, ShutdownBlocks, Visit
<1>13. CASE WaitServer
  BY <1>13, OwnerQuiet DEF WaitServer, ServerEnds
<1>14. CASE Cancel
  BY <1>14, OwnerQuiet DEF Cancel
<1>15. CASE UNCHANGED vars
  BY <1>15, OwnerQuiet DEF vars
<1> QED
  BY <1>1, <1>2, <1>3, <1>4, <1>5, <1>6, <1>7, <1>8, <1>9, <1>10, <1>11,
     <1>12, <1>13, <1>14, <1>15
     DEF Next, InCall, Build, StartStep, ShutdownStep, Tracer, Meter, Logger

LEMMA Owners == Spec => []OwnerInv
<1>1. Init => OwnerInv
  BY DEF Init, OwnerInv, TableInv, BuildingInv, StartedInv, Entries,
     ComponentAt, NoComponents
<1>2. TypeOK /\ OwnerInv /\ [Next]_vars => OwnerInv'
  BY OwnerStep
<1> QED
  BY <1>1, <1>2, Typing, PTL DEF Spec

(* No component is started twice by one Start, whatever exporters the      *)
(* providers share (otlp/exporter_test.go:478-480).                        *)
THEOREM StartIsSingleStarter == Spec => []SingleStarter
<1>1. OwnerInv => SingleStarter
  BY DEF OwnerInv, TableInv, StartedInv, SingleStarter, Unvisited
<1> QED
  BY <1>1, Owners, PTL

(* A provider, once handed out, is the one its id resolves to for good     *)
(* (resolver.go:126, 203, 289).                                            *)
THEOREM ProvidersAreStable == Spec => ProvidersStable
<1> DEFINE Kept == \A p \in registered : /\ p \in registered'
                                         /\ components'[p] = components[p]
                                         /\ wired'[p] = wired[p]
<1>1. TypeOK /\ OwnerInv /\ [Next]_vars => Kept
  <2> SUFFICES ASSUME TypeOK, OwnerInv, [Next]_vars PROVE Kept
    OBVIOUS
  <2>1. CASE Register
    BY <2>1 DEF Register, OwnerInv, BuildingInv, TypeOK
  <2>2. CASE UNCHANGED provider_vars
    BY <2>2
  <2>3. Next => Register \/ UNCHANGED provider_vars
    BY DEF Next, InCall, Build, StartStep, ShutdownStep, Tracer, Meter, Logger,
       Ask, Cached, NotConfigured, BeginBuild, Start, Shutdown, BeginWalk,
       ApplyProcessor, GiveUp, BuildExporter, SkipComponent, StartComponent,
       StartComponentFails, StartDone, Rollback, RollbackDone,
       ShutdownComponent, ShutdownDone, WaitServer, Cancel, Visit,
       ReturnFromWalk
  <2> QED
    BY <2>1, <2>2, <2>3 DEF vars
<1>2. TypeOK /\ OwnerInv /\ [Next]_vars => [Kept]_vars
  BY <1>1
<1> QED
  BY <1>2, Typing, Owners, PTL DEF Spec, ProvidersStable

----------------------------------------------------------------------------
(* What a provider feeds.  In the middle of a build, the exporters that    *)
(* are still to come are the end of the list, the components that were     *)
(* built belong to its beginning, and they are those of the options.  A    *)
(* list that names an exporter twice breaks the last part.                 *)
Distinct(p) == \A i, j \in DOMAIN ExportersOf[p] :
                  ExportersOf[p][i] = ExportersOf[p][j] => i = j
Passed == Len(ExportersOf[target]) - Len(exps)

ListInv ==
    /\ Passed \in Nat
    /\ \A i \in DOMAIN exps : exps[i] = ExportersOf[target][Passed + i]
    /\ \A e \in Eids : building[e] # Nil =>
          \E i \in 1..Passed : ExportersOf[target][i] = e
PipelineInv ==
    op = "build" /\ Distinct(target) =>
        ListInv /\ opts = {building[e] : e \in Eids} \ {Nil}

WiredInv == WiredManaged /\ PipelineInv

LEMMA WiredQuiet ==
    ASSUME WiredInv, UNCHANGED provider_vars,
           op' # "build" \/ UNCHANGED <<op, target, exps, building, opts>>
    PROVE  WiredInv'
BY DEF WiredInv, WiredManaged, PipelineInv, ListInv, Passed, Distinct

LEMMA WiredStep ==
    ASSUME TypeOK, WiredInv, [Next]_vars
    PROVE  WiredInv'
<1>1. ASSUME NEW p \in Pids, BeginBuild(p) PROVE WiredInv'
  <2>1. /\ op' = "build" /\ target' = p /\ exps' = ExportersOf[p]
        /\ building' = NoComponents /\ opts' = {} /\ UNCHANGED provider_vars
    BY <1>1 DEF BeginBuild
  <2>2. WiredManaged'
    BY <2>1 DEF WiredInv, WiredManaged
  <2>3. ExportersOf[p] \in Seq(Eids) /\ Len(ExportersOf[p]) \in Nat
    BY ResolverAssumption
  <2>4. Passed' = 0
    BY <2>1, <2>3 DEF Passed
  <2>5. ListInv'
    BY <2>1, <2>3, <2>4 DEF ListInv, NoComponents
  <2>6. {building'[e] : e \in Eids} \ {Nil} = {}
    BY <2>1 DEF NoComponents
  <2> QED
    BY <2>1, <2>2, <2>5, <2>6 DEF WiredInv, PipelineInv
<1>2. ASSUME NEW c \in Cids, BuildExporter(c) PROVE WiredInv'
  <2> DEFINE e == Head(exps)
             list == ExportersOf[target]
  <2>1. /\ op = "build" /\ exps # <<>> /\ exps' = Tail(exps)
        /\ building' = [building EXCEPT ![e] = c] /\ opts' = opts \cup {c}
        /\ UNCHANGED <<op, target>> /\ UNCHANGED provider_vars
    BY <1>2 DEF BuildExporter
  <2>2. WiredManaged'
    BY <2>1 DEF WiredInv, WiredManaged
  <2>3. ASSUME Distinct(target)
        PROVE  ListInv' /\ opts' = {building'[f] : f \in Eids} \ {Nil}
    <3>1. ListInv /\ opts = {building[f] : f \in Eids} \ {Nil}
      BY <2>1, <2>3 DEF WiredInv, PipelineInv
    <3>types. /\ exps \in Seq(Eids) /\ Len(exps) \in Nat \ {0}
              /\ DOMAIN exps = 1..Len(exps) /\ e = exps[1] /\ e \in Eids
              /\ building \in [Eids -> Cids \cup {Nil}]
              /\ list \in Seq(Eids) /\ Len(list) \in Nat
              /\ DOMAIN list = 1..Len(list)
      BY <2>1, ResolverAssumption, EmptySeq, HeadTailProperties DEF TypeOK
    <3>2. /\ Len(exps') = Len(exps) - 1 /\ DOMAIN exps' = 1..(Len(exps) - 1)
          /\ \A i \in 1..(Len(exps) - 1) : exps'[i] = exps[i + 1]
      <4>1. /\ Tail(exps) \in Seq(Eids) /\ Len(Tail(exps)) = Len(exps) - 1
            /\ \A i \in 1..Len(Tail(exps)) : Tail(exps)[i] = exps[i + 1]
        BY <2>1, <3>types, HeadTailProperties
      <4>2. DOMAIN Tail(exps) = 1..Len(Tail(exps))
        BY <4>1
      <4> QED
        BY <2>1, <4>1, <4>2
    <3> DEFINE n == Passed
    <3>3. /\ n \in Nat /\ n = Len(list) - Len(exps)
          /\ Passed' = n + 1 /\ n + 1 \in DOMAIN list /\ list[n + 1] = e
      <4>1. n \in Nat /\ n = Len(list) - Len(exps)
        BY <3>1 DEF ListInv, Passed
      <4>2. Passed' = n + 1
        BY <2>1, <3>types, <3>2, <4>1 DEF Passed
      <4>3. n + 1 \in DOMAIN list
        BY <3>types, <4>1
      <4>4. list[n + 1] = e
        BY <3>1, <3>types DEF ListInv
      <4> QED
        BY <4>1, <4>2, <4>3, <4>4
    <3>4. building[e] = Nil
      <4> SUFFICES ASSUME building[e] # Nil PROVE FALSE
        OBVIOUS
      <4>1. PICK i \in 1..n : list[i] = e
        BY <3>1, <3>types DEF ListInv
      <4>2. i \in DOMAIN list /\ i # n + 1
        BY <3>types, <3>3, <4>1
      <4> QED
        BY <2>3, <3>3, <4>1, <4>2 DEF Distinct
    <3> HIDE DEF e, list, n
    <3>5. /\ building'[e] = c
          /\ \A f \in Eids : f # e => building'[f] = building[f]
      BY <2>1, <3>types
    <3>6. opts' = {building'[f] : f \in Eids} \ {Nil}
      BY <2>1, <3>1, <3>types, <3>4, <3>5, ResolverAssumption
    <3>7. \A i \in DOMAIN exps' : exps'[i] = ExportersOf[target][(n + 1) + i]
      <4> SUFFICES ASSUME NEW i \in 1..(Len(exps) - 1)
                   PROVE  exps[i + 1] = list[(n + 1) + i]
        BY <3>2 DEF list
      <4>1. i + 1 \in DOMAIN exps
        BY <3>types
      <4>2. exps[i + 1] = list[n + (i + 1)]
        BY <3>1, <4>1 DEF ListInv, list, n
      <4>3. n + (i + 1) = (n + 1) + i
        BY <3>3
      <4> QED
        BY <4>2, <4>3
    <3>8. \A f \in Eids : building'[f] # Nil =>
             \E i \in 1..(n + 1) : ExportersOf[target][i] = f
      <4> SUFFICES ASSUME NEW f \in Eids, building'[f] # Nil
                   PROVE  \E i \in 1..(n + 1) : list[i] = f
        BY DEF list
      <4>1. CASE f = e
        BY <3>3, <4>1
      <4>2. CASE f # e
        <5>1. PICK i \in 1..n : list[i] = f
          BY <3>1, <3>5, <4>2 DEF ListInv, list, n
        <5>2. i \in 1..(n + 1)
          BY <3>3, <5>1
        <5> QED
          BY <5>1, <5>2
      <4> QED
        BY <4>1, <4>2
    <3>9. ListInv'
      BY <2>1, <3>3, <3>7, <3>8 DEF ListInv
    <3> QED
      BY <3>6, <3>9
  <2>4. Distinct(target)' <=> Distinct(target)
    BY <2>1 DEF Distinct
  <2> QED
    BY <2>2, <2>3, <2>4 DEF WiredInv, PipelineInv
<1>3. CASE Register
  <2>1. /\ op = "build" /\ op' = "idle" /\ target \in Pids
        /\ registered' = registered \cup {target}
        /\ components' = [components EXCEPT ![target] = building]
        /\ wired' = [wired EXCEPT ![target] = opts]
    BY <1>3 DEF Register, ReturnFromBuild, Answer, TypeOK
  <2>2. components \in [Pids -> [Eids -> Cids \cup {Nil}]]
        /\ wired \in [Pids -> SUBSET Cids] /\ registered \subseteq Pids
    BY DEF TypeOK
  <2>3. ASSUME NEW p \in registered', Distinct(p)
        PROVE  wired'[p] = {components'[p][e] : e \in Eids} \ {Nil}
    <3>1. CASE p = target
      <4>1. opts = {building[e] : e \in Eids} \ {Nil}
        BY <2>1, <2>3, <3>1 DEF WiredInv, PipelineInv
      <4>2. wired'[p] = opts /\ components'[p] = building
        BY <2>1, <2>2, <3>1
      <4> QED
        BY <4>1, <4>2
    <3>2. CASE p # target
      <4>1. p \in registered /\ wired'[p] = wired[p] /\ components'[p] = components[p]
        BY <2>1, <2>2, <3>2
      <4> QED
        BY <2>3, <4>1 DEF WiredInv, WiredManaged, Distinct
    <3> QED
      BY <3>1, <3>2
  <2> QED
    BY <2>1, <2>3 DEF WiredInv, WiredManaged, PipelineInv, Distinct
<1>4. ASSUME NEW p \in Pids, Cached(p) \/ NotConfigured(p) PROVE WiredInv'
  BY <1>4, WiredQuiet DEF Cached, NotConfigured, Answer
<1>5. CASE ApplyProcessor \/ GiveUp
  BY <1>5, WiredQuiet DEF ApplyProcessor, GiveUp, ReturnFromBuild, Answer
<1>6. CASE Start \/ Shutdown
  BY <1>6, WiredQuiet DEF Start, Shutdown, BeginWalk
<1>7. CASE StartStep \/ ShutdownStep \/ WaitServer \/ Cancel
  <2>1. UNCHANGED provider_vars
        /\ (op' # "build" \/ UNCHANGED <<op, target, exps, building, opts>>)
    BY <1>7 DEF StartStep, ShutdownStep, WaitServer, Cancel, SkipComponent,
       StartComponent, StartComponentFails, StartDone, Rollback, RollbackDone,
       ShutdownComponent, ShutdownDone, Visit, ReturnFromWalk, Answer
  <2> QED
    BY <2>1, WiredQuiet
<1>8. CASE UNCHANGED vars
  BY <1>8, WiredQuiet DEF vars
<1> QED
  BY <1>1, <1>2, <1>3, <1>4, <1>5, <1>6, <1>7, <1>8
     DEF Next, InCall, Build, Tracer, Meter, Logger, Ask

(* A provider feeds no pipeline that Shutdown cannot reach, for every list *)
(* of exporters without a repetition (resolver.go:179, 252, 260, 343).     *)
THEOREM WiredIsManaged == Spec => []WiredManaged
<1>1. Init => WiredInv
  BY DEF Init, WiredInv, WiredManaged, PipelineInv
<1>2. TypeOK /\ WiredInv /\ [Next]_vars => WiredInv'
  BY WiredStep
<1>3. WiredInv => WiredManaged
  BY DEF WiredInv
<1> QED
  BY <1>1, <1>2, <1>3, Typing, PTL DEF Spec

----------------------------------------------------------------------------
(* A component that cannot be started any more: the once of its exporter   *)
(* is spent, or the server is closed.  It stays so, and no Start gets past *)
(* it.                                                                     *)
Blocked(pe) ==
    /\ pe \in Entries
    /\ \/ kind[ComponentAt(pe)] = "deferred" /\ ComponentAt(pe) \in used
       \/ kind[ComponentAt(pe)] = "server" /\ ComponentAt(pe) \in shut

(* A Start that fails has met one.                                         *)
FailedInv == op = "rollback" \/ ret = "starterror" => \E pe \in Pids \X Eids : Blocked(pe)

(* From then on there is one, and in a Start it is still to come.          *)
Stuck ==
    /\ op # "start" => \E pe \in Pids \X Eids : Blocked(pe)
    /\ op = "start" => \E pe \in Pids \X Eids : Blocked(pe) /\ pe \notin visited
    /\ ret # "started"

LEMMA BlockedStays ==
    ASSUME TypeOK, OwnerInv, [Next]_vars, NEW pe \in Pids \X Eids, Blocked(pe)
    PROVE  Blocked(pe)'
<1>1. /\ pe[1] \in registered /\ pe[1] \in Pids /\ pe[2] \in Eids
      /\ ComponentAt(pe) # Nil /\ ComponentAt(pe) \in Cids
  BY DEF Blocked, Entries, ComponentAt, TypeOK
<1>2. pe[1] \in registered' /\ components'[pe[1]] = components[pe[1]]
  <2>1. CASE Register
    BY <1>1, <2>1 DEF Register, OwnerInv, BuildingInv, TypeOK
  <2>2. CASE UNCHANGED provider_vars
    BY <1>1, <2>2
  <2>3. Next => Register \/ UNCHANGED provider_vars
    BY DEF Next, InCall, Build, StartStep, ShutdownStep, Tracer, Meter, Logger,
       Ask, Cached, NotConfigured, BeginBuild, Start, Shutdown, BeginWalk,
       ApplyProcessor, GiveUp, BuildExporter, SkipComponent, StartComponent,
       StartComponentFails, StartDone, Rollback, RollbackDone,
       ShutdownComponent, ShutdownDone, WaitServer, Cancel, Visit,
       ReturnFromWalk
  <2> QED
    BY <2>1, <2>2, <2>3 DEF vars
<1>3. pe \in Entries' /\ ComponentAt(pe)' = ComponentAt(pe)
  BY <1>1, <1>2 DEF Blocked, Entries, ComponentAt
<1>4. /\ used \subseteq used' /\ shut \subseteq shut'
      /\ \A c \in Cids : kind[c] # "unbuilt" => kind'[c] = kind[c]
  <2> USE DEF TypeOK, ComponentTypeOK
  <2>1. ASSUME NEW c \in Cids, BuildExporter(c)
        PROVE  /\ used' = used /\ shut' = shut
               /\ \A b \in Cids : kind[b] # "unbuilt" => kind'[b] = kind[b]
    BY <2>1 DEF BuildExporter, New
  <2>2. CASE UNCHANGED components_vars
    BY <2>2
  <2>3. ASSUME NEW qf \in NextEntries, \/ StartComponent(qf)
                                       \/ StartComponentFails(qf)
                                       \/ ShutdownComponent(qf)
        PROVE  kind' = kind /\ used \subseteq used' /\ shut \subseteq shut'
    BY <2>3 DEF StartComponent, StartOk, StartComponentFails, StartErr,
       ShutdownComponent, ShutdownReturns, ShutdownBlocks
  <2>4. CASE Rollback \/ WaitServer
    BY <2>4 DEF Rollback, ShutdownReturns, ShutdownBlocks, WaitServer, ServerEnds
  <2>5. Next => \/ \E c \in Cids : BuildExporter(c)
                \/ UNCHANGED components_vars
                \/ \E qf \in NextEntries : \/ StartComponent(qf)
                                           \/ StartComponentFails(qf)
                                           \/ ShutdownComponent(qf)
                \/ Rollback \/ WaitServer
    BY DEF Next, InCall, Build, StartStep, ShutdownStep, Tracer, Meter, Logger,
       Ask, Cached, NotConfigured, BeginBuild, Start, Shutdown, BeginWalk,
       ApplyProcessor, Register, GiveUp, SkipComponent, StartDone, RollbackDone,
       ShutdownDone, Cancel, ReturnFromWalk, ReturnFromBuild
  <2> QED
    BY <2>1, <2>2, <2>3, <2>4, <2>5 DEF vars
<1> QED
  BY <1>1, <1>3, <1>4 DEF Blocked

(* How the steps change the call in progress.                              *)
LEMMA CallStep ==
    ASSUME TypeOK, CallInv, [Next]_vars
    PROVE  \/ \E pe \in NextEntries :
                  /\ op = "start" /\ op' \in {"start", "rollback"} /\ ret' = ret
                  /\ visited' = visited \cup {pe}
                  /\ op' = "start" => \/ ~HasStart(ComponentAt(pe))
                                      \/ StartOk(ComponentAt(pe))
                  /\ op' = "rollback" => StartErr(ComponentAt(pe)) /\ UNCHANGED provider_vars
           \/ op = "start" /\ Unvisited = {} /\ op' = "idle" /\ ret' = "started"
           \/ op' = "start" /\ ret' = "none" /\ visited' = {}
           \/ op = "rollback" /\ op' = "idle" /\ ret' = "starterror"
           \/ op = "rollback" /\ op' = "rollback" /\ ret' = ret
           \/ /\ op' \in {"idle", "build", "shutdown"} /\ op # "start"
              /\ ret' \in {"none", "provider", "notexist", "builderror", "shutdown"}
           \/ op' = op /\ ret' = ret /\ visited' = visited
<1>1. ASSUME NEW p \in Pids, Ask(p)
      PROVE  /\ op' \in {"idle", "build", "shutdown"} /\ op # "start"
             /\ ret' \in {"none", "provider", "notexist", "builderror", "shutdown"}
  BY <1>1 DEF Ask, Cached, NotConfigured, BeginBuild, Answer
<1>2. ASSUME Start
      PROVE  op' = "start" /\ ret' = "none" /\ visited' = {}
  BY <1>2 DEF Start, BeginWalk
<1>3. ASSUME Shutdown
      PROVE  op' = "shutdown" /\ op # "start" /\ ret' = "none"
  BY <1>3 DEF Shutdown, BeginWalk
<1>4. ASSUME ApplyProcessor \/ Cancel \/ \E c \in Cids : BuildExporter(c)
      PROVE  op' = op /\ ret' = ret /\ visited' = visited
  BY <1>4 DEF ApplyProcessor, Cancel, BuildExporter
<1>5. ASSUME GiveUp \/ Register
      PROVE  op' = "idle" /\ op # "start" /\ ret' \in {"provider", "builderror"}
  BY <1>5 DEF GiveUp, Register, ReturnFromBuild, Answer
<1>6. ASSUME NEW pe \in NextEntries, \/ SkipComponent(pe)
                                     \/ StartComponent(pe)
                                     \/ StartComponentFails(pe)
      PROVE  /\ op = "start" /\ op' \in {"start", "rollback"} /\ ret' = ret
             /\ visited' = visited \cup {pe}
             /\ op' = "start" => \/ ~HasStart(ComponentAt(pe))
                                 \/ StartOk(ComponentAt(pe))
             /\ op' = "rollback" => StartErr(ComponentAt(pe)) /\ UNCHANGED provider_vars
  BY <1>6 DEF SkipComponent, StartComponent, StartComponentFails, Visit
<1>7. ASSUME Rollback
      PROVE  op = "rollback" /\ op' = "rollback" /\ ret' = ret
  BY <1>7 DEF Rollback
<1>8. ASSUME RollbackDone
      PROVE  op = "rollback" /\ op' = "idle" /\ ret' = "starterror"
  BY <1>8 DEF RollbackDone, ReturnFromWalk, Answer
<1>9. ASSUME NEW pe \in NextEntries, ShutdownComponent(pe)
      PROVE  op = "shutdown" /\ op' = "shutdown" /\ ret' = "none"
  BY <1>9 DEF ShutdownComponent, Visit, CallInv
<1>10. ASSUME ShutdownDone
       PROVE  op = "shutdown" /\ op' = "idle" /\ ret' = "shutdown"
  BY <1>10 DEF ShutdownDone, ReturnFromWalk, Answer
<1>11. ASSUME WaitServer
       PROVE  op' = op /\ ret' = ret /\ visited' = visited
  BY <1>11 DEF WaitServer
<1>12. ASSUME StartDone
       PROVE  op = "start" /\ Unvisited = {} /\ op' = "idle" /\ ret' = "started"
  BY <1>12 DEF StartDone, ReturnFromWalk, Answer
<1>13. ASSUME UNCHANGED vars PROVE op' = op /\ ret' = ret /\ visited' = visited
  BY <1>13 DEF vars
<1> QED
  BY <1>1, <1>2, <1>3, <1>4, <1>5, <1>6, <1>7, <1>8, <1>9, <1>10, <1>11, <1>12, <1>13
     DEF Next, InCall, Build, StartStep, ShutdownStep, Tracer, Meter, Logger

(* A Start that has failed once never answers nil again, whatever is built *)
(* and shut in between (resolver.go:61-95).                                *)
THEOREM FailedStartsAreFinal == Spec => FailedStartIsFinal
<1>1. Init => FailedInv
  BY DEF Init, FailedInv
<1>2. TypeOK /\ CallInv /\ OwnerInv /\ FailedInv /\ [Next]_vars => FailedInv'
  <2> SUFFICES ASSUME TypeOK, CallInv, OwnerInv, FailedInv, [Next]_vars,
                      op' = "rollback" \/ ret' = "starterror"
               PROVE  \E pe \in Pids \X Eids : Blocked(pe)'
    BY DEF FailedInv
  <2>1. CASE op = "rollback" \/ ret = "starterror"
    BY <2>1, BlockedStays DEF FailedInv
  <2>2. CASE ~(op = "rollback" \/ ret = "starterror")
    <3>1. PICK pe \in NextEntries : StartErr(ComponentAt(pe)) /\ UNCHANGED provider_vars
      BY <2>2, CallStep DEF CallInv
    <3>2. pe \in Pids \X Eids /\ pe \in Entries /\ ComponentAt(pe) \in Cids
      BY EntryType
    <3>3. pe \in Entries' /\ ComponentAt(pe)' = ComponentAt(pe)
      BY <3>1, <3>2 DEF Entries, ComponentAt
    <3>. QED  BY <3>1, <3>2, <3>3 DEF StartErr, Blocked
  <2>. QED  BY <2>1, <2>2
<1>3. CallInv /\ FailedInv /\ ret = "starterror" => Stuck
  BY DEF CallInv, FailedInv, Stuck
<1>4. TypeOK /\ CallInv /\ OwnerInv /\ Stuck /\ [Next]_vars => Stuck'
  <2> SUFFICES ASSUME TypeOK, CallInv, OwnerInv, Stuck, [Next]_vars PROVE Stuck'
    OBVIOUS
  <2>1. PICK pe \in Pids \X Eids : Blocked(pe) /\ (op = "start" => pe \notin visited)
    BY DEF Stuck
  <2>2. Blocked(pe)' /\ pe \in Entries
    BY <2>1, BlockedStays DEF Blocked
  <2>3. ASSUME op = "start", op' = "start", NEW qf \in NextEntries,
               ~HasStart(ComponentAt(qf)) \/ StartOk(ComponentAt(qf))
        PROVE  qf # pe
    BY <2>1, <2>3 DEF Blocked, HasStart, StartOk
  <2>4. op = "start" => Unvisited # {}
    BY <2>1, <2>2 DEF Unvisited
  <2>5. ret # "started"
    BY DEF Stuck
  <2>. QED  BY <2>1, <2>2, <2>3, <2>4, <2>5, CallStep DEF Stuck
<1>5. Stuck => ret # "started"
  BY DEF Stuck
<1>6. WalkInv => CallInv
  BY DEF WalkInv
<1>. QED
  BY <1>1, <1>2, <1>3, <1>4, <1>5, <1>6, Typing, Walks, Owners, PTL
     DEF Spec, FailedStartIsFinal
=============================================================================
