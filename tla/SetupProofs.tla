---------------------------- MODULE SetupProofs ----------------------------
(***************************************************************************)
(* What the way from a document to an exporter guarantees, for every set   *)
(* of documents, every registry and every width of an integer, proved.     *)
(*                                                                         *)
(* WalkInv of LoadProofs and BuildInv of BuildProofs are put together:     *)
(* a config that is built comes out of a document that was accepted, and   *)
(* StageInv says which of the two is in progress.  OptionsInv says what    *)
(* the processors that have been applied have left in the options.         *)
(***************************************************************************)
EXTENDS Setup, LoadProofs, BuildProofs, SequenceTheorems, TLAPS

StageInv ==
    /\ stage \in {"load", "processors", "exporter", "refused"}
    /\ stage # "exporter" => pc = "idle"
    /\ stage # "load" => loadAnswer = "ok"

Processors == DOMAIN loaded["processors"]

(* The one of a type that comes last among the first w of a list.          *)
LastUpTo(l, w, type, k) ==
    IF \E i \in 1..w : l[i].type = type
    THEN \E i \in 1..w :
            /\ l[i] = k
            /\ k.type = type
            /\ \A j \in 1..w : j > i => l[j].type # type
    ELSE k = Nobody

(* Where the walk over the list is. *)
ListInv ==
    /\ stage = "load" => options = NoOptions /\ list = <<>> /\ walked = 0
    /\ Len(list) \in Nat /\ DOMAIN list = 1..Len(list)
    /\ walked \in 0..Len(list)
    /\ stage = "exporter" => walked = Len(list)
    /\ \A i \in 1..walked : list[i] \in Processors

(* The options are those of the last resource and the last sampler that    *)
(* have been walked over.                                                  *)
OptionsInv ==
    /\ LastUpTo(list, walked, "resource", options.of)
    /\ LastUpTo(list, walked, "sampler", options.by)
    /\ options.of # Nobody =>
        /\ options.of \in Processors /\ options.of.type = "resource"
        /\ options.resource = ResourceOpts(loaded["processors"][options.of])
    /\ options.by # Nobody =>
        /\ options.by \in Processors /\ options.by.type = "sampler"
        /\ loaded["processors"][options.by].type \in Samplers
        /\ options.sampler = BuildSampler(loaded["processors"][options.by])
    /\ options.by = Nobody => options.sampler = AlwaysOn
    /\ options = [resource |-> options.resource, of |-> options.of,
                  sampler |-> options.sampler, by |-> options.by]

SetupInv == WalkInv /\ BuildInv /\ StageInv /\ ListInv /\ OptionsInv

----------------------------------------------------------------------------
(* A document that was accepted is in the config as it decodes.            *)
LEMMA AcceptedDoc ==
  ASSUME WalkInv, loadAnswer = "ok", NEW s \in Sections
  PROVE  /\ doc \in Docs
         /\ DOMAIN loaded[s] = DOMAIN doc[s]
         /\ \A k \in DOMAIN doc[s] :
               /\ ~KeyRefused(k) /\ k # Nobody
               /\ k.type \in Registered[s]
               /\ loaded[s][k] = Decode(k.type, doc[s][k]).value
               /\ Decode(k.type, doc[s][k]).outcome \notin {"error", "panic"}
               /\ NodeOf(s, k.type, doc[s][k])
<1>1. doc \in Docs /\ at = "returned"
  BY DEF WalkInv, LoadTypes
<1>2. ~AnyBadKey
  BY <1>1 DEF WalkInv, RefusedAtOnce
<1>3. Seen(s) /\ Visited(s) = Entries(s) /\ Broken(s) = {}
  BY <1>1, <1>2 DEF WalkInv, Answered, Visited
<1>4. Usable(s) = Entries(s)
  BY <1>3 DEF Usable, Entries, Broken
<1>5. ASSUME NEW k \in DOMAIN doc[s] PROVE ~KeyRefused(k) /\ k # Nobody
  <2>1. ~KeyRefused(k)
    BY <1>2 DEF AnyBadKey, Entries
  <2>2. KeyRefused(Nobody)
    BY DEF KeyRefused, Nobody
  <2> QED
    BY <2>1, <2>2
<1>6. ASSUME NEW k \in DOMAIN doc[s]
      PROVE  Decode(k.type, doc[s][k]).outcome # "error"
  BY <1>3, <1>6 DEF Broken
<1>7. \A k \in DOMAIN doc[s] : NodeOf(s, k.type, doc[s][k])
  BY <1>1, SetupAssumption
<1> QED
  BY <1>1, <1>3, <1>4, <1>5, <1>6, <1>7 DEF Seen, Usable, Entries

(* A decoded exporter has the knobs that its config has fields for.        *)
LEMMA ConfigIsWellFormed ==
  ASSUME WalkInv, loadAnswer = "ok", NEW k \in DOMAIN loaded["exporters"]
  PROVE  k.type \in Exporters /\ WellFormed(k.type, loaded["exporters"][k].knobs)
<1> DEFINE node == doc["exporters"][k]
           c == loaded["exporters"][k].knobs
<1>1. /\ k.type \in Registered["exporters"]
      /\ loaded["exporters"][k] = Decode(k.type, node).value
      /\ Decode(k.type, node).outcome # "error"
      /\ NodeOf("exporters", k.type, node)
  BY AcceptedDoc DEF Sections
<1>2. k.type \in Exporters /\ Fields[k.type] = FieldsOf(k.type)
      /\ FieldsOf(k.type) \subseteq Knobs
  BY <1>1, SetupAssumption, FieldsAreKnobs
<1> HIDE DEF node
<1>3. node.kind = "null" \/ ExporterNode(node)
  <2>1. node.kind \in {"null", "text"} \/ ExporterNode(node)
    BY <1>1 DEF NodeOf
  <2>2. node.kind # "text"
    BY <1>1 DEF Decode
  <2> QED
    BY <2>1, <2>2
<1>4. CASE node.kind = "null"
  <2>1. Decode(k.type, node) = Decoded(Default(k.type))
    BY <1>4 DEF Decode
  <2>2. Default(k.type) = [kind |-> "exporter", knobs |-> <<>>]
    BY <1>2 DEF Default, Exporters
  <2>3. c = <<>>
    BY <1>1, <2>1, <2>2 DEF Decoded
  <2> QED
    BY <1>2, <2>3 DEF WellFormed
<1>5. CASE ExporterNode(node)
  <2>1. Decode(k.type, node) = DecodeExporter(k.type, node)
    BY <1>5 DEF Decode, ExporterNode
  <2>2. c = [n \in DOMAIN node.knobs \cap Fields[k.type] |-> node.knobs[n]]
    BY <1>1, <1>5, <2>1 DEF DecodeExporter, Decoded, ExporterNode
  <2> QED
    BY <1>2, <1>5, <2>2 DEF WellFormed, ExporterNode
<1> QED
  BY <1>3, <1>4, <1>5

(* What a processor decodes to is of the kind of its type. *)
LEMMA ProcessorKinds ==
  ASSUME WalkInv, loadAnswer = "ok", NEW k \in Processors
  PROVE  /\ k # Nobody /\ k.type \in {"resource", "sampler"}
         /\ loaded["processors"][k].kind = k.type
<1> DEFINE node == doc["processors"][k]
<1>1. /\ k # Nobody /\ k.type \in {"resource", "sampler"}
      /\ loaded["processors"][k] = Decode(k.type, node).value
      /\ Decode(k.type, node).outcome # "error"
      /\ NodeOf("processors", k.type, node)
  BY AcceptedDoc, SetupAssumption DEF Sections, Processors
<1> HIDE DEF node
<1>2. CASE node.kind = "null"
  <2>1. Decode(k.type, node) = Decoded(Default(k.type))
    BY <1>2 DEF Decode
  <2>2. Default(k.type).kind = k.type
    BY <1>1 DEF Default
  <2> QED
    BY <1>1, <2>1, <2>2 DEF Decoded
<1>3. CASE node.kind = "text"
  BY <1>1, <1>3 DEF Decode
<1>4. CASE k.type = "resource" /\ ResourceNode(node)
  <2>1. Decode(k.type, node) = DecodeResource(node)
    BY <1>4 DEF Decode, ResourceNode
  <2>2. DecodeResource(node).value.kind = node.kind
    BY <1>4 DEF DecodeResource, ResourceNode
  <2> QED
    BY <1>1, <1>4, <2>1, <2>2 DEF ResourceNode
<1>5. CASE k.type = "sampler" /\ SamplerNode(node)
  <2>1. Decode(k.type, node) = Decoded(node)
    BY <1>5 DEF Decode, SamplerNode
  <2> QED
    BY <1>1, <1>5, <2>1 DEF Decoded, SamplerNode
<1> QED
  BY <1>1, <1>2, <1>3, <1>4, <1>5 DEF NodeOf

----------------------------------------------------------------------------
LEMMA SetupStarts == SetupInit => SetupInv
<1> SUFFICES ASSUME SetupInit PROVE SetupInv
  OBVIOUS
<1>1. WalkInv
  BY WalkBegins DEF SetupInit
<1>2. BuildInv
  <2>1. WellFormed(exporter, config)
    BY DEF SetupInit, WellFormed
  <2> QED
    BY <2>1 DEF SetupInit, BuildInv, BuildTypes, Untouched, Going, Built, Refused,
                Ended, Exporters, Methods
<1>3. StageInv
  BY DEF SetupInit, StageInv
<1>4. ListInv
  BY DEF SetupInit, ListInv
<1>5. OptionsInv
  <2>1. /\ LastUpTo(list, walked, "resource", Nobody)
        /\ LastUpTo(list, walked, "sampler", Nobody)
    BY DEF SetupInit, LastUpTo
  <2> QED
    BY <2>1 DEF SetupInit, OptionsInv, NoOptions
<1> QED
  BY <1>1, <1>2, <1>3, <1>4, <1>5 DEF SetupInv

(* A walk that has answered goes no further, so the config is not touched  *)
(* once a provider has begun.                                              *)
LEMMA AnswerIsFinal ==
  ASSUME WalkInv, loadAnswer # "none" PROVE ~LoadNext
BY DEF WalkInv, LoadTypes, LoadNext, UnmarshalDocument, UnknownType, DecodeEntry,
       DecodePanics, NextSection, JoinErrors, Sections

(* The steps that leave the config and the options alone.                  *)
LEMMA OptionsQuiet ==
  ASSUME OptionsInv, UNCHANGED <<loaded, options, list, walked>>
  PROVE  OptionsInv'
BY DEF OptionsInv, Processors

(* One more on the list: it is the last of its type, and the last of any   *)
(* other type is the one it was.                                           *)
LEMMA LastMoves ==
  ASSUME NEW l, NEW w \in Nat, NEW type, NEW k, LastUpTo(l, w, type, k)
  PROVE  LastUpTo(l, w + 1, type, IF l[w + 1].type = type THEN l[w + 1] ELSE k)
<1>1. 1..(w + 1) = (1..w) \cup {w + 1} /\ w + 1 \notin 1..w
  OBVIOUS
<1>2. CASE l[w + 1].type = type
  <2>1. \A j \in 1..(w + 1) : ~(j > w + 1)
    OBVIOUS
  <2> QED
    BY <1>1, <1>2, <2>1 DEF LastUpTo
<1>3. CASE l[w + 1].type # type
  <2>1. CASE \E i \in 1..w : l[i].type = type
    <3>1. PICK i \in 1..w : /\ l[i] = k /\ k.type = type
                            /\ \A j \in 1..w : j > i => l[j].type # type
      BY <2>1 DEF LastUpTo
    <3>2. \A j \in 1..(w + 1) : j > i => l[j].type # type
      BY <1>1, <1>3, <3>1
    <3> QED
      BY <1>1, <1>3, <2>1, <3>1, <3>2 DEF LastUpTo
  <2>2. CASE ~\E i \in 1..w : l[i].type = type
    <3>1. ~\E i \in 1..(w + 1) : l[i].type = type
      BY <1>1, <1>3, <2>2
    <3> QED
      BY <1>3, <2>2, <3>1 DEF LastUpTo
  <2> QED
    BY <2>1, <2>2
<1> QED
  BY <1>2, <1>3

(* The step to the next one on the list. *)
LEMMA ListMoves ==
  ASSUME ListInv, Pending, Found, walked' = walked + 1, UNCHANGED <<stage, list, loaded>>
  PROVE  /\ ListInv'
         /\ walked \in Nat /\ Current = list[walked + 1]
<1>1. /\ stage = "processors" /\ walked < Len(list)
      /\ list[walked + 1] \in Processors
  BY DEF Pending, Found, Current, Processors
<1>2. /\ walked \in Nat /\ Len(list) \in Nat
      /\ walked + 1 \in 0..Len(list)
      /\ 1..(walked + 1) = (1..walked) \cup {walked + 1}
  BY <1>1 DEF ListInv
<1> QED
  BY <1>1, <1>2 DEF ListInv, Current, Processors

LEMMA SetupStep == SetupInv /\ [SetupNext]_setupVars => SetupInv'
<1> SUFFICES ASSUME SetupInv, [SetupNext]_setupVars PROVE SetupInv'
  OBVIOUS
<1>now. WalkInv /\ BuildInv /\ StageInv /\ ListInv /\ OptionsInv
  BY DEF SetupInv
<1>walk. ASSUME UNCHANGED loadVars PROVE WalkInv'
  BY <1>walk, <1>now, WalkStep
<1>build. ASSUME UNCHANGED vars PROVE BuildInv'
  BY <1>build, <1>now, BuildStep
<1>idle. stage # "exporter" =>
           pc = "idle" /\ answer = "none" /\ applied = {} /\ tls = NoTls
  BY <1>now DEF StageInv, BuildInv, BuildTypes, Untouched
<1>1. CASE Load
  <2>1. WalkInv'
    BY <1>1, <1>now, WalkStep DEF Load
  <2>2. /\ UNCHANGED vars /\ UNCHANGED <<pc, stage, list, walked, options>>
        /\ stage = "load"
    BY <1>1 DEF Load, buildVars, providerVars, vars
  <2>3. StageInv'
    BY <2>2, <1>now DEF StageInv
  <2>4. ListInv'
    BY <2>2, <1>now DEF ListInv
  <2>5. OptionsInv'
    BY <2>2, <1>now DEF ListInv, OptionsInv, NoOptions
  <2> QED
    BY <1>build, <2>1, <2>2, <2>3, <2>4, <2>5 DEF SetupInv
<1>2. ASSUME NEW m \in Methods, NEW l \in Lists, BeginProvider(m, l) PROVE SetupInv'
  <2>1. /\ UNCHANGED loadVars /\ stage = "load" /\ loadAnswer = "ok"
        /\ stage' = "processors" /\ method' = m /\ list' = l
        /\ UNCHANGED <<exporter, config, pc, open, applied, tls, answer, walked, options,
                       loaded, loadAnswer>>
    BY <1>2 DEF BeginProvider, loadVars
  <2>2. BuildInv'
    <3>1. WellFormed(exporter, config)'
      BY <2>1, <1>now, SameWellFormed DEF BuildInv, BuildTypes
    <3> QED
      BY <2>1, <3>1, <1>now, <1>idle DEF BuildInv, BuildTypes, Untouched, Going, Built,
                                         Refused, Ended
  <2>3. StageInv'
    BY <2>1, <1>now DEF StageInv
  <2>4. options = NoOptions /\ walked = 0
    BY <2>1, <1>now DEF ListInv
  <2>5. ListInv'
    <3>1. Len(l) \in Nat /\ DOMAIN l = 1..Len(l)
      <4>1. PICK n \in 0..MaxList : l \in [1..n -> Processors \cup {Nobody}]
        BY DEF Lists, Processors
      <4>2. n \in Nat
        BY MaxListAssumption
      <4>3. l \in Seq(Processors \cup {Nobody})
        BY <4>1, <4>2
      <4> QED
        BY <4>3
    <3> QED
      BY <2>1, <2>4, <3>1 DEF ListInv
  <2>6. OptionsInv'
    <3>1. ASSUME NEW type PROVE LastUpTo(l, 0, type, Nobody)
      BY DEF LastUpTo
    <3> QED
      BY <2>1, <2>4, <3>1 DEF OptionsInv, NoOptions
  <2> QED
    BY <1>walk, <2>1, <2>2, <2>3, <2>5, <2>6 DEF SetupInv
<1>3. CASE ApplyResource
  <2> DEFINE k == Current
  <2>1. /\ UNCHANGED loadVars /\ UNCHANGED vars
        /\ UNCHANGED <<stage, list, loaded, pc, loadAnswer>>
        /\ stage = "processors" /\ walked' = walked + 1 /\ Pending /\ Found
        /\ loaded["processors"][k].kind = "resource"
        /\ options' = [options EXCEPT !.resource = ResourceOpts(loaded["processors"][k]),
                                      !.of = k]
    BY <1>3 DEF ApplyResource, Pending, buildVars, loadVars, vars
  <2>2. /\ ListInv' /\ walked \in Nat /\ k = list[walked + 1]
    BY <1>now, <2>1, ListMoves
  <2>3. k \in Processors /\ k # Nobody /\ k.type = "resource"
    BY <1>now, <2>1, ProcessorKinds DEF StageInv, Found, Processors
  <2> HIDE DEF k
  <2>4. options' = [resource |-> ResourceOpts(loaded["processors"][k]), of |-> k,
                    sampler |-> options.sampler, by |-> options.by]
    BY <1>now, <2>1 DEF OptionsInv
  <2>5. /\ LastUpTo(list, walked + 1, "resource", k)
        /\ LastUpTo(list, walked + 1, "sampler", options.by)
    BY <1>now, <2>2, <2>3, LastMoves DEF OptionsInv
  <2>6. OptionsInv'
    BY <1>now, <2>1, <2>3, <2>4, <2>5 DEF OptionsInv, Processors
  <2> QED
    BY <1>walk, <1>build, <1>now, <2>1, <2>2, <2>6 DEF SetupInv, StageInv
<1>4. CASE ApplySampler
  <2> DEFINE k == Current
  <2>1. /\ UNCHANGED loadVars /\ UNCHANGED vars
        /\ UNCHANGED <<stage, list, loaded, pc, loadAnswer>>
        /\ stage = "processors" /\ walked' = walked + 1 /\ Pending /\ Found
        /\ loaded["processors"][k].kind = "sampler"
        /\ loaded["processors"][k].type \in Samplers
        /\ options' = [options EXCEPT !.sampler = BuildSampler(loaded["processors"][k]),
                                      !.by = k]
    BY <1>4 DEF ApplySampler, Pending, buildVars, loadVars, vars
  <2>2. /\ ListInv' /\ walked \in Nat /\ k = list[walked + 1]
    BY <1>now, <2>1, ListMoves
  <2>3. k \in Processors /\ k # Nobody /\ k.type = "sampler"
    BY <1>now, <2>1, ProcessorKinds DEF StageInv, Found, Processors
  <2> HIDE DEF k
  <2>4. options' = [resource |-> options.resource, of |-> options.of,
                    sampler |-> BuildSampler(loaded["processors"][k]), by |-> k]
    BY <1>now, <2>1 DEF OptionsInv
  <2>5. /\ LastUpTo(list, walked + 1, "sampler", k)
        /\ LastUpTo(list, walked + 1, "resource", options.of)
    BY <1>now, <2>2, <2>3, LastMoves DEF OptionsInv
  <2>6. OptionsInv'
    BY <1>now, <2>1, <2>3, <2>4, <2>5 DEF OptionsInv, Processors
  <2> QED
    BY <1>walk, <1>build, <1>now, <2>1, <2>2, <2>6 DEF SetupInv, StageInv
<1>5. CASE ProcessorRefused
  <2>1. /\ UNCHANGED loadVars /\ UNCHANGED vars
        /\ UNCHANGED <<loaded, pc, loadAnswer, list, walked, options>>
        /\ stage = "processors" /\ stage' = "refused"
    BY <1>5 DEF ProcessorRefused, Pending, buildVars, loadVars, vars
  <2>2. ListInv'
    BY <1>now, <2>1 DEF ListInv, Processors
  <2> QED
    BY <1>walk, <1>build, <1>now, <2>1, <2>2, OptionsQuiet DEF SetupInv, StageInv
<1>6. ASSUME NEW k \in DOMAIN loaded["exporters"], BeginExporter(k) PROVE SetupInv'
  <2>1. /\ UNCHANGED loadVars /\ stage = "processors" /\ walked = Len(list)
        /\ stage' = "exporter" /\ pc' = "options"
        /\ exporter' = k.type /\ config' = loaded["exporters"][k].knobs
        /\ UNCHANGED <<loaded, loadAnswer, method, open, applied, tls, answer, list,
                       walked, options>>
    BY <1>6 DEF BeginExporter, loadVars
  <2>2. k.type \in Exporters /\ WellFormed(k.type, loaded["exporters"][k].knobs)
    BY <1>now, <2>1, ConfigIsWellFormed DEF StageInv
  <2>3. BuildInv'
    <3>1. WellFormed(exporter, config)'
      BY <2>1, <2>2 DEF WellFormed
    <3> QED
      BY <2>1, <2>2, <3>1, <1>now, <1>idle DEF BuildInv, BuildTypes, Untouched, Going,
                                               Built, Refused, Ended
  <2>4. ListInv'
    BY <1>now, <2>1 DEF ListInv, Processors
  <2> QED
    BY <1>walk, <1>now, <2>1, <2>3, <2>4, OptionsQuiet DEF SetupInv, StageInv
<1>7. CASE Build
  <2>1. /\ Next /\ UNCHANGED loadVars /\ stage = "exporter"
        /\ UNCHANGED <<loaded, loadAnswer, stage, list, walked, options>>
    BY <1>7 DEF Build, loadVars, providerVars
  <2>2. BuildInv'
    BY <2>1, <1>now, BuildStep
  <2>3. ListInv'
    BY <1>now, <2>1 DEF ListInv, Processors
  <2> QED
    BY <1>walk, <1>now, <2>1, <2>2, <2>3, OptionsQuiet DEF SetupInv, StageInv
<1>8. CASE UNCHANGED setupVars
  <2>1. /\ UNCHANGED loadVars /\ UNCHANGED vars
        /\ UNCHANGED <<loaded, loadAnswer, pc, stage, list, walked, options>>
    BY <1>8 DEF setupVars, buildVars, loadVars, providerVars, vars
  <2>2. ListInv'
    BY <1>now, <2>1 DEF ListInv, Processors
  <2> QED
    BY <1>walk, <1>build, <1>now, <2>1, <2>2, OptionsQuiet DEF SetupInv, StageInv
<1> QED
  BY <1>1, <1>2, <1>3, <1>4, <1>5, <1>6, <1>7, <1>8 DEF SetupNext

LEMMA SetupAlways == SetupSpec => []SetupInv
BY SetupStarts, SetupStep, PTL DEF SetupSpec

----------------------------------------------------------------------------
(* The types of the build that is at the end of the way (ExporterBuild).   *)
THEOREM Typing == SetupSpec => []TypeOK
<1>1. SetupInv => TypeOK
  BY BuildTyped DEF SetupInv
<1> QED
  BY <1>1, SetupAlways, PTL

(* One look at a document reports everything that is wrong with it, for    *)
(* every document and every order of its maps (config.go:77-121).          *)
THEOREM EveryErrorIsReported == SetupSpec => []LoadReportsAll
<1>1. SetupInv => LoadReportsAll
  BY WalkReports DEF SetupInv
<1> QED
  BY <1>1, SetupAlways, PTL

(* What was set has an effect or the build is refused, for every config,   *)
(* exporter and method (README.md:116-117).                                *)
THEOREM NothingIsDropped == SetupSpec => []NothingDropped
<1>1. SetupInv => NothingDropped
  BY EveryKnobHeard DEF SetupInv
<1> QED
  BY <1>1, SetupAlways, PTL

(* A queue that is switched off never stands in the way of a build, for    *)
(* every config (queue.go:69-75, 96-102).                                  *)
THEOREM DisabledQueueIsIgnored == SetupSpec => []DisabledQueueBuilds
<1>1. SetupInv => DisabledQueueBuilds
  BY DisabledQueue DEF SetupInv
<1> QED
  BY <1>1, SetupAlways, PTL

(* A client trusts and presents what its config says, for every config     *)
(* (tls.go:55-77, 126-198, 228).                                           *)
THEOREM TlsIsHonoured == SetupSpec => []TlsHonoured
<1>1. SetupInv => TlsHonoured
  BY TlsHolds DEF SetupInv
<1> QED
  BY <1>1, SetupAlways, PTL

----------------------------------------------------------------------------
(* A sequence whose elements are replaced one by one keeps its length.     *)
LEMMA SameLength ==
  ASSUME NEW s, IsSequence(s), NEW f, f = [i \in DOMAIN f |-> f[i]],
         DOMAIN f = DOMAIN s
  PROVE  Len(f) = Len(s)
<1> DEFINE S == {s[i] : i \in DOMAIN s}
           F == {f[i] : i \in DOMAIN f}
<1>1. Len(s) \in Nat /\ DOMAIN s = 1..Len(s)
  BY LenProperties DEF IsSequence
<1>2. f \in [1..Len(s) -> F]
  BY <1>1
<1>3. f \in Seq(F) /\ DOMAIN f = 1..Len(f) /\ Len(f) \in Nat
  BY <1>1, <1>2
<1> QED
  BY <1>1, <1>3

(* An item is kept; an integer that fits is kept as a signed one. *)
LEMMA ScalarReads ==
  ASSUME NEW v, v.type \in Elements PROVE Reads(Attribute(v), v)
<1>1. CASE v.type # "uint64"
  BY <1>1 DEF Attribute, Reads
<1>2. CASE v.type = "uint64"
  <2>1. v.n < 2^(Width - 1) => AsInt(v.n) = v.n
    BY DEF AsInt
  <2> QED
    BY <1>2, <2>1 DEF Attribute, Reads
<1> QED
  BY <1>1, <1>2

(* A list that decodes has all of its items: they are of one type.         *)
LEMMA SliceReads ==
  ASSUME NEW vs, IsSequence(vs), DecodeSlice(vs).outcome \notin {"error", "panic"}
  PROVE  LET a == DecodeSlice(vs).value
         IN  /\ a.type = "list" /\ Len(a.items) = Len(vs)
             /\ \A j \in DOMAIN vs : Reads(a.items[j], vs[j])
<1>1. CASE vs = <<>>
  <2>1. DecodeSlice(vs).value = List(<<>>)
    BY <1>1 DEF DecodeSlice, Decoded
  <2> QED
    BY <1>1, <2>1 DEF List
<1>2. CASE vs # <<>>
  <2> DEFINE items == [i \in DOMAIN vs |-> Attribute(vs[i])]
  <2>1. vs[1].type \in Elements /\ SameType(vs) /\ DecodeSlice(vs) = Decoded(List(items))
    BY <1>2 DEF DecodeSlice, Refusal, Panic
  <2>2. DecodeSlice(vs).value.type = "list" /\ DecodeSlice(vs).value.items = items
    BY <2>1 DEF Decoded, List
  <2>3. Len(items) = Len(vs)
    BY SameLength
  <2>4. ASSUME NEW j \in DOMAIN vs PROVE Reads(items[j], vs[j])
    <3>1. vs[j].type \in Elements
      BY <2>1 DEF SameType
    <3> QED
      BY <3>1, ScalarReads
  <2> QED
    BY <2>2, <2>3, <2>4
<1> QED
  BY <1>1, <1>2

(* What a value of an attribute decodes to is what was written. *)
LEMMA ValueReads ==
  ASSUME NEW v, v.type = "list" => IsSequence(v.items),
         DecodeValue(v).outcome \notin {"error", "panic"}
  PROVE  LET a == DecodeValue(v).value
         IN  IF v.type = "list"
             THEN /\ a.type = "list"
                  /\ Len(a.items) = Len(v.items)
                  /\ \A j \in DOMAIN v.items : Reads(a.items[j], v.items[j])
             ELSE Reads(a, v)
<1>1. CASE v.type \in Elements
  <2>1. v.type # "list"
    BY <1>1 DEF Elements
  <2>2. DecodeValue(v).value = Attribute(v)
    BY <1>1 DEF DecodeValue, Decoded
  <2> QED
    BY <1>1, <2>1, <2>2, ScalarReads
<1>2. CASE v.type \notin Elements
  <2>1. v.type = "list" /\ DecodeValue(v) = DecodeSlice(v.items)
    BY <1>2 DEF DecodeValue, Refusal
  <2> QED
    BY <2>1, SliceReads
<1> QED
  BY <1>1, <1>2

(* A resource that was accepted has every attribute that it writes down.   *)
LEMMA ResourceReads ==
  ASSUME WalkInv, loadAnswer = "ok", NEW k \in Processors, k.type = "resource"
  PROVE  LET node == doc["processors"][k]
         IN  ReadsAll(loaded["processors"][k].attributes,
                      IF node.kind = "null" THEN <<>> ELSE node.attributes)
<1> DEFINE node == doc["processors"][k]
           as == loaded["processors"][k].attributes
<1>1. /\ loaded["processors"][k] = Decode("resource", node).value
      /\ Decode("resource", node).outcome \notin {"error", "panic"}
      /\ NodeOf("processors", "resource", node)
  BY AcceptedDoc DEF Sections, Processors
<1> HIDE DEF node
<1>2. CASE node.kind = "null"
  <2>1. as = <<>>
    BY <1>1, <1>2 DEF Decode, Decoded, Default
  <2> QED
    BY <1>2, <2>1 DEF ReadsAll, node
<1>3. CASE node.kind = "text"
  BY <1>1, <1>3 DEF Decode
<1>4. CASE ResourceNode(node)
  <2> DEFINE vs == node.attributes
             decoded == [i \in DOMAIN vs |-> DecodeValue(vs[i])]
             values == [i \in DOMAIN decoded |-> decoded[i].value]
  <2>1. Decode("resource", node) = DecodeResource(node)
    BY <1>4 DEF Decode, ResourceNode
  <2>2. as = values
    BY <1>1, <1>4, <2>1 DEF DecodeResource, ResourceNode
  <2>3. ASSUME NEW i \in DOMAIN vs
        PROVE  DecodeValue(vs[i]).outcome \notin {"error", "panic"}
    BY <1>1, <2>1 DEF DecodeResource
  <2>4. Len(values) = Len(vs)
    BY <1>4, SameLength DEF ResourceNode
  <2>5. ASSUME NEW i \in DOMAIN vs
        PROVE  IF vs[i].type = "list"
               THEN /\ values[i].type = "list"
                    /\ Len(values[i].items) = Len(vs[i].items)
                    /\ \A j \in DOMAIN vs[i].items :
                          Reads(values[i].items[j], vs[i].items[j])
               ELSE Reads(values[i], vs[i])
    <3>1. vs[i].type = "list" => IsSequence(vs[i].items)
      BY <1>4 DEF ResourceNode
    <3>2. values[i] = DecodeValue(vs[i]).value
      OBVIOUS
    <3> HIDE DEF vs, values
    <3> QED
      BY <2>3, <3>1, <3>2, ValueReads
  <2>6. ReadsAll(values, vs)
    <3> HIDE DEF vs, values
    <3> QED
      BY <2>4, <2>5 DEF ReadsAll
  <2>7. node.kind # "null"
    BY <1>4 DEF ResourceNode
  <2> QED
    BY <2>2, <2>6, <2>7 DEF node
<1> QED
  BY <1>1, <1>2, <1>3, <1>4 DEF NodeOf

(* A sampler of a known type is of the type and has the ratio that were    *)
(* asked for, and is always on where neither was.                          *)
LEMMA SamplerReads ==
  ASSUME WalkInv, loadAnswer = "ok", NEW k \in Processors, k.type = "sampler",
         loaded["processors"][k].type \in Samplers
  PROVE  LET node == doc["processors"][k]
             built == BuildSampler(loaded["processors"][k])
         IN  IF node.kind = "null" THEN built.type = "always_on"
             ELSE /\ built.type = IF node.type = "unset" THEN "always_on" ELSE node.type
                  /\ node.type \in Sampling => built.ratio = node.ratio
<1> DEFINE node == doc["processors"][k]
<1>1. /\ loaded["processors"][k] = Decode("sampler", node).value
      /\ Decode("sampler", node).outcome \notin {"error", "panic"}
      /\ NodeOf("processors", "sampler", node)
  BY AcceptedDoc DEF Sections, Processors
<1> HIDE DEF node
<1>2. CASE node.kind = "null"
  <2>1. Decode("sampler", node) = Decoded(Default("sampler"))
    BY <1>2 DEF Decode
  <2>2. Default("sampler").type = "unset"
    BY DEF Default
  <2>3. loaded["processors"][k].type = "unset"
    BY <1>1, <2>1, <2>2 DEF Decoded
  <2>4. BuildSampler(loaded["processors"][k]) = AlwaysOn
    BY <2>3 DEF BuildSampler, Sampling
  <2> QED
    BY <1>2, <2>4 DEF AlwaysOn, node
<1>3. CASE node.kind = "text"
  BY <1>1, <1>3 DEF Decode
<1>4. CASE SamplerNode(node)
  <2>1. Decode("sampler", node) = Decoded(node) /\ node.kind # "null"
    BY <1>4 DEF Decode, SamplerNode
  <2>2. loaded["processors"][k] = node
    BY <1>1, <2>1 DEF Decoded
  <2>3. node.type \in Samplers
    BY <2>2
  <2>4. /\ BuildSampler(node).type = IF node.type = "unset" THEN "always_on" ELSE node.type
        /\ node.type \in Sampling => BuildSampler(node).ratio = node.ratio
    BY <2>3 DEF BuildSampler, Samplers, Sampling, AlwaysOn
  <2> QED
    BY <2>1, <2>2, <2>4 DEF node
<1> QED
  BY <1>1, <1>2, <1>3, <1>4 DEF NodeOf

(* A provider that goes on to its exporters has the resource and the       *)
(* sampler that come last on its list, as the document writes them, for    *)
(* every document, list and width of an integer (attr.go:40-99,            *)
(* resource.go:45-57, sampler.go:33-48, resolver.go:135-160); nothing is   *)
(* said of those that come earlier, nor of detectors.                      *)
THEOREM ProcessorsAreHonoured == SetupSpec => []ProcessorsHonoured
<1>1. SetupInv => ProcessorsHonoured
  <2> SUFFICES ASSUME SetupInv, stage = "exporter" PROVE ProcessorsHonoured
    BY DEF ProcessorsHonoured
  <2>1. /\ WalkInv /\ OptionsInv /\ loadAnswer = "ok" /\ walked = Len(list)
        /\ DOMAIN list = 1..walked
        /\ \A i \in DOMAIN list : list[i] \in Processors
    BY DEF SetupInv, StageInv, ListInv
  <2>2. Processors = DOMAIN doc["processors"]
    BY <2>1, AcceptedDoc DEF Processors, Sections
  <2>3. IsLast("resource", options.of) /\ IsLast("sampler", options.by)
    BY <2>1 DEF OptionsInv, LastUpTo, IsLast
  <2>4. ASSUME options.of # Nobody
        PROVE  LET node == doc["processors"][options.of]
               IN  ReadsAll(options.resource.attributes,
                            IF node.kind = "null" THEN <<>> ELSE node.attributes)
    <3>1. /\ options.of \in Processors /\ options.of.type = "resource"
          /\ options.resource = ResourceOpts(loaded["processors"][options.of])
      BY <2>1, <2>4 DEF OptionsInv
    <3>2. options.resource.attributes = loaded["processors"][options.of].attributes
      BY <3>1 DEF ResourceOpts
    <3> QED
      BY <2>1, <3>1, <3>2, ResourceReads
  <2>5. IF options.by = Nobody \/ doc["processors"][options.by].kind = "null"
        THEN options.sampler.type = "always_on"
        ELSE LET node == doc["processors"][options.by]
             IN  /\ options.sampler.type =
                       IF node.type = "unset" THEN "always_on" ELSE node.type
                 /\ node.type \in Sampling => options.sampler.ratio = node.ratio
    <3>1. CASE options.by = Nobody
      BY <2>1, <3>1 DEF OptionsInv, AlwaysOn
    <3>2. CASE options.by # Nobody
      <4>1. /\ options.by \in Processors /\ options.by.type = "sampler"
            /\ loaded["processors"][options.by].type \in Samplers
            /\ options.sampler = BuildSampler(loaded["processors"][options.by])
        BY <2>1, <3>2 DEF OptionsInv
      <4> QED
        BY <2>1, <3>2, <4>1, SamplerReads
    <3> QED
      BY <3>1, <3>2
  <2> QED
    BY <2>1, <2>2, <2>3, <2>4, <2>5 DEF ProcessorsHonoured
<1> QED
  BY <1>1, SetupAlways, PTL
=============================================================================
