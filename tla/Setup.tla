------------------------------- MODULE Setup -------------------------------
(***************************************************************************)
(* From a document to what a provider is made of: the config is loaded,    *)
(* the processors that a provider lists are applied to it in the order of  *)
(* the list, and one of its exporters is built.  Composes ConfigLoad and   *)
(* ExporterBuild with the processors of resource.go and sampler.go.  Which *)
(* exporters a provider has, and what becomes of them, is told by Resolver.*)
(***************************************************************************)
EXTENDS ConfigLoad, ExporterBuild

CONSTANT MaxList        \* bound: how many processors a provider lists
ASSUME MaxListAssumption == MaxList \in Nat

IsSequence(s) == s \in Seq({s[i] : i \in DOMAIN s})

(* The node of an entry is one of its type, and what is written down for a *)
(* knob is one of its values.                                              *)
ExporterNode(node) ==
    /\ node.kind = "exporter"
    /\ node = [kind |-> "exporter", knobs |-> node.knobs]
    /\ \A k \in DOMAIN node.knobs \cap Knobs : node.knobs[k] \in ValuesOf(k)
ResourceNode(node) ==
    /\ node.kind = "resource"
    /\ node = [kind |-> "resource", attributes |-> node.attributes,
               detectors |-> node.detectors]
    /\ IsSequence(node.attributes)
    /\ \A i \in DOMAIN node.attributes :
          node.attributes[i].type = "list" => IsSequence(node.attributes[i].items)
SamplerNode(node) ==
    /\ node.kind = "sampler"
    /\ node = [kind |-> "sampler", type |-> node.type, ratio |-> node.ratio]

NodeOf(s, type, node) ==
    \/ node.kind \in {"null", "text"}
    \/ s = "exporters" /\ ExporterNode(node)
    \/ s = "processors" /\ type = "resource" /\ ResourceNode(node)
    \/ s = "processors" /\ type = "sampler" /\ SamplerNode(node)

ASSUME SetupAssumption ==
    /\ DOMAIN Fields = Exporters
    /\ \A e \in Exporters : Fields[e] = FieldsOf(e)
    /\ Registered["exporters"] \subseteq Exporters
    /\ Registered["processors"] \subseteq {"resource", "sampler"}
    /\ \A d \in Docs : \A s \in Sections : \A k \in DOMAIN d[s] :
          NodeOf(s, k.type, d[s][k])

VARIABLES
    stage,              \* load, processors, exporter or refused
    list,               \* the processors that the provider lists
    walked,             \* how many of them have been applied
    options,            \* what they have given the provider
    from                \* the key of the exporter that is built

buildVars == vars
providerVars == <<stage, list, walked, options, from>>
setupVars == <<loadVars, buildVars, providerVars>>

Nobody == [type |-> "", name |-> ""]
AlwaysOn == [type |-> "always_on", ratio |-> 0]
NoOptions == [resource |-> Default("resource"), of |-> Nobody,
              sampler |-> AlwaysOn, by |-> Nobody]

SetupInit ==
    /\ LoadInit
    /\ exporter = "otlp" /\ method = "SpanExporter" /\ config = <<>>
    /\ pc = "idle" /\ open = FALSE /\ applied = {} /\ tls = NoTls
    /\ answer = "none"
    /\ stage = "load"
    /\ list = <<>>
    /\ walked = 0
    /\ options = NoOptions
    /\ from = Nobody

----------------------------------------------------------------------------
Load ==
    /\ stage = "load"
    /\ LoadNext
    /\ UNCHANGED <<buildVars, providerVars>>

(* What a provider may list: any processors of the config in any order,    *)
(* one of them more than once, and one that the config does not have.      *)
Lists == UNION {[1..n -> DOMAIN loaded["processors"] \cup {Nobody}] : n \in 0..MaxList}

(* A provider for the signal of a method. *)
BeginProvider(m, l) ==
    /\ stage = "load"
    /\ loadAnswer = "ok"
    /\ stage' = "processors"
    /\ method' = m
    /\ list' = l
    /\ UNCHANGED <<loadVars, exporter, config, pc, open, applied, tls, answer,
                   walked, options, from>>

(* The one whose turn it is. *)
Pending == stage = "processors" /\ walked < Len(list)
Current == list[walked + 1]
Found == Current \in DOMAIN loaded["processors"]

(* Resource.opts: a detector that is not listed there is passed over.      *)
ResourceOpts(r) == [r EXCEPT !.detectors = @ \cap {"listed"}]

(* One resource replaces the one before, as it does in the SDK.            *)
ApplyResource ==
    /\ Pending
    /\ Found
    /\ loaded["processors"][Current].kind = "resource"
    /\ walked' = walked + 1
    /\ options' = [options EXCEPT !.resource = ResourceOpts(loaded["processors"][Current]),
                                  !.of = Current]
    /\ UNCHANGED <<loadVars, buildVars, stage, list, from>>

Samplers == {"unset", "always_on", "always_off", "trace_id_ratio", "parent_based"}
Sampling == {"trace_id_ratio", "parent_based"}

(* Sampler.build: the ratio is that of the root for a parent based one.    *)
BuildSampler(s) ==
    CASE s.type \in Sampling  -> [type |-> s.type, ratio |-> s.ratio]
      [] s.type = "always_off" -> [type |-> "always_off", ratio |-> 0]
      [] OTHER                 -> AlwaysOn

(* A sampler has options for a tracer only; one replaces the one before.   *)
ApplySampler ==
    /\ Pending
    /\ Found
    /\ loaded["processors"][Current].kind = "sampler"
    /\ loaded["processors"][Current].type \in Samplers
    /\ method = "SpanExporter"
    /\ walked' = walked + 1
    /\ options' = [options EXCEPT !.sampler = BuildSampler(loaded["processors"][Current]),
                                  !.by = Current]
    /\ UNCHANGED <<loadVars, buildVars, stage, list, from>>

(* Not in the config, without options for the signal, of an unknown type,  *)
(* or a resource whose detectors fail.                                     *)
ProcessorRefused ==
    /\ Pending
    /\ Found =>
          LET p == loaded["processors"][Current]
          IN  \/ p.kind = "resource" /\ p.detectors \cap {"listed"} # {}
              \/ /\ p.kind = "sampler"
                 /\ method = "SpanExporter" => p.type \notin Samplers
    /\ stage' = "refused"
    /\ UNCHANGED <<loadVars, buildVars, list, walked, options, from>>

BeginExporter(k) ==
    /\ stage = "processors"
    /\ walked = Len(list)
    /\ stage' = "exporter"
    /\ from' = k
    /\ exporter' = k.type
    /\ config' = loaded["exporters"][k].knobs
    /\ pc' = "options"
    /\ UNCHANGED <<loadVars, method, open, applied, tls, answer, list, walked,
                   options>>

Build ==
    /\ stage = "exporter"
    /\ Next
    /\ UNCHANGED <<loadVars, providerVars>>

SetupNext ==
    \/ Load
    \/ \E m \in Methods, l \in Lists : BeginProvider(m, l)
    \/ ApplyResource \/ ApplySampler \/ ProcessorRefused
    \/ \E k \in DOMAIN loaded["exporters"] : BeginExporter(k)
    \/ Build

SetupSpec == SetupInit /\ [][SetupNext]_setupVars

----------------------------------------------------------------------------
(* Correctness. *)

(* An integer that does not fit wraps; anything else is what was written.  *)
Reads(a, v) ==
    CASE v.type = "uint64" -> v.n < 2^(Width - 1) => a = Value("int64", v.n)
      [] OTHER -> a = v
ReadsAll(as, vs) ==
    /\ Len(as) = Len(vs)
    /\ \A i \in DOMAIN vs :
          IF vs[i].type = "list"
          THEN /\ as[i].type = "list"
               /\ Len(as[i].items) = Len(vs[i].items)
               /\ \A j \in DOMAIN vs[i].items :
                     Reads(as[i].items[j], vs[i].items[j])
          ELSE Reads(as[i], vs[i])

(* The last one of a type on the list, Nobody without one.                 *)
IsLast(type, k) ==
    IF \E i \in DOMAIN list : list[i].type = type
    THEN \E i \in DOMAIN list :
            /\ list[i] = k
            /\ k.type = type
            /\ \A j \in DOMAIN list : j > i => list[j].type # type
    ELSE k = Nobody

(* A provider that goes on to its exporters has found every processor of   *)
(* its list; its resource is that of the last resource on the list, with   *)
(* every attribute that the document writes there, in its place, with the  *)
(* value that was written, and no item of a list less; and its sampler is  *)
(* the last one, of the type and, where the type has one, with the ratio   *)
(* that were asked for, and always_on without any.  What cannot be had,    *)
(* the wrapping of a too large integer apart, stops the setup instead      *)
(* (attr.go:40-99, resource.go:45-57, sampler.go:33-48,                    *)
(* resolver.go:135-160).  Nothing is said of an earlier resource or        *)
(* sampler, which is replaced without a word, nor of a detector whose name *)
(* is not known, which is left out without one (resource.go:60-98).        *)
ProcessorsHonoured ==
    stage = "exporter" =>
        /\ \A i \in DOMAIN list : list[i] \in DOMAIN doc["processors"]
        /\ IsLast("resource", options.of)
        /\ IsLast("sampler", options.by)
        /\ options.of # Nobody =>
              LET node == doc["processors"][options.of]
              IN  ReadsAll(options.resource.attributes,
                      IF node.kind = "null" THEN <<>> ELSE node.attributes)
        /\ IF options.by = Nobody \/ doc["processors"][options.by].kind = "null"
           THEN options.sampler.type = "always_on"
           ELSE LET node == doc["processors"][options.by]
                IN  /\ options.sampler.type =
                           IF node.type = "unset" THEN "always_on" ELSE node.type
                    /\ node.type \in Sampling => options.sampler.ratio = node.ratio

(* A queue that is persistent is not supported, and a config that asks for *)
(* one is rejected (README.md:116-121).                                    *)
StorageRejected ==
    answer = "built" /\ stage = "exporter" =>
        LET node == doc["exporters"][from]
        IN  node.kind = "exporter" => "storage" \notin DOMAIN node.knobs
=============================================================================
