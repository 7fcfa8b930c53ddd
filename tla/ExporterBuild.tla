--------------------------- MODULE ExporterBuild ---------------------------
(***************************************************************************)
(* How an exporter config becomes a component: otlp/exporter.go,           *)
(* otlp/http.go, debug/exporter.go, pretty/exporter.go and queue.go.       *)
(*                                                                         *)
(* A build checks the config, turns it into options of the SDK, makes the  *)
(* SDK's exporter, and puts a processor in front of it.  It can be refused *)
(* before and after the exporter was made.                                 *)
(*                                                                         *)
(* A knob is a field of the config, and a config is a function of the      *)
(* knobs that are set to something else than the default (unset, or grpc,  *)
(* none, cumulative).  The values are those that the code tells apart:     *)
(*   set          a value that is meant to have an effect                  *)
(*   unsupported  a value that is parsed and not known, or fails to load   *)
(*   negative     a number below zero                                      *)
(* and some others that a single knob has.                                 *)
(***************************************************************************)
EXTENDS TlsBuild, Naturals

GrpcOnly == {"keepalive", "read_buffer_size", "write_buffer_size",
             "wait_for_ready", "balancer_name", "authority",
             "reconnection_period"}
Transport == {"protocol", "endpoint", "compression", "headers", "timeout"}
Retry == {"retry.enabled", "initial_interval", "max_interval",
          "max_elapsed_time", "backoff_factors"}
Metric == {"temporality", "exemplar_filter", "interval"}
Queue == {"queue.enabled", "num_consumers", "wait_for_result",
          "block_on_overflow", "queue_size", "min_size", "max_size",
          "flush_timeout"}
Knobs == GrpcOnly \cup Transport \cup TlsKnobs \cup Retry \cup Metric
                  \cup Queue

Numbers == {"read_buffer_size", "write_buffer_size", "reconnection_period",
            "timeout", "initial_interval", "max_interval",
            "max_elapsed_time", "interval", "num_consumers", "queue_size",
            "min_size", "max_size", "flush_timeout"}

(* An endpoint is a host and port, or a URL of one of two schemes.         *)
Reached == {"host", "http", "https"}

ValuesOf(k) ==
    CASE k = "protocol"  -> {"http", "unsupported"}
      [] k \in TlsKnobs  -> TlsValuesOf(k)
      [] k = "keepalive" -> {"set", "empty", "no time"}
      [] k = "endpoint"  -> Reached \cup {"unsupported"}
      [] k \in {"compression", "headers", "temporality",
                "exemplar_filter"} -> {"set", "unsupported"}
      [] k \in {"retry.enabled", "queue.enabled"} -> {"true", "false"}
      [] k \in Numbers   -> {"set", "negative"}
      [] OTHER           -> {"set"}

Methods == {"SpanExporter", "MetricExporter", "MetricReader", "LogExporter"}

Exporters == {"otlp", "debug", "pretty"}
(* The knobs that the config of an exporter has fields for. *)
FieldsOf(e) == CASE e = "otlp" -> Knobs [] e = "debug" -> Queue [] OTHER -> {}

CONSTANT Configs        \* the configs that are built

ASSUME ConfigsAssumption ==
    \A c \in Configs : /\ DOMAIN c \subseteq Knobs
                       /\ \A k \in DOMAIN c : c[k] \in ValuesOf(k)

VARIABLES
    exporter,           \* otlp, debug or pretty
    method,             \* the method of its config that is called
    config,
    pc,                 \* the next step of the call, idle before it
    open,               \* a connection, or an output, was opened for it
    applied,            \* the knobs that have become options of the SDK
    tls,                \* what the connection trusts and presents, if it has TLS
    answer

vars == <<exporter, method, config, pc, open, applied, tls, answer>>

TypeOK ==
    /\ exporter \in Exporters
    /\ method \in Methods
    /\ DOMAIN config \subseteq Knobs
    /\ pc \in {"idle", "options", "new", "processor", "returned"}
    /\ open \in BOOLEAN
    /\ applied \subseteq Knobs
    /\ tls \in {NoTls, DefaultTls, BuildTls(config)}
    /\ answer \in {"none", "built", "refused", "failed"}
    /\ pc = "returned" <=> answer # "none"

Init ==
    /\ exporter \in Exporters
    /\ method \in Methods
    /\ config \in Configs
    /\ DOMAIN config \subseteq FieldsOf(exporter)
    /\ pc = "options"
    /\ open = FALSE
    /\ applied = {}
    /\ tls = NoTls
    /\ answer = "none"

IsSet(k) == k \in DOMAIN config
Is(k, v) == IsSet(k) /\ config[k] = v
IsHttp == Is("protocol", "http")
IsMetric == method \in {"MetricExporter", "MetricReader"}

----------------------------------------------------------------------------
(* Mutant of RejectGRPCOnly: a knob is missing from the list.              *)
RejectGRPCOnlyButOne == \E k \in GrpcOnly \ {"reconnection_period"} : IsSet(k)

RejectGRPCOnly == \E k \in GrpcOnly : IsSet(k)

(* retryPolicy: an untouched block leaves the defaults of the SDK, a       *)
(* partial one has its backoff intervals filled in.                        *)
RetryTouched == \E k \in Retry \ {"backoff_factors"} : IsSet(k)
RetryApplied == IF RetryTouched THEN Retry \ {"backoff_factors"} ELSE {}

(* What can be refused before the exporter is made. *)
ProtocolRefused == Is("protocol", "unsupported")
TlsRefused == IsBuilt(config) /\ BuildRefused(config)
DialRefused == ~IsHttp /\ Is("keepalive", "no time")
EndpointRefused == Is("endpoint", "unsupported")
CompressionRefused == Is("compression", "unsupported")
HeadersRefused == Is("headers", "unsupported")
RetryRefused == IsSet("backoff_factors")
TemporalityRefused == IsMetric /\ Is("temporality", "unsupported")

(* spanOpts, metricOpts, logOpts and their HTTP twins. *)
OptionsRefused ==
    \/ ProtocolRefused
    \/ IsHttp /\ RejectGRPCOnly
    \/ TlsRefused
    \/ DialRefused
    \/ EndpointRefused
    \/ CompressionRefused
    \/ HeadersRefused
    \/ RetryRefused
    \/ TemporalityRefused

(* The options that decide how a connection is secured, in the order they  *)
(* are appended: that of the TLS block, and that of the endpoint after it. *)
TlsOption ==
    CASE Insecure(config) -> "WithInsecure"
      [] IsBuilt(config)  -> "WithTLS"
      [] OTHER            -> "none"
EndpointOption ==
    CASE Is("endpoint", "http")  -> "WithEndpointURL:http"
      [] Is("endpoint", "https") -> "WithEndpointURL:https"
      [] Is("endpoint", "host")  -> "WithEndpoint"
      [] OTHER                   -> "none"

(* Mutant of ConnOptions: the endpoint comes first.                        *)
ConnOptionsSwapped == <<EndpointOption, TlsOption>>

ConnOptions == <<TlsOption, EndpointOption>>

(* The SDK applies them one after the other, and each that speaks of it    *)
(* says anew whether the connection is insecure: a URL by its scheme.      *)
Cleartext ==
    \E i \in DOMAIN ConnOptions :
        /\ ConnOptions[i] \in {"WithInsecure", "WithEndpointURL:http"}
        /\ \A j \in DOMAIN ConnOptions :
              j > i => ConnOptions[j] # "WithEndpointURL:https"

(* The SDK's connection.  Over gRPC the credentials of a TLS block go      *)
(* before the insecure flag; over HTTP the flag makes it a plain http URL, *)
(* for which the TLS config is not looked at.                              *)
Connection ==
    CASE IsBuilt(config) /\ (~IsHttp \/ ~Cleartext) -> BuildTls(config)
      [] ~IsBuilt(config) /\ ~Cleartext             -> DefaultTls
      [] OTHER                                       -> NoTls

(* The knobs of TLS that the connection is like. *)
TlsEffective ==
    IF Insecure(config) <=> Connection = NoTls THEN TlsApplied(config) ELSE {}

(* What they pass on: a number only when it is positive. *)
OptionsApplied ==
    LET used == Transport \cup (IF IsHttp THEN {} ELSE GrpcOnly)
                          \cup (IF IsMetric THEN {"temporality"} ELSE {})
    IN  {k \in used : \E v \in {"set"} \cup Reached : Is(k, v)}
        \cup RetryApplied \cup TlsEffective

(* debug: an untouched queue is off, any setting is an opt-in. *)
QueueTouched == \E k \in Queue : IsSet(k)
QueueEnabled ==
    /\ ~Is("queue.enabled", "false")
    /\ exporter = "debug" => QueueTouched
    /\ exporter # "pretty"

(* Mutant of RejectUnsupported: the knobs of a disabled queue count.       *)
RejectUnsupportedAlways ==
    \/ \E k \in {"num_consumers", "wait_for_result", "min_size"} : IsSet(k)
    \/ method = "LogExporter" /\ IsSet("block_on_overflow")

(* rejectUnsupported is asked only when the queue is enabled. *)
RejectUnsupported ==
    /\ QueueEnabled
    /\ \/ \E k \in {"num_consumers", "wait_for_result", "min_size"} : IsSet(k)
       \/ method = "LogExporter" /\ IsSet("block_on_overflow")

QueueApplied ==
    {"queue.enabled"} \cup
    {k \in {"queue_size", "max_size", "flush_timeout"} :
        QueueEnabled /\ Is(k, "set")} \cup
    {k \in {"block_on_overflow"} :
        QueueEnabled /\ method = "SpanExporter" /\ IsSet(k)}

(* The options of the provider and the reader that go with a metric.       *)
MetricApplied ==
    {k \in {"exemplar_filter"} : Is(k, "set")} \cup
    {k \in {"interval"} : method = "MetricReader" /\ Is(k, "set")}

----------------------------------------------------------------------------
(* Mutant of Return: an error path that answers nothing at all.            *)
ReturnNothing(a) ==
    /\ pc' = "returned"
    /\ answer' = IF a = "built" THEN a ELSE "none"
    /\ UNCHANGED <<exporter, method, config>>

Return(a) ==
    /\ pc' = "returned"
    /\ answer' = a
    /\ UNCHANGED <<exporter, method, config>>

Goto(l) ==
    /\ pc' = l
    /\ UNCHANGED <<exporter, method, config, answer>>

(* The options of an OTLP exporter.  The pool of the system, where it is   *)
(* asked for, may be out of reach.                                         *)
Options ==
    /\ exporter = "otlp"
    /\ pc = "options"
    /\ \/ OptionsRefused /\ Return("refused") /\ UNCHANGED <<applied, tls>>
       \/ /\ IsBuilt(config)
          /\ "system" \in Roots(config)
          /\ Return("failed")
          /\ UNCHANGED <<applied, tls>>
       \/ /\ ~OptionsRefused
          /\ Goto("new")
          /\ applied' = OptionsApplied
          /\ tls' = Connection
    /\ UNCHANGED open

(* A pretty exporter has logs only. *)
Unimplemented ==
    /\ exporter = "pretty" /\ method # "LogExporter"
    /\ pc = "options"
    /\ Return("refused")
    /\ UNCHANGED <<open, applied, tls>>

(* A debug or pretty exporter opens its outputs first; what was opened is  *)
(* closed when one fails.                                                  *)
OpenOutputs ==
    /\ exporter \in {"debug", "pretty"}
    /\ exporter = "pretty" => method = "LogExporter"
    /\ pc = "options"
    /\ \/ Goto("new") /\ open' = TRUE
       \/ Return("failed") /\ UNCHANGED open
    /\ UNCHANGED <<applied, tls>>

(* The SDK makes the exporter.  A span exporter of OTLP is handed out      *)
(* unstarted; the others connect, and may fail to.                         *)
NewExporter ==
    /\ pc = "new"
    /\ \/ /\ Goto("processor")
          /\ open' = (open \/ (exporter = "otlp" /\ method # "SpanExporter"))
       \/ /\ exporter # "pretty"
          /\ exporter = "otlp" => method # "SpanExporter"
          /\ Return("failed")
          /\ UNCHANGED open
    /\ UNCHANGED <<applied, tls>>

(* BuildSpanProcessor and BuildLogProcessor; a pretty exporter has a simple *)
(* processor and no queue.                                                 *)
Processor ==
    /\ pc = "processor"
    /\ ~IsMetric
    /\ \/ RejectUnsupported /\ Return("refused") /\ UNCHANGED applied
       \/ /\ ~RejectUnsupported
          /\ Return("built")
          /\ applied' = applied \cup QueueApplied
    /\ UNCHANGED <<open, tls>>

(* meterProviderOpts and the periodic reader. *)
Reader ==
    /\ pc = "processor"
    /\ IsMetric
    /\ \/ /\ exporter = "otlp"
          /\ Is("exemplar_filter", "unsupported")
          /\ Return("refused")
          /\ UNCHANGED applied
       \/ /\ exporter = "otlp" => ~Is("exemplar_filter", "unsupported")
          /\ Return("built")
          /\ applied' = IF exporter = "otlp" THEN applied \cup MetricApplied
                                             ELSE applied
    /\ UNCHANGED <<open, tls>>

Next == Options \/ Unimplemented \/ OpenOutputs \/ NewExporter \/ Processor \/ Reader

Spec == Init /\ [][Next]_vars

----------------------------------------------------------------------------
(* Correctness. *)

(* The knobs that are about what is built (README.md:94-102, 121-122). *)
Governs(k) ==
    CASE k \in Queue -> ~IsMetric
      [] k \in {"temporality", "exemplar_filter"} -> exporter = "otlp" /\ IsMetric
      [] k = "interval" -> exporter = "otlp" /\ method = "MetricReader"
      [] OTHER -> exporter = "otlp"

(* What was set has an effect or the build is refused (README.md:116-117), *)
(* under either protocol and for every signal.  A negative number is read  *)
(* as unset, an empty keepalive as none, and a queue that is switched off  *)
(* takes its knobs with it, as tls.insecure does with those of TLS.  A PEM *)
(* text passes over the file next to it, and a reload over the texts       *)
(* (tls.go:128-196).  Two exceptions nobody is told of: the scheme of an   *)
(* endpoint comes after the TLS block, so that https:// undoes             *)
(* tls.insecure under either protocol, and http:// under protocol http     *)
(* undoes the whole block (otlp/exporter.go:126-150, http.go:139-157).     *)
PassedOver(k) ==
    \/ config[k] \in {"negative", "empty"}
    \/ k \in Queue /\ Is("queue.enabled", "false")
    \/ k \in TlsKnobs \ {"tls.insecure"} /\ IsSet("tls.insecure")
    \/ k = "tls.ca_file" /\ IsSet("tls.ca_pem")
    \/ k = "tls.cert_file" /\ IsSet("tls.cert_pem") /\ ~Is("tls.reload_interval", "set")
    \/ k = "tls.key_file" /\ IsSet("tls.key_pem") /\ ~Is("tls.reload_interval", "set")
    \/ k \in Texts /\ Is("tls.reload_interval", "set")
    \/ k = "tls.insecure" /\ Is("endpoint", "https")
    \/ k \in TlsKnobs \ {"tls.insecure"} /\ IsHttp /\ Is("endpoint", "http")

NothingDropped ==
    answer = "built" =>
        \A k \in DOMAIN config : Governs(k) /\ ~PassedOver(k) => k \in applied

(* An exporter sends in the clear only if its config says so last: with an *)
(* http:// endpoint, or with tls.insecure and no https:// endpoint after   *)
(* it; and a TLS block gives way to http:// only under protocol http.      *)
(* Otherwise the connection trusts the CA of the block whenever there is   *)
(* one, under either field, and the system only without one or on demand;  *)
(* it never goes on without a client certificate, or with half of one,     *)
(* when the block has any part of it; and what is to be reloaded comes     *)
(* from files (otlp/exporter.go:126-150, 421-439, tls.go:55-77, 126-198).  *)
TlsHonoured ==
    LET Counts(k) == IsSet(k) /\ ~IsSet("tls.insecure")
    IN  exporter = "otlp" /\ answer = "built" =>
          /\ tls = NoTls =>
               \/ Is("endpoint", "http") /\ (IsHttp \/ ~IsBuilt(config))
               \/ IsSet("tls.insecure") /\ ~Is("endpoint", "https")
          /\ tls # NoTls =>
               /\ tls.roots \cap Anchors = {} <=> \A k \in Anchors : ~Counts(k)
               /\ "system" \in tls.roots <=>
                     \/ \A k \in Anchors : ~Counts(k)
                     \/ Counts("tls.include_system_ca_certs_pool")
               /\ (\E k \in Texts \cup Files : Counts(k)) =>
                     tls.certificate # {} /\ tls.key # {}
               /\ Counts("tls.reload_interval") /\ Is("tls.reload_interval", "set") =>
                     tls.reloads /\ tls.certificate \cup tls.key = Files

(* A queue that is switched off never stands in the way of a build: what   *)
(* is refused then is refused for the transport (queue.go:69-75, 96-102).  *)
DisabledQueueBuilds ==
    (/\ answer = "refused"
     /\ ~IsMetric
     /\ Is("queue.enabled", "false"))
    => exporter = "otlp" /\ OptionsRefused

(* An OTLP build that is refused leaves no connection open behind it: the  *)
(* caller, who owns the exporter's lifecycle and must shut it, is given    *)
(* nothing that it could shut (otlp/exporter.go:183-186).                  *)
RefusalLeavesNothingOpen == exporter = "otlp" /\ answer = "refused" => ~open
=============================================================================
