---------------------------- MODULE BuildProofs ----------------------------
(***************************************************************************)
(* What a build guarantees for every config, proved.                       *)
(*                                                                         *)
(* BuildInv says what is known at each step of a build.  The config, the   *)
(* exporter and the method do not change under way, so that what a check   *)
(* has found still holds at the answer; each property of the answer then   *)
(* follows from what was found and from what was applied.                  *)
(***************************************************************************)
EXTENDS ExporterBuild, TLAPS

(* A config as it comes out of the decoder. *)
WellFormed(e, c) ==
    /\ DOMAIN c \subseteq FieldsOf(e)
    /\ \A k \in DOMAIN c : c[k] \in ValuesOf(k)

Passed == IF exporter = "otlp" THEN OptionsApplied ELSE {}
PassedTls == IF exporter = "otlp" THEN Connection ELSE NoTls

BuildTypes ==
    /\ exporter \in Exporters
    /\ method \in Methods
    /\ WellFormed(exporter, config)
    /\ pc \in {"idle", "options", "new", "processor", "returned"}
    /\ open \in BOOLEAN
    /\ answer \in {"none", "built", "refused", "failed"}
    /\ pc = "returned" <=> answer # "none"

(* Nothing has been made of the config yet. *)
Untouched == pc \in {"idle", "options"} => applied = {} /\ tls = NoTls

(* The options were found to be good, and became what they stand for. *)
Optioned ==
    /\ exporter = "otlp" => ~OptionsRefused
    /\ tls = PassedTls
Going == pc \in {"new", "processor"} => Optioned /\ applied = Passed

Built ==
    answer = "built" =>
        /\ Optioned
        /\ IsMetric => /\ exporter = "otlp" => ~Is("exemplar_filter", "unsupported")
                       /\ applied = Passed \cup (IF exporter = "otlp"
                                                 THEN MetricApplied ELSE {})
        /\ ~IsMetric => ~RejectUnsupported /\ applied = Passed \cup QueueApplied

(* Why a build that is not about metrics is refused. *)
Refused ==
    answer = "refused" /\ ~IsMetric =>
        \/ exporter = "otlp" /\ OptionsRefused
        \/ exporter = "pretty"
        \/ RejectUnsupported

Ended ==
    answer \in {"refused", "failed"} =>
        applied \in {{}, Passed} /\ tls \in {NoTls, PassedTls}

BuildInv == BuildTypes /\ Untouched /\ Going /\ Built /\ Refused /\ Ended

----------------------------------------------------------------------------
(* What is decided by the config alone stays as it is while it is built.   *)
LEMMA SameConfig ==
  ASSUME UNCHANGED <<exporter, method, config>>
  PROVE  /\ OptionsRefused' <=> OptionsRefused
         /\ RejectUnsupported' <=> RejectUnsupported
         /\ IsMetric' <=> IsMetric
         /\ Is("exemplar_filter", "unsupported")' <=> Is("exemplar_filter", "unsupported")
         /\ Passed' = Passed /\ PassedTls' = PassedTls
         /\ QueueApplied' = QueueApplied /\ MetricApplied' = MetricApplied
<1>1. \A k, v : (IsSet(k)' <=> IsSet(k)) /\ (Is(k, v)' <=> Is(k, v))
  BY DEF IsSet, Is
<1>2. (IsMetric' <=> IsMetric) /\ (IsHttp' <=> IsHttp)
  BY <1>1 DEF IsMetric, IsHttp
<1>3. OptionsRefused' <=> OptionsRefused
  BY <1>1, <1>2 DEF OptionsRefused, ProtocolRefused, RejectGRPCOnly, TlsRefused,
     DialRefused, EndpointRefused, CompressionRefused, HeadersRefused,
     RetryRefused, TemporalityRefused
<1>4. (QueueEnabled' <=> QueueEnabled) /\ (RejectUnsupported' <=> RejectUnsupported)
  BY <1>1 DEF QueueEnabled, QueueTouched, RejectUnsupported
<1>conn. Connection' = Connection
  <2>1. ConnOptions' = ConnOptions
    BY <1>1 DEF ConnOptions, TlsOption, EndpointOption
  <2> QED
    BY <1>2, <2>1 DEF Connection, Cleartext
<1>5. OptionsApplied' = OptionsApplied
  <2>1. RetryApplied' = RetryApplied
    BY <1>1 DEF RetryApplied, RetryTouched
  <2>2. TlsEffective' = TlsEffective
    BY <1>conn DEF TlsEffective
  <2> QED
    BY <1>1, <1>2, <2>1, <2>2 DEF OptionsApplied
<1>6. Passed' = Passed /\ PassedTls' = PassedTls
  BY <1>5, <1>conn DEF Passed, PassedTls
<1>7. QueueApplied' = QueueApplied /\ MetricApplied' = MetricApplied
  BY <1>1, <1>4 DEF QueueApplied, MetricApplied
<1> QED
  BY <1>1, <1>2, <1>3, <1>4, <1>6, <1>7

LEMMA SameWellFormed ==
  ASSUME UNCHANGED <<exporter, config>>, WellFormed(exporter, config)
  PROVE  WellFormed(exporter, config)'
BY DEF WellFormed

LEMMA BuildStep == BuildInv /\ [Next]_vars => BuildInv'
<1> SUFFICES ASSUME BuildInv, [Next]_vars PROVE BuildInv'
  OBVIOUS
<1>frame. UNCHANGED <<exporter, method, config>>
  BY DEF Next, vars, Options, Unimplemented, OpenOutputs, NewExporter, Processor,
         Reader, Return, Goto
<1>same. /\ OptionsRefused' <=> OptionsRefused
         /\ RejectUnsupported' <=> RejectUnsupported
         /\ IsMetric' <=> IsMetric
         /\ Is("exemplar_filter", "unsupported")' <=> Is("exemplar_filter", "unsupported")
         /\ Passed' = Passed /\ PassedTls' = PassedTls
         /\ QueueApplied' = QueueApplied /\ MetricApplied' = MetricApplied
         /\ WellFormed(exporter, config)'
  BY <1>frame, SameConfig, SameWellFormed DEF BuildInv, BuildTypes
<1>now. /\ BuildTypes /\ Untouched /\ Going /\ Built /\ Refused /\ Ended
        /\ answer # "none" <=> pc = "returned"
  BY DEF BuildInv, BuildTypes
<1> USE <1>frame, <1>same, <1>now
<1>1. CASE Options
  <2>1. exporter = "otlp" /\ pc = "options" /\ applied = {} /\ tls = NoTls
    BY <1>1 DEF Options, Untouched
  <2>2. UNCHANGED open
    BY <1>1 DEF Options
  <2>3. CASE OptionsRefused /\ Return("refused") /\ UNCHANGED <<applied, tls>>
    BY <2>1, <2>2, <2>3 DEF Return, BuildInv, BuildTypes, Untouched, Going, Built,
                            Refused, Ended
  <2>4. CASE Return("failed") /\ UNCHANGED <<applied, tls>>
    BY <2>1, <2>2, <2>4 DEF Return, BuildInv, BuildTypes, Untouched, Going, Built,
                            Refused, Ended
  <2>5. CASE /\ ~OptionsRefused /\ Goto("new")
             /\ applied' = OptionsApplied
             /\ tls' = Connection
    <3>1. applied' = Passed /\ tls' = PassedTls
      BY <2>1, <2>5 DEF Passed, PassedTls
    <3> QED
      BY <2>1, <2>2, <2>5, <3>1 DEF Goto, BuildInv, BuildTypes, Untouched, Going,
                                    Built, Refused, Ended, Optioned
  <2> QED
    BY <1>1, <2>3, <2>4, <2>5 DEF Options
<1>2. CASE Unimplemented
  BY <1>2 DEF Unimplemented, Return, BuildInv, BuildTypes, Untouched, Going,
              Built, Refused, Ended
<1>3. CASE OpenOutputs
  <2>1. /\ exporter # "otlp" /\ pc = "options" /\ applied = {} /\ tls = NoTls
        /\ UNCHANGED <<applied, tls>>
    BY <1>3 DEF OpenOutputs, Untouched
  <2>2. Passed = {} /\ PassedTls = NoTls
    BY <2>1 DEF Passed, PassedTls
  <2>3. CASE Goto("new") /\ open' = TRUE
    BY <2>1, <2>2, <2>3 DEF Goto, BuildInv, BuildTypes, Untouched, Going, Built,
                            Refused, Ended, Optioned
  <2>4. CASE Return("failed") /\ UNCHANGED open
    BY <2>1, <2>2, <2>4 DEF Return, BuildInv, BuildTypes, Untouched, Going, Built,
                            Refused, Ended
  <2> QED
    BY <1>3, <2>3, <2>4 DEF OpenOutputs
<1>4. CASE NewExporter
  <2>1. /\ pc = "new" /\ Optioned /\ applied = Passed
        /\ UNCHANGED <<applied, tls>> /\ open' \in BOOLEAN
    BY <1>4 DEF NewExporter, Going, BuildTypes
  <2>2. CASE Goto("processor")
    BY <2>1, <2>2 DEF Goto, BuildInv, BuildTypes, Untouched, Going, Built,
                      Refused, Ended, Optioned
  <2>3. CASE Return("failed")
    BY <2>1, <2>3 DEF Return, BuildInv, BuildTypes, Untouched, Going, Built,
                      Refused, Ended, Optioned
  <2> QED
    BY <1>4, <2>2, <2>3 DEF NewExporter
<1>5. CASE Processor
  <2>1. /\ pc = "processor" /\ ~IsMetric /\ Optioned /\ applied = Passed
        /\ UNCHANGED <<open, tls>>
    BY <1>5 DEF Processor, Going
  <2>2. CASE RejectUnsupported /\ Return("refused") /\ UNCHANGED applied
    BY <2>1, <2>2 DEF Return, BuildInv, BuildTypes, Untouched, Going, Built,
                      Refused, Ended, Optioned
  <2>3. CASE ~RejectUnsupported /\ Return("built")
             /\ applied' = applied \cup QueueApplied
    BY <2>1, <2>3 DEF Return, BuildInv, BuildTypes, Untouched, Going, Built,
                      Refused, Ended, Optioned
  <2> QED
    BY <1>5, <2>2, <2>3 DEF Processor
<1>6. CASE Reader
  <2>1. /\ pc = "processor" /\ IsMetric /\ Optioned /\ applied = Passed
        /\ UNCHANGED <<open, tls>>
    BY <1>6 DEF Reader, Going
  <2>2. CASE Return("refused") /\ UNCHANGED applied
    BY <2>1, <2>2 DEF Return, BuildInv, BuildTypes, Untouched, Going, Built,
                      Refused, Ended, Optioned
  <2>3. CASE /\ exporter = "otlp" => ~Is("exemplar_filter", "unsupported")
             /\ Return("built")
             /\ applied' = IF exporter = "otlp" THEN applied \cup MetricApplied
                                                ELSE applied
    BY <2>1, <2>3 DEF Return, BuildInv, BuildTypes, Untouched, Going, Built,
                      Refused, Ended, Optioned
  <2> QED
    BY <1>6, <2>2, <2>3 DEF Reader
<1>7. CASE UNCHANGED vars
  BY <1>7 DEF vars, BuildInv, BuildTypes, Untouched, Going, Built, Refused,
              Ended, Optioned
<1> QED
  BY <1>1, <1>2, <1>3, <1>4, <1>5, <1>6, <1>7 DEF Next
----------------------------------------------------------------------------
(* The knobs that become options are knobs of the config's fields.         *)
LEMMA AppliedAreKnobs ==
  Passed \subseteq Knobs /\ MetricApplied \subseteq Knobs /\ QueueApplied \subseteq Knobs
<1>1. TlsApplied(config) \subseteq TlsKnobs
  BY DEF TlsApplied, TlsKnobs, Anchor, Certificate, Key, First, Anchors, Texts,
         Files, Parsed, Taken
<1>2. RetryApplied \subseteq Retry
  BY DEF RetryApplied
<1>3. MetricApplied \subseteq Knobs /\ QueueApplied \subseteq Knobs
  BY DEF MetricApplied, QueueApplied, Knobs, Metric, Queue
<1>4. OptionsApplied \subseteq Transport \cup GrpcOnly \cup Metric \cup Retry \cup TlsKnobs
  BY <1>1, <1>2 DEF OptionsApplied, TlsEffective, Metric
<1> QED
  BY <1>3, <1>4 DEF Passed, Knobs

LEMMA FieldsAreKnobs == \A e \in Exporters : FieldsOf(e) \subseteq Knobs
BY DEF FieldsOf, Exporters, Knobs

LEMMA BuildTyped == BuildInv => TypeOK
<1> SUFFICES ASSUME BuildInv PROVE TypeOK
  OBVIOUS
<1>1. DOMAIN config \subseteq Knobs
  BY FieldsAreKnobs DEF BuildInv, BuildTypes, WellFormed
<1>2. applied \in {{}, Passed, Passed \cup QueueApplied, Passed \cup MetricApplied}
      /\ tls \in {NoTls, PassedTls}
  BY DEF BuildInv, BuildTypes, Untouched, Going, Built, Ended, Optioned
<1>3. applied \subseteq Knobs
  BY <1>2, AppliedAreKnobs
<1>4. tls \in {NoTls, DefaultTls, BuildTls(config)}
  BY <1>2 DEF PassedTls, Connection
<1> QED
  BY <1>1, <1>3, <1>4 DEF BuildInv, BuildTypes, TypeOK

(* A pretty exporter has no knobs, so its queue cannot be switched off; a  *)
(* queue that is switched off is not enabled, and nothing of it is refused.*)
LEMMA DisabledQueue == BuildInv => DisabledQueueBuilds
<1> SUFFICES ASSUME BuildInv, answer = "refused", ~IsMetric,
                    Is("queue.enabled", "false")
             PROVE  exporter = "otlp" /\ OptionsRefused
  BY DEF DisabledQueueBuilds
<1>1. ~RejectUnsupported
  BY DEF RejectUnsupported, QueueEnabled
<1>2. exporter # "pretty"
  BY DEF BuildInv, BuildTypes, WellFormed, FieldsOf, Is, IsSet
<1> QED
  BY <1>1, <1>2 DEF BuildInv, Refused

(* The option that comes last decides: the scheme of the endpoint where it *)
(* has one, tls.insecure where it has none.                                *)
LEMMA LastOption ==
  Cleartext <=> \/ Is("endpoint", "http")
                \/ Insecure(config) /\ ~Is("endpoint", "https")
<1>1. /\ ConnOptions[1] = TlsOption /\ ConnOptions[2] = EndpointOption
      /\ DOMAIN ConnOptions = {1, 2}
  BY DEF ConnOptions
<1>2. /\ TlsOption = "WithInsecure" <=> Insecure(config)
      /\ TlsOption \in {"WithInsecure", "WithTLS", "none"}
  BY DEF TlsOption, IsBuilt
<1>3. /\ EndpointOption = "WithEndpointURL:http" <=> Is("endpoint", "http")
      /\ EndpointOption = "WithEndpointURL:https" <=> Is("endpoint", "https")
      /\ EndpointOption # "WithInsecure"
  BY DEF EndpointOption, Is
<1>4. Cleartext <=>
         \/ /\ TlsOption \in {"WithInsecure", "WithEndpointURL:http"}
            /\ EndpointOption # "WithEndpointURL:https"
         \/ EndpointOption \in {"WithInsecure", "WithEndpointURL:http"}
  BY <1>1 DEF Cleartext
<1> QED
  BY <1>2, <1>3, <1>4

(* A connection with TLS trusts somebody, and so is not one in the clear.  *)
LEMMA TlsTrusts == BuildTls(config) # NoTls /\ DefaultTls # NoTls
<1>1. Roots(config) # {}
  BY DEF Roots
<1>2. /\ BuildTls(config).roots = Roots(config)
      /\ DefaultTls.roots = {"system"} /\ NoTls.roots = {}
  BY DEF BuildTls, DefaultTls, NoTls
<1> QED
  BY <1>1, <1>2

(* The options were not refused, so no pair is halved and every PEM text,  *)
(* file, version and name that counts is good.                             *)
LEMMA TlsHolds == BuildInv => TlsHonoured
<1> DEFINE Counts(k) == IsSet(k) /\ ~IsSet("tls.insecure")
<1> SUFFICES ASSUME BuildInv, exporter = "otlp", answer = "built"
             PROVE  TlsHonoured
  BY DEF TlsHonoured
<1>1. tls = Connection
  BY DEF BuildInv, Built, Optioned, PassedTls
<1>2. Insecure(config) <=> IsSet("tls.insecure")
  BY DEF Insecure, IsSet
<1>3. ASSUME tls = NoTls
      PROVE  \/ Is("endpoint", "http") /\ (IsHttp \/ ~IsBuilt(config))
             \/ IsSet("tls.insecure") /\ ~Is("endpoint", "https")
  BY <1>1, <1>2, <1>3, TlsTrusts, LastOption DEF Connection
<1>4. ASSUME tls # NoTls
      PROVE  /\ tls.roots \cap Anchors = {} <=> (\A k \in Anchors : ~Counts(k))
             /\ "system" \in tls.roots <=>
                   \/ \A k \in Anchors : ~Counts(k)
                   \/ Counts("tls.include_system_ca_certs_pool")
             /\ (\E k \in Texts \cup Files : Counts(k)) =>
                   tls.certificate # {} /\ tls.key # {}
             /\ Counts("tls.reload_interval") /\ Is("tls.reload_interval", "set") =>
                   tls.reloads /\ tls.certificate \cup tls.key = Files
  <2>1. CASE IsBuilt(config)
    <3>1. tls = BuildTls(config) /\ ~IsSet("tls.insecure")
      BY <1>1, <1>2, <1>4, <2>1 DEF Connection, IsBuilt
    <3>2. ~Halved(config)
      BY <2>1 DEF BuildInv, Built, Optioned, OptionsRefused, TlsRefused, BuildRefused
    <3>3. /\ tls.roots = Roots(config)
          /\ tls.certificate = Certificate(config) /\ tls.key = Key(config)
          /\ tls.reloads = Reloads(config)
      BY <3>1 DEF BuildTls
    <3>4. /\ Anchor(config) \subseteq Anchors
          /\ Anchor(config) = {} <=> \A k \in Anchors : ~IsSet(k)
          /\ "system" \notin Anchor(config)
      BY DEF Anchor, First, Anchors, IsSet
    <3>5. /\ tls.roots \cap Anchors = {} <=> (\A k \in Anchors : ~IsSet(k))
          /\ "system" \in tls.roots <=>
               ((\A k \in Anchors : ~IsSet(k)) \/ IsSet("tls.include_system_ca_certs_pool"))
      BY <3>3, <3>4 DEF Roots, IsSet, Anchors
    <3>6. (\E k \in Texts \cup Files : IsSet(k)) => tls.certificate # {} /\ tls.key # {}
      BY <3>2, <3>3 DEF Halved, Certificate, Key, First, Texts, Files, IsSet
    <3>7. Is("tls.reload_interval", "set") =>
             tls.reloads /\ tls.certificate \cup tls.key = Files
      BY <3>2, <3>3 DEF Halved, Reloads, Certificate, Key, Files, Is, IsSet
    <3> QED
      BY <3>1, <3>5, <3>6, <3>7
  <2>2. CASE ~IsBuilt(config)
    <3>1. tls = DefaultTls
      BY <1>1, <1>4, <2>2 DEF Connection
    <3>2. tls.roots = {"system"}
      BY <3>1 DEF DefaultTls, NoTls
    <3>3. \A k \in TlsKnobs : ~Counts(k)
      BY <1>2, <2>2 DEF IsBuilt, HasTls, IsSet
    <3>4. /\ Anchors \subseteq TlsKnobs /\ Texts \subseteq TlsKnobs /\ Files \subseteq TlsKnobs
          /\ "tls.reload_interval" \in TlsKnobs
          /\ "system" \notin Anchors
      BY DEF TlsKnobs, Anchors
    <3> QED
      BY <3>2, <3>3, <3>4
  <2> QED
    BY <2>1, <2>2
<1> QED
  BY <1>3, <1>4 DEF TlsHonoured

----------------------------------------------------------------------------
(* The knobs of a queue: one that counts is refused or applied.            *)
LEMMA QueueHeard ==
  ASSUME BuildInv, answer = "built", ~IsMetric,
         NEW k \in DOMAIN config, k \in Queue, ~PassedOver(k)
  PROVE  k \in applied
<1>1. ~RejectUnsupported /\ applied = Passed \cup QueueApplied
  BY DEF BuildInv, Built
<1>2. method \in {"SpanExporter", "LogExporter"}
  BY DEF BuildInv, BuildTypes, Methods, IsMetric
<1>3. exporter # "pretty"
  BY DEF BuildInv, BuildTypes, WellFormed, FieldsOf
<1>4. QueueEnabled
  BY <1>3 DEF QueueEnabled, QueueTouched, PassedOver, IsSet
<1>5. k \in Numbers => config[k] \in {"set", "negative"}
  BY DEF BuildInv, BuildTypes, WellFormed, ValuesOf, Queue, TlsKnobs, Anchors,
         Texts, Files, Parsed, Taken, Numbers
<1>6. CASE k = "queue.enabled"
  BY <1>1, <1>6 DEF QueueApplied
<1>7. CASE k \in {"num_consumers", "wait_for_result", "min_size"}
  BY <1>1, <1>4, <1>7 DEF RejectUnsupported, IsSet
<1>8. CASE k = "block_on_overflow"
  BY <1>1, <1>2, <1>4, <1>8 DEF RejectUnsupported, QueueApplied, IsSet
<1>9. CASE k \in {"queue_size", "max_size", "flush_timeout"}
  <2>1. Is(k, "set")
    BY <1>5, <1>9 DEF Numbers, PassedOver, Is, IsSet
  <2> QED
    BY <1>1, <1>4, <1>9, <2>1 DEF QueueApplied
<1> QED
  BY <1>6, <1>7, <1>8, <1>9 DEF Queue

(* The knobs of TLS: one that counts is of the result.                     *)
LEMMA TlsHeard ==
  ASSUME BuildInv, answer = "built", exporter = "otlp",
         NEW k \in DOMAIN config, k \in TlsKnobs, ~PassedOver(k)
  PROVE  k \in TlsEffective
<1>effective. TlsEffective = TlsApplied(config)
  <2>1. CASE k = "tls.insecure"
    <3>1. Insecure(config) /\ ~IsBuilt(config) /\ ~Is("endpoint", "https")
      BY <2>1 DEF Insecure, IsBuilt, PassedOver
    <3>2. Connection = NoTls
      BY <3>1, LastOption DEF Connection
    <3> QED
      BY <3>1, <3>2 DEF TlsEffective
  <2>2. CASE k # "tls.insecure"
    <3>1. ~Insecure(config) /\ IsBuilt(config)
      BY <2>2 DEF PassedOver, Insecure, IsSet, IsBuilt, HasTls
    <3>2. ~IsHttp \/ ~Is("endpoint", "http")
      BY <2>2 DEF PassedOver
    <3>3. Connection = BuildTls(config)
      BY <3>1, <3>2, LastOption DEF Connection
    <3> QED
      BY <3>1, <3>3, TlsTrusts DEF TlsEffective
  <2> QED
    BY <2>1, <2>2
<1> SUFFICES k \in TlsApplied(config)
  BY <1>effective
<1>1. CASE Insecure(config)
  <2>1. k = "tls.insecure"
    BY <1>1 DEF PassedOver, Insecure, IsSet
  <2> QED
    BY <1>1, <2>1 DEF TlsApplied
<1>2. CASE ~Insecure(config)
  <2>1. Reloads(config) <=> Is("tls.reload_interval", "set")
    BY DEF Reloads, Is, IsSet
  <2>2. CASE k \in Anchors
    BY <1>2, <2>2 DEF TlsApplied, Anchor, First, Anchors, PassedOver, IsSet
  <2>3. CASE k \in Texts
    <3>1. ~Reloads(config)
      BY <2>1, <2>3 DEF PassedOver
    <3> QED
      BY <1>2, <2>3, <3>1 DEF TlsApplied, Certificate, Key, First, Texts
  <2>4. CASE k \in Files
    BY <1>2, <2>1, <2>4 DEF TlsApplied, Certificate, Key, First, Files,
                            PassedOver, IsSet
  <2>5. CASE k \in Parsed \cup Taken \cup {"tls"}
    BY <1>2, <2>5 DEF TlsApplied
  <2>6. CASE k = "tls.reload_interval"
    <3>1. config[k] \in {"set", "negative"}
      BY <2>6 DEF BuildInv, BuildTypes, WellFormed, ValuesOf, TlsValuesOf, TlsKnobs,
                  Anchors, Texts, Files, Parsed
    <3>2. Reloads(config)
      BY <2>6, <3>1 DEF Reloads, PassedOver
    <3> QED
      BY <1>2, <2>6, <3>2 DEF TlsApplied
  <2>7. k # "tls.insecure"
    BY <1>2 DEF Insecure
  <2> QED
    BY <2>2, <2>3, <2>4, <2>5, <2>6, <2>7 DEF TlsKnobs
<1> QED
  BY <1>1, <1>2

(* The values of the knobs of an option, one kind at a time.               *)
LEMMA OptionValues ==
  ASSUME NEW k, k \notin TlsKnobs, NEW v \in ValuesOf(k)
  PROVE  /\ k = "protocol" => v \in {"http", "unsupported"}
         /\ k = "keepalive" => v \in {"set", "empty", "no time"}
         /\ k = "endpoint" => v \in Reached \cup {"unsupported"}
         /\ k \in {"compression", "headers", "temporality"} =>
               v \in {"set", "unsupported"}
         /\ k \in {"timeout", "read_buffer_size", "write_buffer_size",
                   "reconnection_period"} => v \in {"set", "negative"}
         /\ k \in {"wait_for_ready", "balancer_name", "authority"} => v = "set"
<1>1. CASE k = "protocol"
  BY <1>1 DEF ValuesOf, Numbers
<1>2. CASE k = "keepalive"
  BY <1>2 DEF ValuesOf, Numbers
<1>3. CASE k \in {"compression", "headers", "temporality"}
  BY <1>3 DEF ValuesOf, Numbers
<1>6. CASE k = "endpoint"
  BY <1>6 DEF ValuesOf, Numbers
<1>4. CASE k \in {"timeout", "read_buffer_size", "write_buffer_size",
                  "reconnection_period"}
  BY <1>4 DEF ValuesOf, Numbers
<1>5. CASE k \in {"wait_for_ready", "balancer_name", "authority"}
  BY <1>5 DEF ValuesOf, Numbers
<1> QED
  BY <1>1, <1>2, <1>3, <1>4, <1>5, <1>6

(* What the options are made of: a knob of the transport, of gRPC, of a    *)
(* retry or of a metric that is not refused and not passed over.           *)
LEMMA OptionHeard ==
  ASSUME BuildInv, answer = "built", exporter = "otlp",
         NEW k \in DOMAIN config, ~PassedOver(k),
         k \in Transport \cup GrpcOnly \cup {"temporality"},
         k = "temporality" => IsMetric
  PROVE  k \in OptionsApplied
<1>1. ~OptionsRefused
  BY DEF BuildInv, Built, Optioned
<1>2. k \in GrpcOnly => ~IsHttp
  BY <1>1 DEF OptionsRefused, RejectGRPCOnly, IsSet
<1>3. config[k] \in ValuesOf(k)
  BY DEF BuildInv, BuildTypes, WellFormed
<1>4. k \notin TlsKnobs
  BY DEF TlsKnobs, Anchors, Texts, Files, Parsed, Taken, Transport, GrpcOnly
<1>5. config[k] \in {"set"} \cup Reached
  <2>1. CASE k = "protocol"
    BY <1>1, <1>3, <1>4, <2>1, OptionValues
       DEF OptionsRefused, ProtocolRefused, Is, IsSet, Reached
  <2>2. CASE k = "keepalive"
    <3>1. config[k] \in {"set", "empty", "no time"}
      BY <1>3, <1>4, <2>2, OptionValues
    <3>2. ~IsHttp
      BY <1>2, <2>2 DEF GrpcOnly
    <3>3. config[k] # "no time"
      BY <1>1, <2>2, <3>2 DEF OptionsRefused, DialRefused, Is, IsSet
    <3> QED
      BY <3>1, <3>3 DEF PassedOver
  <2>3. CASE k \in {"endpoint", "compression", "headers", "temporality"}
    <3>1. config[k] \in {"set", "unsupported"} \cup Reached
      BY <1>3, <1>4, <2>3, OptionValues
    <3>2. ~EndpointRefused /\ ~CompressionRefused /\ ~HeadersRefused /\ ~TemporalityRefused
      BY <1>1 DEF OptionsRefused
    <3>3. config[k] # "unsupported"
      BY <2>3, <3>2 DEF EndpointRefused, CompressionRefused, HeadersRefused,
                        TemporalityRefused, Is, IsSet
    <3> QED
      BY <3>1, <3>3
  <2>4. CASE k \in {"timeout", "read_buffer_size", "write_buffer_size",
                    "reconnection_period"}
    BY <1>3, <1>4, <2>4, OptionValues DEF PassedOver
  <2>5. CASE k \in {"wait_for_ready", "balancer_name", "authority"}
    BY <1>3, <1>4, <2>5, OptionValues
  <2> QED
    BY <2>1, <2>2, <2>3, <2>4, <2>5 DEF Transport, GrpcOnly
<1> QED
  BY <1>2, <1>5 DEF OptionsApplied, Is, IsSet

(* The knobs of a retry are taken as they are, but for one that is refused.*)
LEMMA RetryHeard ==
  ASSUME BuildInv, answer = "built", exporter = "otlp",
         NEW k \in DOMAIN config, k \in Retry
  PROVE  k \in RetryApplied
<1>1. k # "backoff_factors"
  BY DEF BuildInv, Built, Optioned, OptionsRefused, RetryRefused, IsSet
<1> QED
  BY <1>1 DEF RetryApplied, RetryTouched, IsSet

LEMMA EveryKnobHeard == BuildInv => NothingDropped
<1> SUFFICES ASSUME BuildInv, answer = "built",
                    NEW k \in DOMAIN config, Governs(k), ~PassedOver(k)
             PROVE  k \in applied
  BY DEF NothingDropped
<1>1. k \in FieldsOf(exporter) /\ exporter \in Exporters
  BY DEF BuildInv, BuildTypes, WellFormed
<1>2. CASE k \in Queue
  <2>1. ~IsMetric
    BY <1>2 DEF Governs, Queue
  <2> QED
    BY <1>2, <2>1, QueueHeard
<1>3. CASE k \notin Queue
  <2>1. exporter = "otlp" /\ k \in Knobs
    BY <1>1, <1>3 DEF FieldsOf, Exporters
  <2>2. /\ OptionsApplied \subseteq applied
        /\ IsMetric => MetricApplied \subseteq applied
    BY <2>1 DEF BuildInv, Built, Passed
  <2>3. CASE k \in TlsKnobs
    BY <2>1, <2>2, <2>3, TlsHeard DEF OptionsApplied
  <2>4. CASE k \in Retry
    BY <2>1, <2>2, <2>4, RetryHeard DEF OptionsApplied
  <2>5. CASE k \in Transport \cup GrpcOnly
    BY <2>1, <2>2, <2>5, OptionHeard DEF Transport, GrpcOnly
  <2>6. CASE k = "temporality"
    BY <1>3, <2>1, <2>2, <2>6, OptionHeard DEF Governs
  <2>7. CASE k \in {"exemplar_filter", "interval"}
    <3>1. /\ IsMetric
          /\ k = "interval" => method = "MetricReader"
      BY <1>3, <2>7 DEF Governs, IsMetric
    <3>2. config[k] \in {"set", "unsupported", "negative"}
      BY <2>7 DEF BuildInv, BuildTypes, WellFormed, ValuesOf, Numbers, TlsKnobs,
                  Anchors, Texts, Files, Parsed, Taken
    <3>3. k = "exemplar_filter" => config[k] # "unsupported"
      BY <2>1, <3>1 DEF BuildInv, Built, Is, IsSet
    <3>4. k = "interval" => config[k] # "unsupported"
      BY DEF BuildInv, BuildTypes, WellFormed, ValuesOf, Numbers, TlsKnobs,
             Anchors, Texts, Files, Parsed, Taken
    <3>5. Is(k, "set")
      BY <3>2, <3>3, <3>4, <2>7 DEF PassedOver, Is, IsSet
    <3> QED
      BY <2>2, <2>7, <3>1, <3>5 DEF MetricApplied
  <2> QED
    BY <1>3, <2>1, <2>3, <2>4, <2>5, <2>6, <2>7 DEF Knobs, Metric
<1> QED
  BY <1>2, <1>3
=============================================================================
