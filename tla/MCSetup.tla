------------------------------ MODULE MCSetup ------------------------------
(* Documents for TLC: one exporter with many configs; one resource with    *)
(* many attributes; and few entries of every kind side by side.            *)
EXTENDS Setup, TLC

MCWidth == 2
MCMaxList == 2
MCFields == [e \in Exporters |-> FieldsOf(e)]
MCRegistered == [s \in Sections |->
    IF s = "processors" THEN {"resource", "sampler"} ELSE Exporters]

Id(type, name) == [type |-> type, name |-> name]
Null == [kind |-> "null"]
Text == [kind |-> "text"]
Knob(c) == [kind |-> "exporter", knobs |-> c]
Resource(attributes, detectors) ==
    [kind |-> "resource", attributes |-> attributes, detectors |-> detectors]
Sampler(type, ratio) == [kind |-> "sampler", type |-> type, ratio |-> ratio]
Doc(ps, es) == [s \in Sections |-> IF s = "processors" THEN ps ELSE es]

Settings(knobs) == UNION {{k} \X ValuesOf(k) : k \in knobs}
Set(s) == s[1] :> s[2]
Pairs == {Set(s) @@ Set(t) : s, t \in Settings(Knobs)}
Triples == {Set(s) @@ Set(t) @@ Set(u) :
               s, t, u \in Settings(Knobs \ TlsKnobs)}
(* The fields of TLS that depend on each other, each set or not.           *)
Related == Anchors \cup Texts \cup Files
           \cup {"tls.reload_interval", "tls.include_system_ca_certs_pool"}
Tls == UNION {[ks -> {"set", "unsupported"}] : ks \in SUBSET Related}
MCTls == {c \in Tls : \A k \in DOMAIN c : c[k] \in TlsValuesOf(k)}
(* A TLS block next to an endpoint, under either protocol.                 *)
Blocks == {ks \in SUBSET {"tls.insecure", "tls.ca_file", "tls.cert_file", "tls.key_file"} :
              "tls.cert_file" \in ks <=> "tls.key_file" \in ks}
Secured == {[k \in ks |-> "set"] @@ p @@ e :
               ks \in Blocks, p \in {<<>>, Set(<<"protocol", "http">>)},
               e \in {Set(<<"endpoint", v>>) : v \in ValuesOf("endpoint")}}
MCConfigs == {<<>>} \cup Pairs \cup Triples \cup MCTls \cup Secured

Unknown == {"storage" :> "set", "storage" :> "set" @@ "queue_size" :> "set"}
ExporterDocs ==
    {Doc(<<>>, Id("otlp", "none") :> Knob(c)) : c \in MCConfigs \cup Unknown}
    \cup {Doc(<<>>, Id("debug", "none") :> Knob(c)) :
             c \in {d \in MCConfigs : DOMAIN d \subseteq Queue} \cup Unknown}

Scalars == {Value("uint64", n) : n \in 0..3}
           \cup {Value(t, 0) : t \in {"string", "int64", "float64", "bool", "null"}}
Values == Scalars \cup {List(<<>>)} \cup {List(<<v>>) : v \in Scalars}
                  \cup {List(<<v, w>>) : v, w \in Scalars}
ResourceDocs ==
    {Doc(Id("resource", "none") :> Resource(<<v>>, {}),
         Id("pretty", "none") :> Null) : v \in Values}

Attributes3 == <<Value("string", 0), Value("uint64", 1),
                 List(<<Value("bool", 0), Value("bool", 0)>>)>>
Processors ==
    {<<Id("resource", "none"), Resource(Attributes3, {"listed", "unlisted"})>>,
     <<Id("resource", "a"), Null>>,
     <<Id("resource", "b"), Text>>,
     <<Id("resource", "c"), Resource(<<Value("null", 0)>>, {})>>,
     <<Id("sampler", "none"), Sampler("unknown", 1)>>,
     <<Id("sampler", "a"), Sampler("parent_based", 1)>>,
     <<Id("sampler", "c"), Sampler("always_off", 2)>>,
     <<Id("sampler", "b"), Null>>,
     <<Id("batcher", "none"), Null>>,
     <<Id("resource", "bad"), Null>>}
Entries ==
    {<<Id("otlp", "none"), Null>>, <<Id("debug", "none"), Null>>,
     <<Id("otlp", "a"), Text>>, <<Id("zipkin", "none"), Null>>,
     <<Id("", "a"), Null>>}
Section(es) == {<<>>} \cup {(s[1] :> s[2]) @@ (t[1] :> t[2]) : s, t \in es}
EntryDocs == {Doc(ps, es) : ps \in Section(Processors), es \in Section(Entries)}

MCDocs == ExporterDocs \cup ResourceDocs \cup EntryDocs
=============================================================================
