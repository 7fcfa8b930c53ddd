---------------------------- MODULE MCResolver ----------------------------
(* Small configurations of the resolver for TLC. *)
EXTENDS Resolver, TLC

CONSTANTS tracer, twice, meter,         \* provider ids
          logger, mute, absent,
          otlp, debug, prom, push,      \* exporter ids
          batcher, sampler,             \* processor ids
          c1, c2, c3, c4, c5, c6

MCPids == {tracer, twice, meter, logger, mute, absent}
MCSignalOf == tracer :> "tracer" @@ twice :> "tracer" @@ mute :> "tracer"
              @@ meter :> "meter" @@ logger :> "logger"
              @@ absent :> "logger"
MCEids == {otlp, debug, prom, push}
MCProcs == {batcher, sampler}
MCProcessorsOf == [p \in MCPids |-> IF p = tracer THEN <<sampler>>
                                   ELSE IF p = meter THEN <<batcher>>
                                   ELSE <<>>]
MCExportersOf == tracer :> <<otlp, debug>> @@ twice :> <<otlp, otlp>>
                 @@ meter :> <<prom, push>> @@ logger :> <<otlp>>
                 @@ mute :> <<prom>> @@ absent :> <<>>
MCAccepts == [s \in Signals |-> IF s = "logger" THEN {} ELSE {sampler, batcher}]

(* otlp, debug and prometheus as the repository implements them; push is an *)
(* exporter of a third party that has no metric reader.                     *)
MCOffers ==
    LET offer(s, r, x, l) == [m \in Methods |->
            CASE m = "SpanExporter" -> s [] m = "MetricReader" -> r
              [] m = "MetricExporter" -> x [] m = "LogExporter" -> l]
    IN  otlp  :> offer("deferred", "pipeline", "bare", "pipeline")
     @@ debug :> offer("immediate", "pipeline", "bare", "pipeline")
     @@ prom  :> offer(Nil, "server", Nil, Nil)
     @@ push  :> offer(Nil, Nil, "bare", Nil)
MCSymmetry == Permutations(Cids)
===========================================================================
