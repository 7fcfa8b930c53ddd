SPECIFICATION FairSpec
CONSTANTS
    Nil = Nil
    tracer = tracer
    twice = twice
    meter = meter
    logger = logger
    mute = mute
    absent = absent
    otlp = otlp
    debug = debug
    prom = prom
    push = push
    batcher = batcher
    sampler = sampler
    c1 = c1
    c2 = c2
    c3 = c3
    c4 = c4
    c5 = c5
    c6 = c6
    Cids = {c1, c2, c3, c4}
    Pids <- MCPids
    SignalOf <- MCSignalOf
    Configured = {tracer, meter}
    Eids <- MCEids
    Procs <- MCProcs
    ProcessorsOf <- MCProcessorsOf
    ExportersOf <- MCExportersOf
    Accepts <- MCAccepts
    Offers <- MCOffers
PROPERTIES StartReturns ShutdownReturnsOnceStarted FailedStartIsFinal
CHECK_DEADLOCK FALSE
