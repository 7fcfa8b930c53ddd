# mkot in TLA+

mkot builds OpenTelemetry providers from a YAML configuration and manages the
life of what it built. These modules model the parts of it that have a state and
a life: the resolver, the components it manages, the Prometheus reader, the
outputs that exporters share and the client certificate that is re-read from
disk; and with them the way from a YAML document to what a provider is made of,
and from a log record to a line of text. TLC checks them on small instances;
TLAPS proves every safety property that the passing runs check, both refinements
among them, for every choice of the constants.

## The system

| part | state | operations | what is hard |
|---|---|---|---|
| Resolver (`resolver.go`) | providers by id, each with its components by exporter id | `Make`, `Tracer`, `Meter`, `Logger`, `Start`, `Shutdown` | every build, start and shutdown can fail half way; maps are ranged over in any order; a call may wait for ever |
| Lifecycle components (`component.go`, the exporters) | started once, at work, shut | `Start`, `Shutdown` | kinds differ: some have no `Start`, some are at work from birth, one blocks in `Shutdown` |
| Prometheus reader (`prometheus/exporter.go`) | `started`, `closed`, a context of its own, `done`, the HTTP server | `Start`, `Shutdown`, a goroutine, an `AfterFunc` | four kinds of goroutines, two contexts, a mutex held while waiting |
| Outputs (`io.go`) | count and writer of each shared output | `Open`, `OpenAll`, `Write`, `Close` | several exporters share stdout and stderr; an open fails half way |
| Certificate reloader (`tls.go`) | last pair, time of its load | `get` | two files read one after the other while both are replaced |
| TLS configuration (`tls.go`, `otlp/http.go`) | none | `Build` | which of file, PEM text and reload wins |
| Queue (`queue.go`) | none; the SDK's processor has the queue | `BuildSpanProcessor`, `BuildLogProcessor` | knobs rejected or not; drained on `Shutdown` |
| OTLP options (`otlp/exporter.go`, `otlp/http.go`, `retry.go`) | none | option builders | failures after the exporter was made; an option that undoes one before it |
| Config (`config.go`, `registry.go`, `identifiable.go`) | maps of ids | `UnmarshalYAML`, `New`, `Set` | sections walked in any order, entries that fail among others; keys without a field |
| Pretty output (`pretty/`) | per record: a kind and what was put aside | `Export` | attributes in any order, unit boundaries, columns |
| Attributes, sampler, resource (`attr.go`, `sampler.go`, `resource.go`) | none | decoding, options | widths, mixed slices, samplers for tracers only |
| Opaque values (`opaque/`) | a shared array | `Get`, `Set`, `Iter` | aliasing of copies |

How they interact. An application asks the resolver for a provider. The resolver
looks its id up in the config, appends the options of the provider's processors,
and has each exporter config build a component; OTLP and debug exporters put a
processor made by the queue config between provider and exporter, open their
outputs, and build their TLS config on the way. `Start` starts the components
that have a `Start`; OTLP span exporters are handed out unstarted for that. If
one fails, those that this call has started are shut again. `Shutdown` shuts all
components. The Prometheus reader's `Shutdown` waits for its goroutine, which
ends only when its HTTP server is shut, and that is done by an `AfterFunc` on the
context that was given to `Start`, so the application's context is a part of the
protocol too. At run time handshakes of gRPC and HTTP connections call the
certificate reloader.

What makes each part correct:

- Resolver: a provider is built once and stays; `Start` is all or nothing, and
  starts nothing twice; `Shutdown` reaches everything that was built for a
  provider; both answer.
- Prometheus reader: at most one server, none after `Shutdown`, one again after
  a failure; a `Start` that answers nil leaves one at work; `done` is closed once.
- Outputs: open exactly while somebody holds them.
- Exporter builds: what a config sets reaches the SDK or is refused, under either
  protocol and for every signal; a build that fails leaves nothing open.
- TLS: a connection trusts and presents what its config says, or there is none; it
  is in the clear only if the config says so last.
- Config: one load reports everything that is wrong, and what it accepts has every
  entry; the last resource and the last sampler that a provider lists reach it as they
  were written.
- Pretty output: a record gets the line of its kind, with its own attributes, all
  that have a column, the last one where two share it, in fixed columns; longer
  durations and larger sizes never read as less.
- Reloader: only whole pairs, never an older one, never a refusal after the first
  success, and a rotation arrives.

## Modules

| module | models | extends |
|---|---|---|
| `Component` | the state of a component and what `Start` and `Shutdown` do to each kind | |
| `Resolver` | `resolver.go` | `Component` |
| `MCResolver` | four configured providers and an absent one, two processors, four exporters | `Resolver` |
| `ResolverProofs` | theorems about `Resolver` | `Resolver` |
| `PrometheusReader` | `prometheus/exporter.go`; refines kind "server" of `Component` | |
| `MCPrometheusReader` | callers of the reader | `PrometheusReader` |
| `PrometheusProofs` | theorems about `PrometheusReader` | `PrometheusReader` |
| `RefCounted` | abstract: an output is open exactly while it has holders | |
| `SharedWriter` | `io.go`; refines `RefCounted` for every shared output | |
| `MCSharedWriter` | three exporters with overlapping lists | `SharedWriter` |
| `SharedWriterProofs` | theorems about `SharedWriter` | `SharedWriter` |
| `TlsBuild` | `ClientTlsConfig.Build` of `tls.go` | |
| `ExporterBuild` | the builds of `otlp/`, `debug/` and `pretty/exporter.go`, `queue.go`: a config becomes a component | `TlsBuild` |
| `MCExporterBuild` | configs with few knobs, for the run that leaks | `ExporterBuild` |
| `BuildProofs` | the invariant of a build | `ExporterBuild` |
| `Attributes` | `attr.go` | |
| `ConfigLoad` | `config.go`, `identifiable.go`, `registry.go` | `Attributes` |
| `LoadProofs` | the invariant of a load | `ConfigLoad` |
| `Setup` | `resource.go`, `sampler.go`, and the composition: load, processors, exporter | `ConfigLoad`, `ExporterBuild` |
| `MCSetup` | documents | `Setup` |
| `SetupProofs` | theorems about `Setup` | `Setup`, `LoadProofs`, `BuildProofs` |
| `PrettyNumbers` | `renderDuration`, `humanizeBytes` of `pretty/string.go` | |
| `PrettyLog` | `pretty/log.go`, `pretty/value.go`, the header of `pretty/string.go` | `PrettyNumbers` |
| `MCPrettyLog` | durations and sizes at the limits | `PrettyLog` |
| `PrettyProofs` | theorems about `PrettyLog` | `PrettyLog` |
| `CertReloader` | `certReloader` of `tls.go` | |
| `MCCertReloader` | overlapping handshakes | `CertReloader` |
| `CertReloaderProofs` | theorems about `CertReloader` | `CertReloader` |

A definition called `X` that is introduced as "Mutant of Y" is not part of any
specification: it is the definition `Y` with a plausible bug, and the property it
is listed with in `PROJECT.json` fails when it takes the place of `Y`.

### Component

`kind[c]` says what instance `c` is; `used` is the `sync.Once` of OTLP
exporters; `running` holds what `Start` opened; `shut` whose `Shutdown` was
entered. The kinds are named in the module's header. `StartOk`/`StartErr` and
`ShutdownReturns`/`ShutdownBlocks` are the two ways each call can go. An OTLP
exporter's start spends its once whether it succeeds or not. A processor stops
once: an exporter that is started after its processor was shut is never closed
by it. Errors that `Shutdown` answers change nothing in the resolver, which goes
on, so they are not told apart from success.

### Resolver

One goroutine calls the resolver, which has no lock. `op` is the call in
progress, and a call is as many steps as it has calls to other parts:

- `Tracer`, `Meter`, `Logger`: `Cached`, `NotConfigured` or `BeginBuild`; then
  one `ApplyProcessor` per processor, one `BuildExporter` per exporter, and
  `Register`. `GiveUp` is every error return of the two loops: it may happen
  before each processor and exporter, whatever the reason, and is the only way
  on for a processor without options for the signal and an exporter that is
  missing or unimplemented. `Offer` is `Meter`'s preference for a reader.
- `Start`: `SkipComponent`, `StartComponent` or `StartComponentFails` for each
  entry, `StartDone`; after a failure `Rollback` for each started component in
  order and `RollbackDone`. `NextEntries` allows every order that two nested
  `range` loops over maps can produce.
- `Shutdown`: `ShutdownComponent` for each entry, `ShutdownDone`.
- `WaitServer` is the end of a wait for a Prometheus server.

`before` is a history variable. The empty config that `Make` substitutes for a
missing or disabled one is the case `Configured = {}`.

### PrometheusReader

Callers are goroutines; a goroutine spawned by `Start` is named after the caller
that spawned it, with `loop[g]` its position, `server[g]` its current
`http.Server` and `after[g]` the `AfterFunc`. `mu` names its holder only across
the wait for `done`; `Start` and the rest of `Shutdown` are one step each.
`select` in `Stop` with the context cancelled ends the loop, because the timer
has just been made; in `Retry` both may be ready and Go may choose either.
`ListenFails` is a busy address or a listener that breaks. The three seconds of
`http.Server.Shutdown` do not appear: `ListenAndServe` returns as soon as it is
called, and nothing else waits for its end.

### SharedWriter

Handle `<<c, i>>` is the i-th output of client `c`. Each open, write and close of
a shared output is one step under its mutex; lists are walked step by step.
`Write` may stop at any output, as a failing or short write does. Outputs that
are not shared are files opened by each client for itself.

The exporters of this repository open their outputs and write to them; none of
them closes them, so `MultiClose` is the use that `io.go` offers, and the close
in `OpenAll` the one that the code makes.

### ExporterBuild

A config is a function of the knobs that are set; a value is one of those that
the code tells apart. `Options` is all of `spanOpts`, `metricOpts`, `logOpts` or
the HTTP twin: these differ only in the temporality, which metrics have, and in
the knobs that only gRPC has. `NewExporter` is the call of the SDK; it opens a
connection for metrics and logs, while a span exporter is handed out unstarted.
`Processor` and `Reader` are what can still refuse afterwards: the queue, and the
exemplar filter. `applied` collects the knobs that were handed to the SDK.
A debug exporter opens its outputs instead of checking a transport, and turns
an untouched queue off. A pretty exporter has logs only (`Unimplemented`), and
neither knobs nor a queue.

The fields of a TLS block are knobs of their own, whose decisions are the
operators of `TlsBuild`: `Anchor`, `Certificate` and `Key` are the fields that win,
`Roots` is where `RootCAs` comes from, `BuildRefused` every error return of `Build`
but that of `x509.SystemCertPool`, which is outside of the program and may
happen in `Options` whenever the pool is asked for.

An endpoint is `host` (a host and port, for `WithEndpoint`), `http` or `https` (a URL of
that scheme, for `WithEndpointURL`), or one that is refused. `ConnOptions` are the
options that decide how the connection is secured, in the order in which the code
appends them: first `TlsOption`, then `EndpointOption`. The SDK applies them in that
order, and the last one that speaks of it says whether the connection is insecure
(`Cleartext`); what the SDK makes of that and of the TLS config is `Connection`, which
differs between the protocols: gRPC takes the credentials of a block before it looks at
the flag, HTTP takes the flag before it looks at the TLS config. `tls` is what the
connection trusts and presents, `NoTls` when it is in the clear. A TLS knob counts as
applied only if the connection is what the knob says (`TlsEffective`).

### Setup

`ConfigLoad` walks over a document's sections, `processors` and then `exporters`,
with `todo` the keys that are still to come in whatever order Go ranges over them.
`UnknownType`, `DecodeEntry` and `DecodePanics` are the three ways through the loop
body; an entry that does not decode is reported and stored all the same.
`UnmarshalDocument` is the first `unmarshal`, which parses all keys (`KeyRefused`)
before anything else. `Fields` says which keys a type of exporter has fields for;
the decoder passes over the others.

`Attributes` keeps a YAML value by its dynamic type, and integers with their
width: `AsInt` keeps the bits. A list is decoded by its first item.

`Setup` takes an accepted config on to a provider: `BeginProvider` chooses the
signal and the provider's `list` of processors, which may repeat one and name one that
the config does not have (`Nobody`). The loop of the resolver walks over it, with
`Current` the processor whose turn it is: `ApplyResource`, `ApplySampler` and
`ProcessorRefused` are what its options can come to. `options` has the resource and the
sampler in force, with the ids that they came from; each new one replaces the one
before, as the SDK does with two options of one kind. `BuildSampler` keeps the ratio
for the two types that look at it. `BeginExporter` hands the knobs of an entry to the
actions of `ExporterBuild`. A provider has one exporter here, since builds of exporters
do not look at each other; lists of them, and what becomes of what was built when a
later one fails, are the matter of `Resolver`.

### PrettyLog

One step per attribute that `WalkAttributes` visits (`WalkAttribute`), one for
the line (`WriteLine`), and `NextRecord`, in which all that the loop body declares
is new. `kind` is the set of bits, `rest` what the exporter does not know, `seen` a
history variable with the record's attributes, whose keys have short names here, such
as `body_size`. Three pairs of attributes are put aside in one place (`Rivals`: two URLs,
two body sizes, two durations); `earlier` is a second history variable, which says of two
rivals in one record which was walked over first. A line is its `layout`, the columns
`before` the method or service, and `cells` with what each column shows: numbers
as `PrettyNumbers` renders them, in fields of zeros and a number; texts by their
length. A URL is two lengths, that of what comes before its first slash once the scheme
is cut off, and that of the rest, which is 0 without a slash. A server's lines show it
whole; a client's request has the host in its address column and the rest in that of the
URL (`Domain`, `Local`), where a URL without a slash is left whole. The ids, the time and
the severity have fixed widths and appear only in `HeaderColumns`.

Left out are colours, the arrows, the abbreviation of methods, and negative sizes and
durations, which the code would let through; `PrettyAssumption` excludes them. A client
of gRPC has kinds and arrows but no line of its own in the code: its records get the
line of a log, and `LineIsComplete` asks no more for them. Neither does it for a record
of a server's answer of which only the status is known (`StatusAlone`): its bits make
none of the kinds, and it gets a log line on which neither its path nor its status is.

### CertReloader

Generation i of the pair is the number i. A rotation truncates and writes the
certificate, then the key, as the test does. `Pair` is `tls.X509KeyPair`: both
whole, and of one generation. `age` counts ticks since `loadedAt` up to the
interval. `built` turns true with the first success; before that only `Build`
itself calls `get`, and a failed `Build` leaves nothing behind.

## Runs

| run | instance | shows |
|---|---|---|
| `resolver_safety` | 6 component instances, all providers of `MCResolver` | `RollbackComplete`, `StartAllUp`, `ShutdownComplete`, `SingleStarter`, `WiredManaged`, `ProvidersStable` |
| `resolver_live` | 4 instances, a tracer and a meter | `StartReturns`, `ShutdownReturnsOnceStarted`, `FailedStartIsFinal` |
| `resolver_deferred_shutdown` | as `resolver_live` | `ShutdownAlwaysReturns` fails |
| `resolver_leak` | as `resolver_live` | `OpenIsManaged` fails |
| `prometheus_reader` | 3 callers | `OneLoop`, `ClosedMeansStopped`, `StartedMeansAlive`, `ServesAgain`, `CallsReturnAfterCancel`, `IsServer` |
| `prometheus_shutdown_todo` | 2 callers | `ShutdownReturns` fails |
| `setup` | documents with one exporter and many configs, one resource and many values, or up to two entries of every kind in each section; providers that list up to two processors | `NothingDropped`, `DisabledQueueBuilds`, `TlsHonoured`, `LoadReportsAll`, `ProcessorsHonoured` |
| `setup_unknown_key` | the same | `StorageRejected` fails |
| `exporter_leak` | OTLP, debug and pretty, four methods, configs with up to three knobs | `RefusalLeavesNothingOpen` fails |
| `shared_writer` | 3 clients, 2 shared outputs, a file | `CountIsHolders`, `WritesAreOpen`, `AllOrNothing`, `IsRefCounted` |
| `cert_reloader` | 3 handshakes, 2 rotations, an interval of 2 ticks | `PicksUpWhenDue`, `NeverRefused`, `NeverOlder`, `PicksUpRotation` |
| `pretty_log` | up to 4 attributes in every order, 10 durations, 3 sizes | `Aligned`, `LineOfItsRecord`, `LineIsComplete`, `ReadsInOrder` |

Each passing run checks the module's `TypeOK` as well, but for `resolver_live`;
in `setup` it is that of `ExporterBuild`.
In `PrometheusReader` it is what says that `done` is not closed twice, and in
`SharedWriter` that a count does not fall below zero.

Bounds, and why they are enough:

- `Cids` bounds the instances that a run builds; when they are used up the only
  way on for a build is to give up. Six are two full provider builds and one
  abandoned; the steps of two providers interact only through the order in which
  they are ranged over. The instances are interchangeable, so `resolver_safety`
  uses symmetry; the runs with liveness do not. The providers were chosen to
  have every kind of component, an exporter shared by providers of different
  signals, a list that names an exporter twice and a metric exporter without a
  reader.
- Three callers are two that race and one that comes after; there is no bound on
  how often they call or on how often the server is retried.
- Three clients are one that names an output twice, and two that open the same
  outputs in opposite orders; there is no bound on how often.
- A config has up to two knobs of any kind, up to three besides those of TLS, and
  every combination of the eight fields of TLS that depend on each other (CA,
  certificate and key by text and by file, the system's pool, the interval), each
  good or not; and blocks of TLS, insecure or with files, next to each kind of endpoint
  under either protocol. Three knobs are one more than any other condition of the code
  relates; the state of a build is bounded by its steps.
- Two entries in each section let one that fails come before and after one that
  does not, in either section; entries are decoded one by one. Lists of two items
  have a first one and one that differs. A provider lists up to two processors
  (`MaxList`), which is one that replaces another, or one of each type in either order;
  the third of a list meets no other state than the second. `Width = 2` has integers on both sides of
  the sign.
- Four attributes are those that make a kind and its columns in every order, with
  one that overwrites another; the end of a gRPC call needs one for the protocol,
  one for the server, and has two more. `MaxAttrs` is a guard of `WalkAttribute`,
  not a limit of the code. Durations and sizes stand on both sides of each limit,
  and lengths on both sides of the caps and of the width of a column; URLs have a
  host and a path, a host alone, or a path alone. What is
  checked for these numbers and records is proved for all.
- Two rotations let a handshake that began before the first end after the
  second; `Interval = 2` tells "just loaded", "fresh" and "expired" apart. The
  generation is bounded by `MaxGen`, time is not.

Deadlock is checked where nothing may stop (`SharedWriter`, `CertReloader`).
It is not for `Resolver` and `PrometheusReader`: a `Shutdown` of a reader that
was never started blocks, which is what two of the runs are about. Nor is it for
`ExporterBuild` and `Setup`, where a build ends. A pretty exporter never stops.

### Where code and documents disagree

1. `resolver_deferred_shutdown`: the README defers `Shutdown` before `Start`; on
   a Prometheus reader that never started it hangs.
2. `prometheus_shutdown_todo`: the README starts and shuts down with
   `context.TODO()`; a serving Prometheus reader is shut only by the cancellation
   of the context given to `Start`, so `Shutdown` hangs.
3. `resolver_leak`: what a provider's build had built before it failed is managed
   by nobody, though `component.go` calls it a component that a resolver manages.
4. `exporter_leak`: an OTLP metric or log exporter whose exemplar filter or queue is
   refused was already made, and is dropped without a `Shutdown`.
5. `setup_unknown_key`: README.md:116-121 promises that config which the SDK cannot
   express is rejected, and names a persistent `storage` queue. `storage` is not a
   field of `QueueConfig`, the decoder is not strict, and the exporter is built.

Smaller ones without a run of their own: the first example of the README (README.md:12)
has a processor of type `batcher`, which no registry has, so that `UnknownType`
refuses it; its example of TLS (README.md:82-87) sets `reload_interval` without a
certificate, which `Halved` refuses; `pretty/log_test.go:102-118` expects lines for
`internal.otx.ingress` and `internal.otx.egress`, which the exporter does not know; and
a list attribute of mixed types is an error when it begins with a string, but a
panic (`DecodePanics`) when it begins with a number or a bool.

Some settings are dropped without an error, though README.md:116-117 says that what cannot
be honoured is rejected. They are the exceptions that `PassedOver` and the comments of
`NothingDropped`, `TlsHonoured` and `ProcessorsHonoured` name: `tls.insecure` next to an
https:// endpoint; a TLS block next to an http:// endpoint under protocol http; the ratio of
a sampler that has none; a first resource or sampler that a second one in a provider's list
replaces; a detector whose name is not known. The other way round, `otlp/exporter.go:41-42`
and README.md:80 say that http:// implies insecure, which under gRPC it does not for a
config with a TLS block: `Connection` has the credentials of the block. And
`otlp/exporter.go:40` promises the naming syntax of gRPC for an endpoint, of which a target
such as `dns:///collector:4317` is refused for its scheme (`EndpointRefused`).

`PicksUpWhenDue` has a condition worth knowing: the pair must not be under way to
another handshake when the handshake in question begins. `loadedAt` is the time
after the read, so a slow read of a pair that is then replaced makes the old pair
fresh for one more interval.

## Fairness

- `Resolver`: the goroutine inside a call goes on while it can. Which calls are
  made is up to the application, so calling is not fair, nor is a rollback or a
  shutdown expected when nobody asked for it. A server's end is fair only once
  the context given to `Start` is cancelled, and `FairSpec` has the application
  cancel it some day; without that, `ShutdownReturns` of the reader fails.
- `PrometheusReader`: goroutines and the `AfterFunc` run, and `sync.Mutex` does
  not starve a waiter (strong fairness of `Start` and `Shutdown`). `End \/ Retry`
  is fair as one, because `select` may choose either. A listening server need not
  ever stop. That the address is free often enough is not assumed but a
  hypothesis of `ServesAgain`, which needs it.
- `CertReloader`: time passes, a handshake goes on, a rotation that has begun is
  finished. That handshakes keep coming is a hypothesis of `PicksUpRotation`.
- `SharedWriter`, `ExporterBuild`, `Setup`, `PrettyLog`: safety only. A load, a build and
  an export are calls of one goroutine that wait for nothing but the SDK.

## Proofs

Every safety property that a passing run checks is a theorem as well, the two
refinements among them: the run shows it on a small instance, the theorem for
every value of the constants. The constants are bound only by the assumptions that
the modules declare, which TLC evaluates on the instances of the runs:

| assumption | says | justified by |
|---|---|---|
| `ResolverAssumption` | lists are sequences over the right sets; `Nil` is neither a component nor a kind | Go's types |
| `ReaderAssumption` | `Nil` is not a goroutine | |
| `WriterAssumption` | shared outputs are outputs; the lists of the clients are sequences | Go's types |
| `ReloaderAssumption` | an interval of at least a tick; `Broken`, `Nil` and `Error` are not generations | `ClientTlsConfig.Build` makes no reloader without an interval |
| `WidthAssumption`, `LoadAssumption` | an integer has a bit; a document has both sections, maybe empty | |
| `ConfigsAssumption` | a config sets knobs to their own values | Go's types |
| `SetupAssumption` | the registry knows the exporters and processors of this repository and their fields; a node of a document is a null, a text or a mapping of the kind that is decoded there, its knobs have their values, its lists are sequences | the parser yields nothing else, and what another registry adds is not in the repository |
| `MaxListAssumption` | the bound on a provider's list is a number | |
| `PrettyAssumption` | durations are digits in their ranges, an int64 is small after six divisions by 1024, neither is negative, status codes have three digits or are absent, the two parts of a URL are lengths | `time.Duration`, `int64`, HTTP; that nothing is negative is a restriction, as the code does not check it |

None of the properties about an answer is inductive: the strengthenings say what
holds in the middle of a call.

`ResolverProofs`, for every set of providers, processors, exporters and instances:

| theorem | property | argument |
|---|---|---|
| `Typing` | `TypeOK` | inductive by itself, one step per action |
| `RollbackIsComplete` | `RollbackComplete` | `RollbackInv`: while a call runs, whatever is up and was not up before is in `started` |
| `StartStartsAll` | `StartAllUp` | `StartInv`: each visited entry that needs it is up |
| `ShutdownShutsAll` | `ShutdownComplete` | `ShutdownInv`: each visited entry is shut and, apart from the server that is waited for, closed |
| `StartIsSingleStarter` | `SingleStarter` | `OwnerInv`: each instance is in the table once, and the started ones are visited |
| `ProvidersAreStable` | `ProvidersStable` | `OwnerInv`: what is being built is not registered yet |
| `WiredIsManaged` | `WiredManaged` | `WiredInv`: in a build, the exporters to come are the end of the list, and the options feed what was built from its beginning; a list that names one exporter twice breaks just that |
| `FailedStartsAreFinal` | `FailedStartIsFinal` | `FailedInv`: a failed start has met a `Blocked` component, whose once is spent or whose server is closed; `BlockedStays`; `Stuck`: from then on there is one, still unvisited in every later `Start` |

`CallInv` and `ShutInv` are what the walks have in common (nothing is shut but by the
call in progress, a server that is waited for is shut). `WalkInvQuiet` and
`OwnerQuiet` are the frame lemmas: steps that leave the variables of an invariant
alone preserve it. `CallStep` says what any step does to the call in progress.
`FailedStartIsFinal` nests one box in another: `Stuck` holds where the failure is
answered, every step keeps it, and no state that has it answers nil.

`PrometheusProofs`, for any number of goroutines that use the reader. `ReaderInv`
is inductive: `SpawnInv` (at most one goroutine was ever spawned, and `started` says
whether), `DoneInv` (`done` is closed once if and only if it has ended, which only a
cancelled context makes it do), `ServeInv` (a server listens only while the goroutine
serves) and `LockInv` (a `Shutdown` that waits has the mutex; closed with the mutex
free means `done` is closed).

| theorem | property | argument |
|---|---|---|
| `Typing` | `TypeOK` | `DoneInv`: `done` is not closed twice |
| `OneServes` | `OneLoop` | `SpawnInv`, `ServeInv` |
| `ClosedIsStopped` | `ClosedMeansStopped` | `LockInv`, then `DoneInv` and `ServeInv` |
| `StartIsAnswered` | `StartedMeansAlive` | `LockInv` and `DoneInv`: the goroutine has not ended when `Start` has the mutex and finds the reader open |
| `ReaderIsServer` | `IsServer` | `ServerStep`: each step is one of the abstract server's or a stutter |

`SharedWriterProofs`, for any clients, outputs and lists. `WriterInv` is `TypeOK` with
`PlaceInv` (a client's place in its list says which of its outputs it has, also while
it unwinds or closes) and `CountInv` (the holders are finitely many, they are what is
counted, and an output is open when somebody is counted). That the count is a
cardinality needs `PlaceInv`: an open adds a new handle and a close takes away one
that was there.

| theorem | property | argument |
|---|---|---|
| `Typing` | `TypeOK` | `WriterInv`: no count falls below zero, as who closes is counted |
| `Counts` | `CountIsHolders` | a conjunct of `CountInv` |
| `OpenWhenWritten` | `WritesAreOpen` | `PlaceInv` and `CountInv` |
| `AllAreHeldOrNone` | `AllOrNothing` | `PlaceInv`; `WholeList` counts the places of a list |
| `SharedIsRefCounted` | `IsRefCounted` | `AbstractOpen`, `AbstractClose`, `AbstractStep`, with `WriterInv` |

`CertReloaderProofs`, for any number of handshakes and rotations and any interval:

| theorem | property | argument |
|---|---|---|
| `Typing` | `TypeOK` | `TypeInv`, with `DiskInv` (what the files hold at each step of a rotation) and `ReadInv` |
| `Serves` | `NeverRefused` | `BuiltInv`: after a success there is a pair, and nothing removes it |
| `OnlyForward` | `NeverOlder` | `MutexInv` and `AgeInv`: what was read is no newer than the disk and no older than what is kept |
| `ExpiredIsReplaced` | `PicksUpWhenDue` | `MutexInv` and `DueInv`: while a handshake is owed a pair, all that is being read is that pair, and only that pair looks fresh |

`SetupProofs`, with `LoadProofs` and `BuildProofs`, for every document, registry, order
of the maps and width. `SetupInv` puts together `WalkInv` of `LoadProofs` (the errors of
a section are its broken entries among those visited, and the config has the others as
they decode), `BuildInv` of `BuildProofs` (what was found about the config and what has
been applied, at each step of a build), `StageInv`, `ListInv` (what was walked of the
list was found) and `OptionsInv` (the options are those of the last resource and the
last sampler in what was walked of the list, and what their nodes decode to):

| theorem | property | argument |
|---|---|---|
| `Typing` | `TypeOK` | `BuildInv` |
| `EveryErrorIsReported` | `LoadReportsAll` | `WalkInv`, which never looks into what an entry decodes to |
| `NothingIsDropped` | `NothingDropped` | `BuildInv`, `LastOption` (which of the two options of a connection has the last word), and `ConfigIsWellFormed`: a decoded exporter has the knobs that it has fields for |
| `DisabledQueueIsIgnored` | `DisabledQueueBuilds` | `BuildInv`: why a build is refused |
| `TlsIsHonoured` | `TlsHonoured` | `BuildInv` and `LastOption`: what the options found to be good, they passed on, and the endpoint left in force |
| `ProcessorsAreHonoured` | `ProcessorsHonoured` | `WalkInv`, `ListInv` and `OptionsInv`, and what `AsInt` and a list decode to |

`PrettyProofs`, for every duration, size, text, number and order of attributes:

| theorem | property | argument |
|---|---|---|
| `Typing` | `TypeOK` | inductive by itself; `HttpTyped` and `GrpcTyped` go through the attributes |
| `LinesAligned` | `Aligned` | with `TypeOK`: `LineColumns` adds up each line from the widths of its fields |
| `LinesOfTheirRecords` | `LineOfItsRecord` | `GatherInv`: each field that was put aside is that of the last of its attributes that was seen, or its default, and the bits of `kind` are those of the attributes seen; a kind has the bit of a server or of a client, so that only one of the two URLs can be in its record; then `CellsHold` line by line |
| `LinesAreComplete` | `LineIsComplete` | `KindOfRecord` finds the line from `GatherInv`; `HttpColumns` and `GrpcColumns` a column for each attribute; that the status alone makes none of the kinds is found in the same way; `RestInv` and `RenderedCount` account for the others |
| `LinesReadInOrder` | `ReadsInOrder` | `TimedInv`: what the cells of an answered request show; `DurationOrder` and `SizeOrder`, about the operators alone |

The widths and the orders are lemmas about the operators: `DurationWidth` (eight columns
in every unit, up to `TOO_LONG`), `SizeWidth` (five), `FittedWidth`, `LongerDigits` (of two
durations the longer has the larger unit, or the same and larger digits), `MoreDivisions`
(a larger size is divided no less often).

Only model-checked is liveness, which is out of the prover's reach: `StartReturns` and
`ShutdownReturnsOnceStarted` of `Resolver`, `ServesAgain` and `CallsReturnAfterCancel`
of `PrometheusReader`, `PicksUpRotation` of `CertReloader`. The five disagreements are
counterexamples, so TLC's too.

## Not modelled, and the plan

Not modelled, and why:

- What happens in a queue at run time: the batch processors are the SDK's, whose
  code is not in the repository. `ExporterBuild` says which knobs they are given,
  `Component` what starting and shutting them does.
- `MapList.Set` and `Get` of `opaque/`, `MergeRegistry`, and the `multiLogger` of
  `logger.go`: nothing outside of the tests calls them. `opaque.String` is a
  redacted text.
- A `null` for a provider is a nil pointer in the table, and a detector that
  `Resource.opts` does not list is passed over (`ResourceOpts`); no property speaks of
  either.
- Negative sizes and durations of a log record.
- Two resolvers that build at once race for the map of outputs in `io.go`; two
  goroutines that use one resolver race for its providers. The package promises
  neither.
- The text that is logged or printed beyond its numbers, the YAML parser, the
  OpenTelemetry SDK and `net/http` beyond how they are used here.

Next, of what the prover can reach:

1. The safety half of the liveness properties, as action properties: each step of a
   `Start` or a `Shutdown` leaves fewer entries unvisited or fewer components to roll
   back, so that only fairness is left to TLC; likewise the unwinding in `SharedWriter`.
2. `WiredManaged` without its exception: which components are lost when a list names an
   exporter twice.
3. For which methods and configs a refused build leaves nothing open, as the counterpart
   of `exporter_leak`.
