----------------------------- MODULE PrettyLog -----------------------------
(***************************************************************************)
(* The pretty log exporter: LogExporter.Export of pretty/log.go, with the  *)
(* helpers of pretty/string.go and pretty/value.go.                        *)
(*                                                                         *)
(* For each record Export walks over the attributes, in the order in which *)
(* they were added.  Each one that it knows sets bits of the record's kind *)
(* and is put aside; the kind then decides which line is written.  A text  *)
(* is kept by its length, a collection by its kind and length, a URL by    *)
(* the lengths of what comes before its first slash and of the rest, its   *)
(* scheme left aside: the rest is 0 where there is no slash.  Colours are  *)
(* left out.                                                               *)
(***************************************************************************)
EXTENDS PrettyNumbers, Sequences, FiniteSets

CONSTANTS
    Durations,          \* the elapsed times in the records
    Sizes,              \* the sizes in the records
    Codes,              \* the HTTP status codes in the records
    GrpcCodes,          \* those of gRPC
    Lengths,            \* the lengths of texts and collections
    Urls,               \* the URLs in the records
    MaxAttrs            \* bound on the attributes of a record

(* A size or a duration below zero, which the code lets through, is left   *)
(* out.                                                                    *)
ASSUME PrettyAssumption ==
    /\ Durations \subseteq Elapsed
    /\ Sizes \subseteq Nat
    /\ \A n \in Sizes : \E i \in 0..6 : Small(n, i)      \* as in an int64
    /\ Codes \subseteq 0..999 /\ \A c \in Codes : c = 0 \/ c >= 100
    /\ GrpcCodes \subseteq Int
    /\ Lengths \subseteq Nat
    /\ Urls \subseteq [host : Nat, path : Nat]
    /\ MaxAttrs \in Nat

TextKeys == {"title", "peer", "method", "service", "rpc", "message"}
UrlKeys == {"path", "original"}
HttpCodeKeys == {"status"}
GrpcCodeKeys == {"grpc_status"}
SizeKeys == {"content_length", "body_size", "compressed", "uncompressed",
             "request_size", "response_size"}
BodyKeys == {"content_length", "body_size"}
ElapsedKeys == {"server_elapsed", "client_elapsed"}
OtherKeys == {"first", "second"}        \* attributes the exporter does not know
Keys == TextKeys \cup UrlKeys \cup HttpCodeKeys \cup GrpcCodeKeys \cup SizeKeys
                 \cup ElapsedKeys \cup OtherKeys

Unparsed == -1          \* stands for a content-length that is not a number
Kinds == {"scalar", "bytes", "slice", "map"}

ValuesOf(k) ==
    CASE k \in TextKeys -> Lengths
      [] k \in UrlKeys -> Urls
      [] k \in HttpCodeKeys -> Codes
      [] k \in GrpcCodeKeys -> GrpcCodes
      [] k = "content_length" -> Sizes \cup {Unparsed}
      [] k \in SizeKeys \ {"content_length"} -> Sizes
      [] k \in ElapsedKeys -> Durations
      [] OTHER -> [kind : Kinds, length : Lengths]

NoDuration == [day |-> 0, hour |-> 0, min |-> 0, sec |-> 0,
               ms |-> 0, us |-> 0, ns |-> 0]
NoUrl == [host |-> 0, path |-> 0]
NoHttp == [method |-> 0, url |-> NoUrl, peer |-> 0, code |-> 0,
           elapsed |-> NoDuration, hasBody |-> FALSE, bodySize |-> 0]
NoGrpc == [method |-> 0, service |-> 0, peer |-> 0, code |-> 0,
           elapsed |-> NoDuration, notClientStream |-> FALSE, bytes |-> 0,
           reqBytes |-> 0, resBytes |-> 0]
NoLine == [layout |-> "none"]

VARIABLES
    seen,               \* the attributes walked over so far, by key
    kind,               \* the bits of logKind
    http, grpc,         \* attr_http, attr_grpc
    title, message,     \* lengths, 0 for none
    rest,               \* the attributes that are not known, in order
    line,               \* what was written for the record
    earlier             \* history: which one of two rivals was walked over first

vars == <<seen, kind, http, grpc, title, message, rest, line, earlier>>

Bits == {"http", "grpc", "server", "client", "recv", "end"}

HttpAttrs ==
    [method : Lengths \cup {0}, url : Urls \cup {NoUrl}, peer : Lengths \cup {0},
     code : Codes \cup {0}, elapsed : Durations \cup {NoDuration},
     hasBody : BOOLEAN, bodySize : Sizes \cup {0}]
GrpcAttrs ==
    [method : Lengths \cup {0}, service : Lengths \cup {0},
     peer : Lengths \cup {0}, code : GrpcCodes \cup {0},
     elapsed : Durations \cup {NoDuration}, notClientStream : BOOLEAN,
     bytes : Sizes \cup {0}, reqBytes : Sizes \cup {0}, resBytes : Sizes \cup {0}]

(* Every value in the record is one that an attribute may have: a length   *)
(* that could not be parsed is not among them (pretty/log.go:116-122).     *)
TypeOK ==
    /\ DOMAIN seen \subseteq Keys
    /\ kind \subseteq Bits
    /\ http \in HttpAttrs
    /\ grpc \in GrpcAttrs
    /\ title \in Lengths \cup {0}
    /\ message \in Lengths \cup {0}
    /\ earlier \subseteq Keys \X Keys

Init ==
    /\ seen = <<>>
    /\ kind = {}
    /\ http = NoHttp
    /\ grpc = NoGrpc
    /\ title = 0
    /\ message = 0
    /\ rest = <<>>
    /\ line = NoLine
    /\ earlier = {}

----------------------------------------------------------------------------
(* The walk over the attributes. *)

(* The bits that an attribute sets; logKindEnd contains logKindRecv.       *)
BitsOf(k) ==
    CASE k = "peer" -> {"server"}
      [] k = "method" -> {"http"}
      [] k = "path" -> {"http", "server"}
      [] k = "original" -> {"http", "client"}
      [] k = "status" -> {"http", "recv"}
      [] k = "content_length" -> {"http", "client", "recv"}
      [] k = "body_size" -> {"http", "recv", "end"}
      [] k \in {"service", "rpc", "compressed", "uncompressed"} -> {"grpc"}
      [] k \in {"grpc_status", "request_size", "response_size"} ->
            {"grpc", "recv", "end"}
      [] k \in {"message", "server_elapsed"} -> {"server", "recv", "end"}
      [] k = "client_elapsed" -> {"client", "recv"}
      [] OTHER -> {}

(* Mutant of WithHttp: what ParseInt returns is taken with its error.      *)
WithHttpUnchecked(k, v) ==
    CASE k = "peer" -> [http EXCEPT !.peer = v]
      [] k = "method" -> [http EXCEPT !.method = v]
      [] k \in {"path", "original"} -> [http EXCEPT !.url = v]
      [] k = "status" -> [http EXCEPT !.code = v]
      [] k \in {"content_length", "body_size"} ->
            [http EXCEPT !.hasBody = TRUE, !.bodySize = v]
      [] k \in ElapsedKeys -> [http EXCEPT !.elapsed = v]
      [] OTHER -> http

(* What an attribute puts aside in attr_http. *)
WithHttp(k, v) ==
    CASE k = "peer" -> [http EXCEPT !.peer = v]
      [] k = "method" -> [http EXCEPT !.method = v]
      [] k \in {"path", "original"} -> [http EXCEPT !.url = v]
      [] k = "status" -> [http EXCEPT !.code = v]
      [] k \in {"content_length", "body_size"} /\ v # Unparsed ->
            [http EXCEPT !.hasBody = TRUE, !.bodySize = v]
      [] k \in ElapsedKeys -> [http EXCEPT !.elapsed = v]
      [] OTHER -> http

(* What an attribute puts aside in attr_grpc. *)
WithGrpc(k, v) ==
    CASE k = "peer" -> [grpc EXCEPT !.peer = v]
      [] k = "service" -> [grpc EXCEPT !.service = v]
      [] k = "rpc" -> [grpc EXCEPT !.method = v]
      [] k = "grpc_status" -> [grpc EXCEPT !.code = v]
      [] k = "compressed" -> [grpc EXCEPT !.notClientStream = TRUE, !.bytes = v]
      [] k = "uncompressed" -> [grpc EXCEPT !.notClientStream = TRUE]
      [] k = "request_size" -> [grpc EXCEPT !.reqBytes = v]
      [] k = "response_size" -> [grpc EXCEPT !.resBytes = v]
      [] k \in ElapsedKeys -> [grpc EXCEPT !.elapsed = v]
      [] OTHER -> grpc

(* The attributes that are put aside in one place, where the last one of a *)
(* record stays.                                                           *)
Rivals(k) == UNION {ks \in {UrlKeys, BodyKeys, ElapsedKeys} : k \in ks}

WalkAttribute(k, v) ==
    /\ line = NoLine
    /\ k \notin DOMAIN seen
    /\ Cardinality(DOMAIN seen) < MaxAttrs
    /\ seen' = [j \in DOMAIN seen \cup {k} |-> IF j = k THEN v ELSE seen[j]]
    /\ kind' = kind \cup BitsOf(k)
    /\ http' = WithHttp(k, v)
    /\ grpc' = WithGrpc(k, v)
    /\ title' = IF k = "title" THEN v ELSE title
    /\ message' = IF k = "message" THEN v ELSE message
    /\ rest' = IF k \in OtherKeys THEN Append(rest, v) ELSE rest
    /\ earlier' = earlier \cup {<<j, k>> : j \in DOMAIN seen \cap Rivals(k)}
    /\ UNCHANGED line

----------------------------------------------------------------------------
(* The line. *)

Cropped(n, width) == IF n < width THEN n ELSE width
(* A text that is padded with dots to a width, or cropped at it.           *)
Fitted(n, width) == (width - Cropped(n, width)) + Cropped(n, width)

(* "|title...| ", the time, the severity and the ids. *)
HeaderColumns == 1 + Fitted(title, 8) + 2 + 12 + 3 + 7 + 7
ArrowColumns == 3

(* A code of HTTP with its blank, "--- " when there is none. *)
CodeColumns(c) == IF c = 0 THEN 4 ELSE Digits(c) + 1

Blank == [unit |-> "none", fields |-> <<>>]
BodyCell == IF http.hasBody THEN HumanizeBytes(http.bodySize) ELSE Blank
BodyColumns == IF http.hasBody THEN SizeColumns(HumanizeBytes(http.bodySize))
                               ELSE 5

(* A client tells the host of a URL from its path by the first slash; one  *)
(* without a slash is taken for a path.                                    *)
Domain(url) == IF url.path = 0 THEN 0 ELSE url.host
Local(url) == IF url.path = 0 THEN url ELSE [url EXCEPT !.host = 0]

(* writeHttpIngressLine with the peer's address and the whole URL, and     *)
(* writeHttpReqLine with the two parts of it.                              *)
HttpRequestLine(address, url) ==
    [layout |-> "http", message |-> 0,
     before |-> HeaderColumns + ArrowColumns + Fitted(address, 18) + 1,
     cells  |-> [address |-> Cropped(address, 18), method |-> http.method,
                 url |-> url]]

(* writeHttpEgressLine with the whole URL, writeHttpResLine without the    *)
(* host.                                                                   *)
HttpResponseLine(url) ==
    [layout |-> "http", message |-> 0,
     before |-> HeaderColumns + ArrowColumns + CodeColumns(http.code)
                + DurationColumns(RenderDuration(http.elapsed)) + 1
                + BodyColumns + 1,
     cells  |-> [code |-> http.code, elapsed |-> RenderDuration(http.elapsed),
                 body |-> BodyCell, method |-> http.method, url |-> url]]

(* writeGrpcIngressLine. *)
GrpcRequestLine ==
    LET size == HumanizeBytes(grpc.bytes)
    IN  [layout |-> "grpc", message |-> 0,
         before |-> HeaderColumns + ArrowColumns + Fitted(grpc.peer, 18) + 1
                    + (IF grpc.notClientStream THEN SizeColumns(size) + 1 ELSE 6),
         cells  |-> [address |-> Cropped(grpc.peer, 18),
                     bytes |-> IF grpc.notClientStream THEN size ELSE Blank,
                     service |-> grpc.service, method |-> grpc.method]]

(* writeGrpcEgressLine; every code of gRPC is abbreviated to three letters. *)
GrpcResponseLine ==
    LET one == grpc.notClientStream
        left == HumanizeBytes(grpc.reqBytes)
        right == HumanizeBytes(IF one THEN grpc.bytes ELSE grpc.resBytes)
    IN  [layout |-> "grpc", message |-> 0,
         before |-> HeaderColumns + ArrowColumns + 3 + 1
                    + DurationColumns(RenderDuration(grpc.elapsed)) + 1
                    + (IF one THEN 5 ELSE SizeColumns(left)) + 1
                    + SizeColumns(right) + 1,
         cells  |-> [code |-> grpc.code,
                     elapsed |-> RenderDuration(grpc.elapsed),
                     request |-> IF one THEN Blank ELSE left,
                     bytes |-> right,
                     service |-> grpc.service, method |-> grpc.method]]

(* renderAttrValue: how many elements are shown, how many are only counted. *)
Cap(k) == CASE k = "bytes" -> 8 [] k \in {"slice", "map"} -> 5
RenderAttrValue(v) ==
    IF v.kind = "scalar" THEN [shown |-> 1, more |-> 0]
    ELSE [shown |-> Cropped(v.length, Cap(v.kind)),
          more  |-> IF v.length > Cap(v.kind) THEN v.length - Cap(v.kind) ELSE 0]

(* writeLogLine. *)
LogLine ==
    [layout |-> "log", message |-> 0,
     cells  |-> [body |-> TRUE,
                 rest |-> [i \in DOMAIN rest |-> RenderAttrValue(rest[i])]]]

(* Mutant of LineOf: an HTTP response is not told from its end.            *)
LineOfEnded ==
    CASE kind = {"http", "server"} -> HttpRequestLine(http.peer, http.url)
      [] kind = {"http", "server", "recv", "end"} -> HttpResponseLine(http.url)
      [] kind = {"http", "client"} -> HttpRequestLine(Domain(http.url), Local(http.url))
      [] kind = {"http", "client", "recv", "end"} -> HttpResponseLine(Local(http.url))
      [] kind = {"grpc", "server"} -> GrpcRequestLine
      [] kind = {"grpc", "server", "recv", "end"} -> GrpcResponseLine
      [] OTHER -> LogLine

LineOf ==
    CASE kind = {"http", "server"} -> HttpRequestLine(http.peer, http.url)
      [] kind = {"http", "server", "recv", "end"} -> HttpResponseLine(http.url)
      [] kind = {"http", "client"} -> HttpRequestLine(Domain(http.url), Local(http.url))
      [] kind \in {{"http", "client", "recv"},
                   {"http", "client", "recv", "end"}} -> HttpResponseLine(Local(http.url))
      [] kind = {"grpc", "server"} -> GrpcRequestLine
      [] kind = {"grpc", "server", "recv", "end"} -> GrpcResponseLine
      [] OTHER -> LogLine

WriteLine ==
    /\ line = NoLine
    /\ line' = [LineOf EXCEPT !.message = message]
    /\ UNCHANGED <<seen, kind, http, grpc, title, message, rest, earlier>>

(* Mutant of NextRecord: the kind is declared outside of the loop, with    *)
(* what has been gathered.                                                 *)
NextRecordKept ==
    /\ line # NoLine
    /\ seen' = <<>>
    /\ kind' = {}
    /\ title' = 0
    /\ message' = 0
    /\ rest' = <<>>
    /\ line' = NoLine
    /\ earlier' = {}
    /\ UNCHANGED <<http, grpc>>

(* The next record of the batch, or of the next call: all is declared      *)
(* inside of the loop.                                                     *)
NextRecord ==
    /\ line # NoLine
    /\ seen' = <<>>
    /\ kind' = {}
    /\ http' = NoHttp
    /\ grpc' = NoGrpc
    /\ title' = 0
    /\ message' = 0
    /\ rest' = <<>>
    /\ line' = NoLine
    /\ earlier' = {}

Next ==
    \/ \E k \in Keys : \E v \in ValuesOf(k) : WalkAttribute(k, v)
    \/ WriteLine
    \/ NextRecord

Spec == Init /\ [][Next]_vars

----------------------------------------------------------------------------
(* Correctness. *)

Written(layout) == line.layout = layout

(* The method of HTTP, and the service of gRPC, stand in one column in all *)
(* the lines of a protocol, requests and responses, whatever texts and     *)
(* numbers come before (pretty/log.go:227-235).                            *)
Aligned ==
    /\ Written("http") => line.before = 62
    /\ Written("grpc") => line.before = 68

(* The attributes that a column may show.  With a message's size known, as *)
(* it is when the client does not stream, the sizes of the streams and the *)
(* uncompressed size have no column.                                       *)
Unary == {"compressed", "uncompressed"} \cap DOMAIN seen # {}
Writers(column) ==
    {k \in DOMAIN seen : k = "content_length" => seen[k] # Unparsed} \cap
    CASE column = "address" -> {"peer", "original"}
      [] column = "method"  -> {"method", "rpc"}
      [] column = "url"     -> UrlKeys
      [] column = "code"    -> {"status", "grpc_status"}
      [] column = "elapsed" -> ElapsedKeys
      [] column = "body"    -> BodyKeys
      [] column = "service" -> {"service"}
      [] column = "bytes"   -> IF Unary THEN {"compressed"} ELSE {"response_size"}
      [] column = "request" -> IF Unary THEN {} ELSE {"request_size"}

(* What an attribute looks like in a column.  A URL that was requested is  *)
(* split in two; one without a slash leaves the address empty, and its     *)
(* host is all that there is of it in the column of the URL.               *)
Shown(column, k) ==
    CASE column = "address" ->
            Cropped(IF k = "original" THEN Domain(seen[k]) ELSE seen[k], 18)
      [] column = "url"     -> IF k = "original" THEN Local(seen[k]) ELSE seen[k]
      [] column = "elapsed" -> RenderDuration(seen[k])
      [] column \in {"body", "bytes", "request"} -> HumanizeBytes(seen[k])
      [] OTHER              -> seen[k]
Empty(column) ==
    CASE column = "elapsed" -> {RenderDuration(NoDuration)}
      [] column \in {"body", "bytes", "request"} -> {Blank, HumanizeBytes(0)}
      [] column = "url"     -> {NoUrl}
      [] OTHER              -> {0}

(* What a column shows is what the attribute for it says that came last in *)
(* this record: nothing is left of another record of the batch, and of two *)
(* attributes for one column the later one is shown; a column without an   *)
(* attribute is empty (pretty/log.go:79-170, 325-389).                     *)
LineOfItsRecord ==
    Written("http") \/ Written("grpc") =>
        \A c \in DOMAIN line.cells :
            IF Writers(c) = {}
            THEN line.cells[c] \in Empty(c)
            ELSE \E k \in Writers(c) :
                    /\ line.cells[c] = Shown(c, k)
                    /\ \A j \in Writers(c) \ {k} : <<j, k>> \in earlier

HttpClientKeys == {"method", "original", "status", "content_length",
                   "body_size", "client_elapsed"}
HttpServerKeys == {"peer", "method", "path", "status", "body_size",
                   "message", "server_elapsed"}
GrpcServerKeys == {"peer", "service", "rpc", "grpc_status", "compressed",
                   "uncompressed", "request_size", "response_size",
                   "message", "server_elapsed"}

Known == DOMAIN seen \ ({"title"} \cup OtherKeys)
OfHttpClient == "original" \in Known /\ Known \subseteq HttpClientKeys
OfHttpServer ==
    /\ "path" \in Known
    /\ Known \subseteq HttpServerKeys
    /\ "status" \in Known =>
           Known \cap {"body_size", "message", "server_elapsed"} # {}
OfGrpcServer ==
    /\ Known \subseteq GrpcServerKeys
    /\ Known \cap {"peer", "message", "server_elapsed"} # {}
    /\ Known \cap (GrpcServerKeys \ HttpServerKeys) # {}

(* A server's answer of which nothing is known but its status has bits     *)
(* that make none of the kinds.                                            *)
StatusAlone ==
    /\ {"path", "status"} \subseteq Known
    /\ Known \subseteq {"peer", "method", "path", "status"}

(* An attribute that no column is for: the peer of a request that has been *)
(* answered, and the sizes that Unary passes over.                         *)
NoColumn == {"peer", "message", "uncompressed"}
            \cup (IF Unary THEN {"request_size", "response_size"} ELSE {})

(* A record of an HTTP exchange that has its path, or its URL for a        *)
(* client, or one of a gRPC server, and no other attributes that the       *)
(* exporter knows, gets the line that is meant for it, and each attribute  *)
(* has its column there, but for those of NoColumn.  It is not so for a    *)
(* server's answer with its status alone: that gets a log line, and its    *)
(* path, method and status are lost.  A log line, whatever the record is   *)
(* of, has all the attributes that the exporter does not know, with no     *)
(* element unaccounted for (pretty/log.go:212-258, pretty/value.go:30-74). *)
(* The internal.otx attributes of log_test.go:98-118, for which the test   *)
(* has lines of their own, are some that the exporter does not know.       *)
LineIsComplete ==
    line # NoLine =>
        /\ OfHttpClient \/ OfHttpServer => Written("http")
        /\ OfGrpcServer => Written("grpc")
        /\ StatusAlone => Written("log")
        /\ line.message = IF "message" \in DOMAIN seen THEN seen["message"] ELSE 0
        /\ OfHttpClient \/ OfHttpServer \/ OfGrpcServer =>
               \A k \in Known \ NoColumn :
                   \/ k = "content_length" /\ seen[k] = Unparsed
                   \/ \E c \in DOMAIN line.cells : k \in Writers(c)
        /\ Written("log") =>
               /\ Len(line.cells.rest) = Cardinality(DOMAIN seen \cap OtherKeys)
               /\ \A k \in DOMAIN seen \cap OtherKeys : seen[k].kind # "scalar" =>
                     \E i \in DOMAIN line.cells.rest :
                         line.cells.rest[i].shown + line.cells.rest[i].more
                             = seen[k].length

(* Which of two durations is longer, by their digits from the left. *)
Longer(d, e) ==
    LET units == <<"day", "hour", "min", "sec", "ms", "us", "ns">>
    IN  \E i \in 1..7 : /\ d[units[i]] > e[units[i]]
                        /\ \A j \in 1..(i - 1) : d[units[j]] = e[units[j]]

(* Whether a text reads as no less than another: a larger unit, or the     *)
(* same one with numbers that are no smaller, from the left.               *)
Units == <<"us", "ms", "s", "d", "h", "TOO_LONG",
           "B", "K", "M", "G", "T", "P", "E">>
Rank(unit) == CHOOSE i \in DOMAIN Units : Units[i] = unit
ReadsNoLess(r, s) ==
    \/ Rank(r.unit) > Rank(s.unit)
    \/ /\ r.unit = s.unit
       /\ \/ \A i \in DOMAIN r.fields : r.fields[i].n = s.fields[i].n
          \/ \E i \in DOMAIN r.fields :
                 /\ r.fields[i].n > s.fields[i].n
                 /\ \A j \in 1..(i - 1) : r.fields[j].n = s.fields[j].n

(* A record that took longer, or that had a larger body, never reads as if *)
(* it was less, on whichever side of the limits of the units the two are   *)
(* (pretty/string.go:111-260 and 263-288).                                 *)
ReadsInOrder ==
    Written("http") /\ "elapsed" \in DOMAIN line.cells =>
        /\ \A d \in Durations : Longer(d, http.elapsed) =>
               ReadsNoLess(RenderDuration(d), line.cells.elapsed)
        /\ http.hasBody => \A n \in Sizes : n > http.bodySize =>
               ReadsNoLess(HumanizeBytes(n), line.cells.body)
=============================================================================
