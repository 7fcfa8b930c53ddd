---------------------------- MODULE PrettyProofs ----------------------------
(***************************************************************************)
(* Theorems about PrettyLog, for every choice of its constants, whatever   *)
(* the attributes of a record and their order: the lines of a protocol are *)
(* aligned, show what their own records say and all of it, and longer      *)
(* durations and larger sizes do not read as less.                         *)
(***************************************************************************)
EXTENDS PrettyLog, FiniteSetTheorems, TLAPS

(* The ranges of the fields of a duration. *)
Hours == 0..23
Sixtieths == 0..59
Thousandths == 0..999

(* The digits of a duration are in their ranges (pretty/string.go:118).    *)
LEMMA ElapsedDigits ==
    ASSUME NEW d \in Elapsed
    PROVE  /\ d.day \in Nat /\ d.hour \in Hours
           /\ d.min \in Sixtieths /\ d.sec \in Sixtieths
           /\ d.ms \in Thousandths /\ d.us \in Thousandths
           /\ d.ns \in Thousandths
<1>1. d \in [day : Nat, hour : Nat, min : Nat, sec : Nat,
             ms : Nat, us : Nat, ns : Nat]
  BY DEF Elapsed
<1>2. \A u \in DOMAIN Radix : d[u] \in Nat /\ d[u] < Radix[u]
  BY <1>1 DEF Elapsed, Radix
<1>3. /\ \A n \in Nat : n < 24 => n \in Hours
      /\ \A n \in Nat : n < 60 => n \in Sixtieths
      /\ \A n \in Nat : n < 1000 => n \in Thousandths
  BY DEF Hours, Sixtieths, Thousandths
<1>4. /\ Radix.hour = 24 /\ \A u \in {"min", "sec"} : Radix[u] = 60
      /\ \A u \in {"ms", "us", "ns"} : Radix[u] = 1000
      /\ DOMAIN Radix = {"hour", "min", "sec", "ms", "us", "ns"}
  BY DEF Radix
<1>5. d.hour \in Hours
  BY <1>2, <1>3, <1>4
<1>6. \A u \in {"min", "sec"} : d[u] \in Sixtieths
  BY <1>2, <1>3, <1>4
<1>7. \A u \in {"ms", "us", "ns"} : d[u] \in Thousandths
  BY <1>2, <1>3, <1>4
<1>. QED  BY <1>1, <1>5, <1>6, <1>7

(* A field of three digits, of two, and of the hundredths, is as wide as   *)
(* its name says (pretty/string.go:121-147).                               *)
LEMMA FieldWidths ==
    /\ \A n \in Thousandths : Columns(ThreeDigits(n)) = 3
    /\ \A n \in Hours \cup Sixtieths \cup 0..99 : Columns(TwoDigits(n)) = 2
    /\ \A n \in Thousandths : Columns(Hundredths(n)) = 2
    /\ \A n \in Thousandths : Columns(Field(0, n \div 100)) = 1
<1>1. \A n \in Thousandths : Columns(ThreeDigits(n)) = 3
  BY DEF Thousandths, Columns, ThreeDigits, Field, One, Digits
<1>2. \A n \in Hours \cup Sixtieths \cup 0..99 : Columns(TwoDigits(n)) = 2
  BY DEF Hours, Sixtieths, Columns, TwoDigits, Field, One, Digits
<1>3. \A n \in Thousandths : Columns(Hundredths(n)) = 2
  <2> SUFFICES ASSUME NEW n \in 0..999 PROVE Columns(Hundredths(n)) = 2
    BY DEF Thousandths
  <2>1. n \div 10 \in 0..99 /\ (n < 100 => n \div 10 < 10)
                            /\ (n >= 100 => n \div 10 >= 10)
    OBVIOUS
  <2>. QED  BY <2>1 DEF Columns, Hundredths, Field, One, Digits
<1>4. \A n \in Thousandths : Columns(Field(0, n \div 100)) = 1
  <2> SUFFICES ASSUME NEW n \in 0..999
               PROVE  Columns(Field(0, n \div 100)) = 1
    BY DEF Thousandths
  <2>1. n \div 100 \in 0..9
    OBVIOUS
  <2>. QED  BY <2>1 DEF Columns, Field, Digits
<1>. QED  BY <1>1, <1>2, <1>3, <1>4

(* A duration takes eight columns, in every unit (pretty/string.go:113-117).*)
LEMMA DurationWidth ==
    ASSUME NEW d \in Elapsed
    PROVE  DurationColumns(RenderDuration(d)) = 8
<1>1. /\ d.day \in Nat /\ d.hour \in Hours
      /\ d.min \in Sixtieths /\ d.sec \in Sixtieths
      /\ d.ms \in Thousandths /\ d.us \in Thousandths
      /\ d.ns \in Thousandths
  BY ElapsedDigits
<1>2. PICK day \in Nat : d.day = day
  BY <1>1
<1>3. CASE UnderMillisecond(d)
  <2>1. Columns(ThreeDigits(d.us)) = 3 /\ Columns(Hundredths(d.ns)) = 2
    BY <1>1, FieldWidths
  <2>2. RenderDuration(d) = [unit |-> "us",
                             fields |-> <<ThreeDigits(d.us), Hundredths(d.ns)>>]
    BY <1>3 DEF RenderDuration
  <2>. QED  BY <2>1, <2>2 DEF DurationColumns
<1>4. CASE ~UnderMillisecond(d) /\ UnderSecond(d)
  <2>1. Columns(ThreeDigits(d.ms)) = 3 /\ Columns(Hundredths(d.us)) = 2
    BY <1>1, FieldWidths
  <2>2. RenderDuration(d) = [unit |-> "ms",
                             fields |-> <<ThreeDigits(d.ms), Hundredths(d.us)>>]
    BY <1>4 DEF RenderDuration
  <2>. QED  BY <2>1, <2>2 DEF DurationColumns
<1>5. CASE ~UnderMillisecond(d) /\ ~UnderSecond(d) /\ UnderHour(d)
  <2>1. Columns(TwoDigits(d.min)) = 2 /\ Columns(TwoDigits(d.sec)) = 2
    BY <1>1, FieldWidths
  <2>2. Columns(Field(0, d.ms \div 100)) = 1
    BY <1>1, FieldWidths
  <2>3. RenderDuration(d) = [unit |-> "s",
                             fields |-> <<TwoDigits(d.min), TwoDigits(d.sec),
                                          Field(0, d.ms \div 100)>>]
    BY <1>5 DEF RenderDuration
  <2>. QED  BY <2>1, <2>2, <2>3 DEF DurationColumns
<1>6. CASE ~UnderMillisecond(d) /\ ~UnderSecond(d) /\ ~UnderHour(d)
  <2>1. Columns(TwoDigits(d.hour)) = 2 /\ Columns(TwoDigits(d.min)) = 2
    BY <1>1, FieldWidths
  <2>2. CASE day < 100
    <3>1. Columns(TwoDigits(day)) = 2
      BY <2>2, FieldWidths
    <3>2. RenderDuration(d) = [unit |-> "d",
                               fields |-> <<TwoDigits(day), TwoDigits(d.hour),
                                            TwoDigits(d.min)>>]
      BY <1>2, <1>6, <2>2 DEF RenderDuration
    <3>. QED  BY <2>1, <3>1, <3>2 DEF DurationColumns
  <2>3. CASE ~(day < 100) /\ day < 10000
    <3>1. day \in 100..9999
      BY <2>3
    <3>2. Columns(Field(One(day < 1000), day)) = 4
      <4>1. CASE day < 1000
        BY <3>1, <4>1 DEF Columns, Field, One, Digits
      <4>2. CASE ~(day < 1000)
        BY <3>1, <4>2 DEF Columns, Field, One, Digits
      <4>. QED  BY <4>1, <4>2
    <3>3. RenderDuration(d) = [unit |-> "h",
                               fields |-> <<Field(One(day < 1000), day),
                                            TwoDigits(d.hour)>>]
      BY <1>2, <1>6, <2>3 DEF RenderDuration
    <3>. QED  BY <2>1, <3>2, <3>3 DEF DurationColumns
  <2>4. CASE ~(day < 100) /\ ~(day < 10000)
    BY <1>2, <1>6, <2>4 DEF DurationColumns, RenderDuration
  <2>. QED  BY <2>2, <2>3, <2>4
<1>. QED  BY <1>3, <1>4, <1>5, <1>6

(* A size takes four digits and a letter, and the letter exists: an int64  *)
(* is small after six divisions (pretty/string.go:273-298).                *)
LEMMA SizeWidth ==
    ASSUME NEW n \in Nat, \E i \in 0..6 : Small(n, i)
    PROVE  SizeColumns(HumanizeBytes(n)) = 5
<1> DEFINE i == Divisions(n)
           m == n \div Power(i)
<1>1. i \in 0..6 /\ Small(n, i)
  BY Z3 DEF Divisions
<1>2. Power(i) \in Nat /\ Power(i) > 0
  BY <1>1 DEF Power, K
<1> HIDE DEF m
<1>3. m \in Nat /\ m <= 9999
  <2>1. m <= 9999
    BY <1>1 DEF Small, m
  <2>2. \A p \in Nat : p > 0 => n \div p \in Nat
    OBVIOUS
  <2>3. m \in Nat
    BY <1>2, <2>2 DEF m
  <2>. QED  BY <2>1, <2>3
<1>4. HumanizeBytes(n).fields
        = <<Field(One(m < 1000) + One(m < 100) + One(m < 10), m)>>
  BY DEF HumanizeBytes, m
<1>5. Columns(Field(One(m < 1000) + One(m < 100) + One(m < 10), m)) = 4
  BY <1>3 DEF Columns, Field, One, Digits
<1>. QED  BY <1>4, <1>5 DEF SizeColumns

----------------------------------------------------------------------------
(* What is put aside keeps its type, since a length that cannot be parsed  *)
(* is not taken (pretty/log.go:116-122).                                   *)
LEMMA HttpTyped ==
    ASSUME http \in HttpAttrs, NEW k \in Keys, NEW v \in ValuesOf(k)
    PROVE  WithHttp(k, v) \in HttpAttrs
<1> USE DEF HttpAttrs, WithHttp, TextKeys, UrlKeys, HttpCodeKeys, GrpcCodeKeys,
            SizeKeys, ElapsedKeys
<1>1. CASE k \in {"peer", "method"}
  <2>1. v \in Lengths
    BY <1>1 DEF ValuesOf
  <2>. QED  BY <1>1, <2>1
<1>6. CASE k \in UrlKeys
  <2>1. v \in Urls
    BY <1>6 DEF ValuesOf
  <2>. QED  BY <1>6, <2>1
<1>2. CASE k = "status"
  <2>1. v \in Codes
    BY <1>2 DEF ValuesOf
  <2>. QED  BY <1>2, <2>1
<1>3. CASE k \in {"content_length", "body_size"}
  <2>1. v \in Sizes \/ (k = "content_length" /\ v = Unparsed)
    BY <1>3 DEF ValuesOf
  <2>2. CASE v = Unparsed
    BY <1>3, <2>2
  <2>3. CASE v # Unparsed
    BY <1>3, <2>1, <2>3
  <2>. QED  BY <2>2, <2>3
<1>4. CASE k \in ElapsedKeys
  <2>1. v \in Durations
    BY <1>4 DEF ValuesOf
  <2>. QED  BY <1>4, <2>1
<1>5. CASE ~(k \in {"peer", "method", "path", "original", "status",
                    "content_length", "body_size"} \cup ElapsedKeys)
  BY <1>5
<1>. QED  BY <1>1, <1>2, <1>3, <1>4, <1>5, <1>6

(* The same for gRPC (pretty/log.go:124-170).                              *)
LEMMA GrpcTyped ==
    ASSUME grpc \in GrpcAttrs, NEW k \in Keys, NEW v \in ValuesOf(k)
    PROVE  WithGrpc(k, v) \in GrpcAttrs
<1> USE DEF GrpcAttrs, WithGrpc, TextKeys, UrlKeys, HttpCodeKeys, GrpcCodeKeys,
            SizeKeys, ElapsedKeys
<1>1. CASE k \in {"peer", "service", "rpc"}
  <2>1. v \in Lengths
    BY <1>1 DEF ValuesOf
  <2>2. CASE k = "peer"
    BY <2>1, <2>2
  <2>3. CASE k = "service"
    BY <2>1, <2>3
  <2>4. CASE k = "rpc"
    BY <2>1, <2>4
  <2>. QED  BY <1>1, <2>2, <2>3, <2>4
<1>2. CASE k = "grpc_status"
  <2>1. v \in GrpcCodes
    BY <1>2 DEF ValuesOf
  <2>. QED  BY <1>2, <2>1
<1>3. CASE k \in {"compressed", "uncompressed", "request_size", "response_size"}
  <2>1. v \in Sizes
    BY <1>3 DEF ValuesOf
  <2>2. CASE k = "compressed"
    BY <2>1, <2>2
  <2>3. CASE k = "uncompressed"
    BY <2>1, <2>3
  <2>4. CASE k = "request_size"
    BY <2>1, <2>4
  <2>5. CASE k = "response_size"
    BY <2>1, <2>5
  <2>. QED  BY <1>3, <2>2, <2>3, <2>4, <2>5
<1>4. CASE k \in ElapsedKeys
  <2>1. v \in Durations
    BY <1>4 DEF ValuesOf
  <2>2. WithGrpc(k, v) = [grpc EXCEPT !.elapsed = v]
    BY <1>4
  <2>. HIDE DEF WithGrpc
  <2>. QED  BY <2>1, <2>2
<1>5. CASE ~(k \in {"peer", "service", "rpc", "grpc_status", "compressed",
                    "uncompressed", "request_size", "response_size"}
                   \cup ElapsedKeys)
  <2>1. WithGrpc(k, v) = grpc
    BY <1>5
  <2>. QED  BY <2>1
<1>. QED  BY <1>1, <1>2, <1>3, <1>4, <1>5

(* A record's values keep the types of its attributes (pretty/log.go:78-170).*)
THEOREM Typing == Spec => []TypeOK
<1>1. Init => TypeOK
  BY DEF Init, TypeOK, HttpAttrs, GrpcAttrs, NoHttp, NoGrpc
<1>2. TypeOK /\ [Next]_vars => TypeOK'
  <2> SUFFICES ASSUME TypeOK, [Next]_vars PROVE TypeOK'
    OBVIOUS
  <2>1. ASSUME NEW k \in Keys, NEW v \in ValuesOf(k), WalkAttribute(k, v)
        PROVE  TypeOK'
    <3>1. (DOMAIN seen \subseteq Keys)'
      BY <2>1 DEF TypeOK, WalkAttribute
    <3>2. (kind \subseteq Bits)'
      BY <2>1 DEF TypeOK, WalkAttribute, BitsOf, Bits
    <3>3. (http \in HttpAttrs)'
      <4>1. http' = WithHttp(k, v) /\ http \in HttpAttrs
        BY <2>1 DEF TypeOK, WalkAttribute
      <4>2. WithHttp(k, v) \in HttpAttrs
        BY <4>1, HttpTyped
      <4>. QED  BY <4>1, <4>2 DEF HttpAttrs
    <3>4. (grpc \in GrpcAttrs)'
      <4>1. grpc' = WithGrpc(k, v) /\ grpc \in GrpcAttrs
        BY <2>1 DEF TypeOK, WalkAttribute
      <4>2. WithGrpc(k, v) \in GrpcAttrs
        BY <4>1, GrpcTyped
      <4>. QED  BY <4>1, <4>2 DEF GrpcAttrs
    <3>5. (title \in Lengths \cup {0} /\ message \in Lengths \cup {0})'
      BY <2>1 DEF TypeOK, WalkAttribute, ValuesOf, TextKeys, UrlKeys,
                      HttpCodeKeys, GrpcCodeKeys, SizeKeys, ElapsedKeys
    <3>6. (earlier \subseteq Keys \X Keys)'
      <4>1. earlier' = earlier \cup {<<j, k>> : j \in DOMAIN seen \cap Rivals(k)}
        BY <2>1 DEF WalkAttribute
      <4>. QED  BY <4>1 DEF TypeOK
    <3>. QED  BY <3>1, <3>2, <3>3, <3>4, <3>5, <3>6 DEF TypeOK
  <2>2. CASE WriteLine
    BY <2>2 DEF TypeOK, WriteLine, HttpAttrs, GrpcAttrs
  <2>3. CASE NextRecord
    BY <2>3 DEF TypeOK, NextRecord, HttpAttrs, GrpcAttrs, NoHttp, NoGrpc
  <2>4. CASE UNCHANGED vars
    BY <2>4 DEF TypeOK, vars, HttpAttrs, GrpcAttrs
  <2>. QED  BY <2>1, <2>2, <2>3, <2>4 DEF Next
<1>. QED  BY <1>1, <1>2, PTL DEF Spec

----------------------------------------------------------------------------
(* A text that is padded or cropped has the width it is given              *)
(* (pretty/log.go:189-196, 317-326).                                       *)
LEMMA FittedWidth ==
    \A n, w \in Nat : Fitted(n, w) = w
BY DEF Fitted, Cropped

(* The peer, and the host of a URL, are lengths.                           *)
LEMMA AddressIsLength ==
    ASSUME TypeOK
    PROVE  http.peer \in Nat /\ Domain(http.url) \in Nat
<1>1. http.peer \in Nat
  <2>1. \A n \in Lengths \cup {0} : n \in Nat
    BY PrettyAssumption
  <2>. QED  BY <2>1 DEF TypeOK, HttpAttrs
<1>2. http.url \in [host : Nat, path : Nat]
  <2>1. \A u \in Urls \cup {NoUrl} : u \in [host : Nat, path : Nat]
    BY PrettyAssumption DEF NoUrl
  <2>. QED  BY <2>1 DEF TypeOK, HttpAttrs
<1>. QED  BY <1>1, <1>2 DEF Domain

(* Every line of HTTP or gRPC has its texts in the columns of its protocol,*)
(* since what comes before has the same width in all of them               *)
(* (pretty/log.go:259-440).                                                *)
LEMMA LineColumns ==
    ASSUME TypeOK
    PROVE  /\ LineOf.layout \in {"http", "grpc", "log"}
           /\ LineOf.layout = "http" => LineOf.before = 62
           /\ LineOf.layout = "grpc" => LineOf.before = 68
<1>1. HeaderColumns = 40
  <2>1. title \in Nat
    BY PrettyAssumption DEF TypeOK
  <2>2. Fitted(title, 8) = 8
    BY <2>1, FittedWidth
  <2>. QED  BY <2>2 DEF HeaderColumns
<1>2. \A n \in Lengths \cup {0} : Fitted(n, 18) = 18
  BY FittedWidth, PrettyAssumption
<1>3. \A d \in Durations \cup {NoDuration} :
         DurationColumns(RenderDuration(d)) = 8
  <2>1. NoDuration \in Elapsed
    BY DEF NoDuration, Elapsed, Radix
  <2>. QED  BY <2>1, DurationWidth, PrettyAssumption
<1>4. \A n \in Sizes \cup {0} : SizeColumns(HumanizeBytes(n)) = 5
  <2>1. Small(0, 0)
    BY DEF Small, Power
  <2>2. \A n \in Sizes \cup {0} : n \in Nat /\ \E i \in 0..6 : Small(n, i)
    BY <2>1, PrettyAssumption
  <2>. QED  BY <2>2, SizeWidth
<1>5. \A c \in Codes \cup {0} : CodeColumns(c) = 4
  <2>1. \A c \in Codes \cup {0} : c = 0 \/ c \in 100..999
    BY PrettyAssumption
  <2>. QED  BY <2>1 DEF CodeColumns, Digits
<1>6. \A n \in Nat : \A u : /\ HttpRequestLine(n, u).layout = "http"
                            /\ HttpRequestLine(n, u).before = 62
  BY <1>1, FittedWidth DEF HttpRequestLine, ArrowColumns
<1>7. \A u : HttpResponseLine(u).layout = "http" /\ HttpResponseLine(u).before = 62
  <2>1. CodeColumns(http.code) = 4
    BY <1>5 DEF TypeOK, HttpAttrs
  <2>2. DurationColumns(RenderDuration(http.elapsed)) = 8
    BY <1>3 DEF TypeOK, HttpAttrs
  <2>3. BodyColumns = 5
    <3>1. SizeColumns(HumanizeBytes(http.bodySize)) = 5
      BY <1>4 DEF TypeOK, HttpAttrs
    <3>. QED  BY <3>1 DEF BodyColumns
  <2>. QED  BY <1>1, <2>1, <2>2, <2>3 DEF HttpResponseLine, ArrowColumns
<1>8. GrpcRequestLine.layout = "grpc" /\ GrpcRequestLine.before = 68
  <2>1. Fitted(grpc.peer, 18) = 18
    BY <1>2 DEF TypeOK, GrpcAttrs
  <2>2. SizeColumns(HumanizeBytes(grpc.bytes)) = 5
    BY <1>4 DEF TypeOK, GrpcAttrs
  <2>. QED  BY <1>1, <2>1, <2>2 DEF GrpcRequestLine, ArrowColumns
<1>9. GrpcResponseLine.layout = "grpc" /\ GrpcResponseLine.before = 68
  <2>1. DurationColumns(RenderDuration(grpc.elapsed)) = 8
    BY <1>3 DEF TypeOK, GrpcAttrs
  <2>2. SizeColumns(HumanizeBytes(grpc.bytes)) = 5
    BY <1>4 DEF TypeOK, GrpcAttrs
  <2>3. SizeColumns(HumanizeBytes(grpc.reqBytes)) = 5
    BY <1>4 DEF TypeOK, GrpcAttrs
  <2>4. SizeColumns(HumanizeBytes(grpc.resBytes)) = 5
    BY <1>4 DEF TypeOK, GrpcAttrs
  <2>. QED  BY <1>1, <2>1, <2>2, <2>3, <2>4 DEF GrpcResponseLine, ArrowColumns
<1>10. LogLine.layout = "log"
  BY DEF LogLine
<1>11. \/ LineOf \in {GrpcRequestLine, GrpcResponseLine, LogLine}
       \/ \E u : LineOf = HttpResponseLine(u)
       \/ \E n \in Nat : \E u : LineOf = HttpRequestLine(n, u)
  BY AddressIsLength DEF LineOf
<1>. QED  BY <1>6, <1>7, <1>8, <1>9, <1>10, <1>11

(* The columns of a protocol are aligned in all its lines, for all texts,  *)
(* durations and sizes (pretty/log.go:227-235).                            *)
THEOREM LinesAligned == Spec => []Aligned
<1>1. Init => Aligned
  BY DEF Init, Aligned, Written, NoLine
<1>2. TypeOK /\ Aligned /\ [Next]_vars => Aligned'
  <2> SUFFICES ASSUME TypeOK, Aligned, [Next]_vars PROVE Aligned'
    OBVIOUS
  <2>1. ASSUME NEW k \in Keys, NEW v \in ValuesOf(k), WalkAttribute(k, v)
        PROVE  Aligned'
    BY <2>1 DEF WalkAttribute, Aligned, Written
  <2>2. CASE WriteLine
    <3>1. /\ line'.layout = LineOf.layout
          /\ LineOf.layout # "log" => line'.before = LineOf.before
      BY <2>2 DEF WriteLine
    <3>. QED  BY <3>1, LineColumns DEF Aligned, Written
  <2>3. CASE NextRecord
    BY <2>3 DEF NextRecord, Aligned, Written, NoLine
  <2>4. CASE UNCHANGED vars
    BY <2>4 DEF vars, Aligned, Written
  <2>. QED  BY <2>1, <2>2, <2>3, <2>4 DEF Next
<1>. QED  BY <1>1, <1>2, Typing, PTL DEF Spec

----------------------------------------------------------------------------
(* What is put aside for a record, by the attributes that it may come from:*)
(* it is of the one that came last.                                        *)
ParsedOf(s) == {k \in DOMAIN s : k = "content_length" => s[k] # Unparsed}
Taken(s, e, value, default, ks) ==
    IF ks \cap ParsedOf(s) = {}
    THEN value = default
    ELSE \E k \in ks \cap ParsedOf(s) :
            /\ value = s[k]
            /\ \A j \in (ks \cap ParsedOf(s)) \ {k} : <<j, k>> \in e

HttpInv ==
    /\ Taken(seen, earlier, http.method, 0, {"method"})
    /\ Taken(seen, earlier, http.url, NoUrl, UrlKeys)
    /\ Taken(seen, earlier, http.peer, 0, {"peer"})
    /\ Taken(seen, earlier, http.code, 0, {"status"})
    /\ Taken(seen, earlier, http.elapsed, NoDuration, ElapsedKeys)
    /\ Taken(seen, earlier, http.bodySize, 0, BodyKeys)
    /\ http.hasBody <=> BodyKeys \cap ParsedOf(seen) # {}
GrpcInv ==
    /\ Taken(seen, earlier, grpc.method, 0, {"rpc"})
    /\ Taken(seen, earlier, grpc.service, 0, {"service"})
    /\ Taken(seen, earlier, grpc.peer, 0, {"peer"})
    /\ Taken(seen, earlier, grpc.code, 0, {"grpc_status"})
    /\ Taken(seen, earlier, grpc.elapsed, NoDuration, ElapsedKeys)
    /\ Taken(seen, earlier, grpc.bytes, 0, {"compressed"})
    /\ Taken(seen, earlier, grpc.reqBytes, 0, {"request_size"})
    /\ Taken(seen, earlier, grpc.resBytes, 0, {"response_size"})
    /\ grpc.notClientStream <=> Unary
KindInv == \A b : b \in kind <=> \E k \in DOMAIN seen : b \in BitsOf(k)

GatherInv == HttpInv /\ GrpcInv /\ KindInv

(* One more attribute: a field that it is for takes its value, and any     *)
(* other field keeps the one that it has.                                  *)
LEMMA TakenStep ==
    ASSUME NEW s, NEW k, k \notin DOMAIN s, NEW v, NEW t,
           DOMAIN t = DOMAIN s \cup {k}, t[k] = v, \A j \in DOMAIN s : t[j] = s[j],
           NEW e, NEW f, e \subseteq f,
           \A j \in DOMAIN s \cap Rivals(k) : <<j, k>> \in f,
           NEW value, NEW default, NEW ks, Taken(s, e, value, default, ks), NEW new,
           k \in ks => ks \subseteq Rivals(k) \cup {k},
           new = IF k \in ks /\ (k = "content_length" => v # Unparsed)
                 THEN v ELSE value
    PROVE  Taken(t, f, new, default, ks)
<1>2. ParsedOf(t) = ParsedOf(s) \cup (IF k = "content_length" /\ v = Unparsed
                                     THEN {} ELSE {k})
  BY DEF ParsedOf
<1>3. ParsedOf(s) \subseteq DOMAIN s
  BY DEF ParsedOf
<1>4. CASE k \in ks /\ (k = "content_length" => v # Unparsed)
  <2>1. k \in ks \cap ParsedOf(t) /\ new = t[k]
    BY <1>2, <1>4
  <2>2. \A j \in (ks \cap ParsedOf(t)) \ {k} : j \in DOMAIN s \cap Rivals(k)
    BY <1>2, <1>3, <1>4
  <2>3. \A j \in (ks \cap ParsedOf(t)) \ {k} : <<j, k>> \in f
    BY <2>2
  <2>. QED  BY <2>1, <2>3 DEF Taken
<1>5. CASE ~(k \in ks /\ (k = "content_length" => v # Unparsed))
  <2>1. ks \cap ParsedOf(t) = ks \cap ParsedOf(s) /\ new = value
    BY <1>2, <1>5
  <2>. QED  BY <1>3, <2>1 DEF Taken
<1>. QED  BY <1>4, <1>5

(* The fields of attr_http that an attribute sets (pretty/log.go:79-122).  *)
LEMMA HttpFields ==
    ASSUME http \in HttpAttrs, NEW k \in Keys, NEW v, http' = WithHttp(k, v)
    PROVE  /\ http'.method = IF k = "method" THEN v ELSE http.method
           /\ http'.url = IF k \in UrlKeys THEN v ELSE http.url
           /\ http'.peer = IF k = "peer" THEN v ELSE http.peer
           /\ http'.code = IF k = "status" THEN v ELSE http.code
           /\ http'.elapsed = IF k \in ElapsedKeys THEN v ELSE http.elapsed
           /\ http'.bodySize = IF k \in BodyKeys /\ v # Unparsed THEN v ELSE http.bodySize
           /\ http'.hasBody <=> (k \in BodyKeys /\ v # Unparsed) \/ http.hasBody
<1> USE DEF HttpAttrs, WithHttp, UrlKeys, ElapsedKeys, BodyKeys
<1>1. CASE k = "peer"
  BY <1>1
<1>2. CASE k = "method"
  BY <1>2
<1>3. CASE k \in {"path", "original"}
  BY <1>3
<1>4. CASE k = "status"
  BY <1>4
<1>5. CASE k \in BodyKeys /\ v # Unparsed
  BY <1>5
<1>6. CASE k \in BodyKeys /\ v = Unparsed
  BY <1>6
<1>7. CASE k \in ElapsedKeys
  BY <1>7
<1>8. CASE k \notin {"peer", "method", "path", "original", "status"}
                  \cup BodyKeys \cup ElapsedKeys
  BY <1>8
<1>. QED  BY <1>1, <1>2, <1>3, <1>4, <1>5, <1>6, <1>7, <1>8

(* The fields of attr_grpc that an attribute sets (pretty/log.go:124-170). *)
LEMMA GrpcFields ==
    ASSUME grpc \in GrpcAttrs, NEW k \in Keys, NEW v, grpc' = WithGrpc(k, v)
    PROVE  /\ grpc'.method = IF k = "rpc" THEN v ELSE grpc.method
           /\ grpc'.service = IF k = "service" THEN v ELSE grpc.service
           /\ grpc'.peer = IF k = "peer" THEN v ELSE grpc.peer
           /\ grpc'.code = IF k = "grpc_status" THEN v ELSE grpc.code
           /\ grpc'.elapsed = IF k \in ElapsedKeys THEN v ELSE grpc.elapsed
           /\ grpc'.bytes = IF k = "compressed" THEN v ELSE grpc.bytes
           /\ grpc'.reqBytes = IF k = "request_size" THEN v ELSE grpc.reqBytes
           /\ grpc'.resBytes = IF k = "response_size" THEN v ELSE grpc.resBytes
           /\ grpc'.notClientStream = IF k \in {"compressed", "uncompressed"} THEN TRUE
                                   ELSE grpc.notClientStream
<1> USE DEF GrpcAttrs, WithGrpc, ElapsedKeys
<1>1. CASE k = "peer"
  BY <1>1
<1>2. CASE k = "service"
  BY <1>2
<1>3. CASE k = "rpc"
  BY <1>3
<1>4. CASE k = "grpc_status"
  BY <1>4
<1>5. CASE k = "compressed"
  BY <1>5
<1>6. CASE k = "uncompressed"
  BY <1>6
<1>7. CASE k = "request_size"
  BY <1>7
<1>8. CASE k = "response_size"
  BY <1>8
<1>9. CASE k \in ElapsedKeys
  BY <1>9
<1>10. CASE k \notin {"peer", "service", "rpc", "grpc_status", "compressed",
                     "uncompressed", "request_size", "response_size"}
                   \cup ElapsedKeys
  BY <1>10
<1>. QED  BY <1>1, <1>2, <1>3, <1>4, <1>5, <1>6, <1>7, <1>8, <1>9, <1>10

LEMMA GatherStep ==
    ASSUME TypeOK, GatherInv, NEW k \in Keys, NEW v \in ValuesOf(k), WalkAttribute(k, v)
    PROVE  GatherInv'
<1>1. /\ k \notin DOMAIN seen /\ http \in HttpAttrs /\ grpc \in GrpcAttrs
      /\ seen' = [j \in DOMAIN seen \cup {k} |-> IF j = k THEN v ELSE seen[j]]
      /\ http' = WithHttp(k, v) /\ grpc' = WithGrpc(k, v)
      /\ kind' = kind \cup BitsOf(k)
  BY DEF WalkAttribute, TypeOK
<1>2. /\ DOMAIN seen' = DOMAIN seen \cup {k} /\ seen'[k] = v
      /\ \A j \in DOMAIN seen : seen'[j] = seen[j]
  BY <1>1
<1>10. /\ earlier \subseteq earlier'
       /\ \A j \in DOMAIN seen \cap Rivals(k) : <<j, k>> \in earlier'
  BY DEF WalkAttribute
<1>. DEFINE Sets(ks) == k \in ks /\ (k = "content_length" => v # Unparsed)
<1>6. ASSUME NEW value, NEW default, NEW ks, Taken(seen, earlier, value, default, ks),
             k \in ks => ks \subseteq Rivals(k) \cup {k},
             NEW new, new = IF Sets(ks) THEN v ELSE value
      PROVE  Taken(seen', earlier', new, default, ks)
  <2>1. k \notin DOMAIN seen
    BY <1>1
  <2>2. new = IF k \in ks /\ (k = "content_length" => v # Unparsed) THEN v ELSE value
    BY <1>6 DEF Sets
  <2>. HIDE DEF Sets
  <2>. QED  BY <2>1, <2>2, <1>2, <1>6, <1>10, TakenStep
<1>. HIDE DEF Sets
<1>7. /\ \A j \in Keys \ {"content_length"} : Sets({j}) <=> k = j
      /\ Sets(UrlKeys) <=> k \in UrlKeys
      /\ Sets(ElapsedKeys) <=> k \in ElapsedKeys
  BY DEF Sets, UrlKeys, ElapsedKeys
<1>9. /\ \A ks \in {UrlKeys, BodyKeys, ElapsedKeys} :
            k \in ks => ks \subseteq Rivals(k) \cup {k}
      /\ \A j : k \in {j} => {j} \subseteq Rivals(k) \cup {k}
  BY DEF Rivals
<1>8. /\ {"method", "peer", "status", "rpc", "service", "grpc_status", "compressed",
          "request_size", "response_size"} \subseteq Keys \ {"content_length"}
  BY DEF Keys, TextKeys, HttpCodeKeys, GrpcCodeKeys, SizeKeys
<1>3. HttpInv'
  <2>1. /\ http'.method = IF k = "method" THEN v ELSE http.method
        /\ http'.url = IF k \in UrlKeys THEN v ELSE http.url
        /\ http'.peer = IF k = "peer" THEN v ELSE http.peer
        /\ http'.code = IF k = "status" THEN v ELSE http.code
        /\ http'.elapsed = IF k \in ElapsedKeys THEN v ELSE http.elapsed
        /\ http'.bodySize = IF k \in BodyKeys /\ v # Unparsed THEN v ELSE http.bodySize
        /\ http'.hasBody <=> (k \in BodyKeys /\ v # Unparsed) \/ http.hasBody
    <3>1. http \in HttpAttrs /\ http' = WithHttp(k, v)
      BY <1>1
    <3>. QED  BY <3>1, HttpFields
  <2>2. k = "body_size" => v # Unparsed
    <3>1. k = "body_size" => v \in Sizes
      BY DEF ValuesOf, TextKeys, UrlKeys, HttpCodeKeys, GrpcCodeKeys, SizeKeys, ElapsedKeys
    <3>2. Sizes \subseteq Nat
      BY PrettyAssumption
    <3>. QED  BY <3>1, <3>2 DEF Unparsed
  <2>3. Taken(seen', earlier', http'.method, 0, {"method"})
    <3>1. Taken(seen, earlier, http.method, 0, {"method"})
      BY DEF GatherInv, HttpInv
    <3>2. http'.method = IF Sets({"method"}) THEN v ELSE http.method
      BY <2>1, <1>7, <1>8
    <3>. QED  BY <3>1, <3>2, <1>6, <1>9
  <2>4. Taken(seen', earlier', http'.url, NoUrl, UrlKeys)
    <3>1. Taken(seen, earlier, http.url, NoUrl, UrlKeys)
      BY DEF GatherInv, HttpInv
    <3>2. http'.url = IF Sets(UrlKeys) THEN v ELSE http.url
      BY <2>1, <1>7, <1>8
    <3>. QED  BY <3>1, <3>2, <1>6, <1>9
  <2>5. Taken(seen', earlier', http'.peer, 0, {"peer"})
    <3>1. Taken(seen, earlier, http.peer, 0, {"peer"})
      BY DEF GatherInv, HttpInv
    <3>2. http'.peer = IF Sets({"peer"}) THEN v ELSE http.peer
      BY <2>1, <1>7, <1>8
    <3>. QED  BY <3>1, <3>2, <1>6, <1>9
  <2>6. Taken(seen', earlier', http'.code, 0, {"status"})
    <3>1. Taken(seen, earlier, http.code, 0, {"status"})
      BY DEF GatherInv, HttpInv
    <3>2. http'.code = IF Sets({"status"}) THEN v ELSE http.code
      BY <2>1, <1>7, <1>8
    <3>. QED  BY <3>1, <3>2, <1>6, <1>9
  <2>7. Taken(seen', earlier', http'.elapsed, NoDuration, ElapsedKeys)
    <3>1. Taken(seen, earlier, http.elapsed, NoDuration, ElapsedKeys)
      BY DEF GatherInv, HttpInv
    <3>2. http'.elapsed = IF Sets(ElapsedKeys) THEN v ELSE http.elapsed
      BY <2>1, <1>7, <1>8
    <3>. QED  BY <3>1, <3>2, <1>6, <1>9
  <2>8. Taken(seen', earlier', http'.bodySize, 0, BodyKeys)
    <3>1. Taken(seen, earlier, http.bodySize, 0, BodyKeys)
      BY DEF GatherInv, HttpInv
    <3>2. http'.bodySize = IF Sets(BodyKeys) THEN v ELSE http.bodySize
      BY <2>1, <2>2 DEF BodyKeys, Sets
    <3>. QED  BY <3>1, <3>2, <1>6, <1>9
  <2>9. http'.hasBody <=> BodyKeys \cap ParsedOf(seen') # {}
    <3>1. ParsedOf(seen') = ParsedOf(seen) \cup (IF k = "content_length" /\ v = Unparsed
                                                THEN {} ELSE {k})
      BY <1>2 DEF ParsedOf
    <3>2. http.hasBody <=> BodyKeys \cap ParsedOf(seen) # {}
      BY DEF GatherInv, HttpInv
    <3>3. CASE k \in BodyKeys /\ v # Unparsed
      BY <2>1, <3>1, <3>3
    <3>4. CASE ~(k \in BodyKeys /\ v # Unparsed)
      <4>1. BodyKeys \cap ParsedOf(seen') = BodyKeys \cap ParsedOf(seen)
        BY <2>2, <3>1, <3>4 DEF BodyKeys
      <4>. QED  BY <2>1, <3>2, <3>4, <4>1
    <3>. QED  BY <3>3, <3>4
  <2>. QED  BY <2>3, <2>4, <2>5, <2>6, <2>7, <2>8, <2>9 DEF HttpInv
<1>4. GrpcInv'
  <2>1. /\ grpc'.method = IF k = "rpc" THEN v ELSE grpc.method
        /\ grpc'.service = IF k = "service" THEN v ELSE grpc.service
        /\ grpc'.peer = IF k = "peer" THEN v ELSE grpc.peer
        /\ grpc'.code = IF k = "grpc_status" THEN v ELSE grpc.code
        /\ grpc'.elapsed = IF k \in ElapsedKeys THEN v ELSE grpc.elapsed
        /\ grpc'.bytes = IF k = "compressed" THEN v ELSE grpc.bytes
        /\ grpc'.reqBytes = IF k = "request_size" THEN v ELSE grpc.reqBytes
        /\ grpc'.resBytes = IF k = "response_size" THEN v ELSE grpc.resBytes
        /\ grpc'.notClientStream = IF k \in {"compressed", "uncompressed"} THEN TRUE
                                   ELSE grpc.notClientStream
    BY <1>1, GrpcFields
  <2>2. Taken(seen', earlier', grpc'.method, 0, {"rpc"})
    <3>1. Taken(seen, earlier, grpc.method, 0, {"rpc"})
      BY DEF GatherInv, GrpcInv
    <3>2. grpc'.method = IF Sets({"rpc"}) THEN v ELSE grpc.method
      BY <2>1, <1>7, <1>8
    <3>. QED  BY <3>1, <3>2, <1>6, <1>9
  <2>3. Taken(seen', earlier', grpc'.service, 0, {"service"})
    <3>1. Taken(seen, earlier, grpc.service, 0, {"service"})
      BY DEF GatherInv, GrpcInv
    <3>2. grpc'.service = IF Sets({"service"}) THEN v ELSE grpc.service
      BY <2>1, <1>7, <1>8
    <3>. QED  BY <3>1, <3>2, <1>6, <1>9
  <2>4. Taken(seen', earlier', grpc'.peer, 0, {"peer"})
    <3>1. Taken(seen, earlier, grpc.peer, 0, {"peer"})
      BY DEF GatherInv, GrpcInv
    <3>2. grpc'.peer = IF Sets({"peer"}) THEN v ELSE grpc.peer
      BY <2>1, <1>7, <1>8
    <3>. QED  BY <3>1, <3>2, <1>6, <1>9
  <2>5. Taken(seen', earlier', grpc'.code, 0, {"grpc_status"})
    <3>1. Taken(seen, earlier, grpc.code, 0, {"grpc_status"})
      BY DEF GatherInv, GrpcInv
    <3>2. grpc'.code = IF Sets({"grpc_status"}) THEN v ELSE grpc.code
      BY <2>1, <1>7, <1>8
    <3>. QED  BY <3>1, <3>2, <1>6, <1>9
  <2>6. Taken(seen', earlier', grpc'.elapsed, NoDuration, ElapsedKeys)
    <3>1. Taken(seen, earlier, grpc.elapsed, NoDuration, ElapsedKeys)
      BY DEF GatherInv, GrpcInv
    <3>2. grpc'.elapsed = IF Sets(ElapsedKeys) THEN v ELSE grpc.elapsed
      BY <2>1, <1>7, <1>8
    <3>. QED  BY <3>1, <3>2, <1>6, <1>9
  <2>7. Taken(seen', earlier', grpc'.bytes, 0, {"compressed"})
    <3>1. Taken(seen, earlier, grpc.bytes, 0, {"compressed"})
      BY DEF GatherInv, GrpcInv
    <3>2. grpc'.bytes = IF Sets({"compressed"}) THEN v ELSE grpc.bytes
      BY <2>1, <1>7, <1>8
    <3>. QED  BY <3>1, <3>2, <1>6, <1>9
  <2>8. Taken(seen', earlier', grpc'.reqBytes, 0, {"request_size"})
    <3>1. Taken(seen, earlier, grpc.reqBytes, 0, {"request_size"})
      BY DEF GatherInv, GrpcInv
    <3>2. grpc'.reqBytes = IF Sets({"request_size"}) THEN v ELSE grpc.reqBytes
      BY <2>1, <1>7, <1>8
    <3>. QED  BY <3>1, <3>2, <1>6, <1>9
  <2>9. Taken(seen', earlier', grpc'.resBytes, 0, {"response_size"})
    <3>1. Taken(seen, earlier, grpc.resBytes, 0, {"response_size"})
      BY DEF GatherInv, GrpcInv
    <3>2. grpc'.resBytes = IF Sets({"response_size"}) THEN v ELSE grpc.resBytes
      BY <2>1, <1>7, <1>8
    <3>. QED  BY <3>1, <3>2, <1>6, <1>9
  <2>10. grpc'.notClientStream <=> Unary'
    BY <1>2, <2>1 DEF GatherInv, GrpcInv, Unary
  <2>. QED  BY <2>2, <2>3, <2>4, <2>5, <2>6, <2>7, <2>8, <2>9, <2>10 DEF GrpcInv
<1>5. KindInv'
  BY <1>1, <1>2 DEF GatherInv, KindInv
<1>. QED  BY <1>3, <1>4, <1>5 DEF GatherInv

LEMMA Gathers == Spec => []GatherInv
<1>1. Init => GatherInv
  <2> SUFFICES ASSUME Init PROVE GatherInv
    OBVIOUS
  <2>1. seen = <<>> /\ kind = {} /\ http = NoHttp /\ grpc = NoGrpc
    BY DEF Init
  <2>2. DOMAIN seen = {} /\ ParsedOf(seen) = {}
    BY <2>1 DEF ParsedOf
  <2>3. HttpInv
    BY <2>1, <2>2 DEF HttpInv, Taken, NoHttp
  <2>4. GrpcInv
    BY <2>1, <2>2 DEF GrpcInv, Taken, NoGrpc, Unary
  <2>. QED  BY <2>1, <2>2, <2>3, <2>4 DEF GatherInv, KindInv
<1>2. TypeOK /\ GatherInv /\ [Next]_vars => GatherInv'
  <2> SUFFICES ASSUME TypeOK, GatherInv, [Next]_vars PROVE GatherInv'
    OBVIOUS
  <2>1. ASSUME UNCHANGED <<seen, kind, http, grpc, earlier>> PROVE GatherInv'
    BY <2>1 DEF GatherInv, HttpInv, GrpcInv, KindInv, Unary
  <2>2. CASE WriteLine
    BY <2>1, <2>2 DEF WriteLine
  <2>3. CASE NextRecord
    <3>1. seen' = <<>> /\ kind' = {} /\ http' = NoHttp /\ grpc' = NoGrpc
      BY <2>3 DEF NextRecord
    <3>2. DOMAIN seen' = {} /\ ParsedOf(seen') = {}
      BY <3>1 DEF ParsedOf
    <3>3. HttpInv'
      BY <3>1, <3>2 DEF HttpInv, Taken, NoHttp
    <3>4. GrpcInv'
      BY <3>1, <3>2 DEF GrpcInv, Taken, NoGrpc, Unary
    <3>. QED  BY <3>1, <3>2, <3>3, <3>4 DEF GatherInv, KindInv
  <2>4. CASE UNCHANGED vars
    BY <2>1, <2>4 DEF vars
  <2>. QED  BY <2>2, <2>3, <2>4, GatherStep DEF Next
<1>. QED  BY <1>1, <1>2, Typing, PTL DEF Spec

(* What a cell has to show.                                                *)
Holds(c, cell) ==
    IF Writers(c) = {}
    THEN cell \in Empty(c)
    ELSE \E k \in Writers(c) : /\ cell = Shown(c, k)
                               /\ \A j \in Writers(c) \ {k} : <<j, k>> \in earlier

(* A cell shows a field that comes from the attributes of its column.      *)
LEMMA ColumnHolds ==
    ASSUME NEW c, NEW ks, Writers(c) = ks \cap ParsedOf(seen),
           NEW value, NEW default, Taken(seen, earlier, value, default, ks), NEW cell,
           \A k \in Writers(c) : value = seen[k] => cell = Shown(c, k),
           value = default => cell \in Empty(c)
    PROVE  Holds(c, cell)
BY DEF Holds, Taken

LEMMA WritersOf ==
    /\ Writers("address") = {"peer", "original"} \cap ParsedOf(seen)
    /\ Writers("method") = {"method", "rpc"} \cap ParsedOf(seen)
    /\ Writers("url") = UrlKeys \cap ParsedOf(seen)
    /\ Writers("code") = {"status", "grpc_status"} \cap ParsedOf(seen)
    /\ Writers("elapsed") = ElapsedKeys \cap ParsedOf(seen)
    /\ Writers("body") = BodyKeys \cap ParsedOf(seen)
    /\ Writers("service") = {"service"} \cap ParsedOf(seen)
    /\ Writers("bytes") = (IF Unary THEN {"compressed"} ELSE {"response_size"})
                          \cap ParsedOf(seen)
    /\ Writers("request") = (IF Unary THEN {} ELSE {"request_size"})
                            \cap ParsedOf(seen)
BY DEF Writers, ParsedOf

(* What the columns show of an attribute.                                  *)
LEMMA ShownIn ==
    /\ \A k : k # "original" => /\ Shown("address", k) = Cropped(seen[k], 18)
                                /\ Shown("url", k) = seen[k]
    /\ Shown("address", "original") = Cropped(Domain(seen["original"]), 18)
    /\ Shown("url", "original") = Local(seen["original"])
    /\ \A c \in {"method", "code", "service"} : \A k : Shown(c, k) = seen[k]
    /\ \A k : Shown("elapsed", k) = RenderDuration(seen[k])
    /\ \A c \in {"body", "bytes", "request"} : \A k : Shown(c, k) = HumanizeBytes(seen[k])
BY DEF Shown

(* An empty column shows what a field has before an attribute sets it.     *)
LEMMA EmptyOf ==
    /\ \A c \in {"address", "method", "code", "service"} : 0 \in Empty(c)
    /\ Cropped(0, 18) = 0 /\ Domain(NoUrl) = 0 /\ Local(NoUrl) = NoUrl
    /\ NoUrl \in Empty("url")
    /\ RenderDuration(NoDuration) \in Empty("elapsed")
    /\ \A c \in {"body", "bytes", "request"} :
           HumanizeBytes(0) \in Empty(c) /\ Blank \in Empty(c)
BY DEF Empty, Cropped, Domain, Local, NoUrl

(* The kind tells which attributes are not in the record.                  *)
LEMMA NotOfKind ==
    ASSUME KindInv
    PROVE  /\ "http" \notin kind =>
                  {"method", "path", "original", "status", "content_length", "body_size"}
                  \cap ParsedOf(seen) = {}
           /\ "grpc" \notin kind =>
                  {"service", "rpc", "compressed", "uncompressed", "grpc_status",
                   "request_size", "response_size"} \cap ParsedOf(seen) = {}
           /\ "server" \notin kind => {"peer", "path"} \cap ParsedOf(seen) = {}
           /\ "client" \notin kind => {"original"} \cap ParsedOf(seen) = {}
           /\ "recv" \notin kind =>
                  {"request_size", "response_size"} \cap ParsedOf(seen) = {}
<1>1. ParsedOf(seen) \subseteq DOMAIN seen
  BY DEF ParsedOf
<1>2. \A b, k : k \in ParsedOf(seen) /\ b \in BitsOf(k) => b \in kind
  BY <1>1 DEF KindInv
<1>3. /\ \A k \in {"method", "path", "original", "status", "content_length", "body_size"} :
             "http" \in BitsOf(k)
      /\ \A k \in {"service", "rpc", "compressed", "uncompressed", "grpc_status",
                   "request_size", "response_size"} : "grpc" \in BitsOf(k)
      /\ \A k \in {"peer", "path"} : "server" \in BitsOf(k)
      /\ "client" \in BitsOf("original")
      /\ \A k \in {"request_size", "response_size"} : "recv" \in BitsOf(k)
  BY DEF BitsOf
<1>. QED  BY <1>2, <1>3

(* Every cell of the line holds what it should, by its layout.             *)
LEMMA HttpTextsHold ==
    ASSUME GatherInv, "grpc" \notin kind
    PROVE  Holds("method", http.method)
<1>1. Writers("method") = {"method"} \cap ParsedOf(seen)
  BY WritersOf, NotOfKind DEF GatherInv
<1>2. Taken(seen, earlier, http.method, 0, {"method"})
  BY DEF GatherInv, HttpInv
<1>. QED  BY <1>1, <1>2, ShownIn, EmptyOf, ColumnHolds

(* A server has the peer and the whole URL.                                *)
LEMMA ServedHolds ==
    ASSUME GatherInv, "client" \notin kind
    PROVE  /\ Holds("address", Cropped(http.peer, 18))
           /\ Holds("url", http.url)
<1>1. "original" \notin ParsedOf(seen)
  BY NotOfKind DEF GatherInv
<1>2. /\ Writers("address") = {"peer"} \cap ParsedOf(seen)
      /\ Writers("url") = UrlKeys \cap ParsedOf(seen)
  BY <1>1, WritersOf
<1>3. /\ Taken(seen, earlier, http.peer, 0, {"peer"})
      /\ Taken(seen, earlier, http.url, NoUrl, UrlKeys)
  BY DEF GatherInv, HttpInv
<1>4. /\ \A k \in Writers("address") : k # "original"
      /\ \A k \in Writers("url") : k # "original"
  BY <1>1, <1>2
<1>5. Holds("address", Cropped(http.peer, 18))
  BY <1>2, <1>3, <1>4, ShownIn, EmptyOf, ColumnHolds
<1>6. Holds("url", http.url)
  BY <1>2, <1>3, <1>4, ShownIn, EmptyOf, ColumnHolds
<1>. QED  BY <1>5, <1>6

(* A client has the two parts of the URL that was requested.               *)
LEMMA RequestedHolds ==
    ASSUME GatherInv, "server" \notin kind
    PROVE  /\ Holds("address", Cropped(Domain(http.url), 18))
           /\ Holds("url", Local(http.url))
<1>1. {"peer", "path"} \cap ParsedOf(seen) = {}
  BY NotOfKind DEF GatherInv
<1>2. /\ Writers("address") = UrlKeys \cap ParsedOf(seen)
      /\ Writers("url") = UrlKeys \cap ParsedOf(seen)
  BY <1>1, WritersOf DEF UrlKeys
<1>3. Taken(seen, earlier, http.url, NoUrl, UrlKeys)
  BY DEF GatherInv, HttpInv
<1>4. \A k \in UrlKeys \cap ParsedOf(seen) : k = "original"
  BY <1>1 DEF UrlKeys
<1>5. Holds("address", Cropped(Domain(http.url), 18))
  BY <1>2, <1>3, <1>4, ShownIn, EmptyOf, ColumnHolds
<1>6. Holds("url", Local(http.url))
  BY <1>2, <1>3, <1>4, ShownIn, EmptyOf, ColumnHolds
<1>. QED  BY <1>5, <1>6

LEMMA HttpRequestHolds ==
    ASSUME GatherInv, "grpc" \notin kind, NEW address, NEW url,
           Holds("address", Cropped(address, 18)), Holds("url", url)
    PROVE  \A c \in DOMAIN HttpRequestLine(address, url).cells :
               Holds(c, HttpRequestLine(address, url).cells[c])
BY HttpTextsHold DEF HttpRequestLine

LEMMA HttpResponseHolds ==
    ASSUME GatherInv, "grpc" \notin kind, NEW url, Holds("url", url)
    PROVE  \A c \in DOMAIN HttpResponseLine(url).cells :
               Holds(c, HttpResponseLine(url).cells[c])
<1>1. Holds("code", http.code)
  <2>1. Writers("code") = {"status"} \cap ParsedOf(seen)
    BY WritersOf, NotOfKind DEF GatherInv
  <2>2. Taken(seen, earlier, http.code, 0, {"status"})
    BY DEF GatherInv, HttpInv
  <2>. QED  BY <2>1, <2>2, ShownIn, EmptyOf, ColumnHolds
<1>2. Holds("elapsed", RenderDuration(http.elapsed))
  <2>1. Taken(seen, earlier, http.elapsed, NoDuration, ElapsedKeys)
    BY DEF GatherInv, HttpInv
  <2>. QED  BY <2>1, WritersOf, ShownIn, EmptyOf, ColumnHolds
<1>3. Holds("body", BodyCell)
  <2>1. Writers("body") = BodyKeys \cap ParsedOf(seen)
    BY WritersOf
  <2>2. CASE http.hasBody
    <3>1. Taken(seen, earlier, http.bodySize, 0, BodyKeys)
      BY DEF GatherInv, HttpInv
    <3>2. Holds("body", HumanizeBytes(http.bodySize))
      BY <2>1, <3>1, ShownIn, EmptyOf, ColumnHolds
    <3>. QED  BY <2>2, <3>2 DEF BodyCell
  <2>3. CASE ~http.hasBody
    <3>1. Writers("body") = {}
      BY <2>1, <2>3 DEF GatherInv, HttpInv
    <3>. QED  BY <2>3, <3>1, EmptyOf DEF Holds, BodyCell
  <2>. QED  BY <2>2, <2>3
<1>. QED  BY <1>1, <1>2, <1>3, HttpTextsHold DEF HttpResponseLine

(* The texts of a gRPC line.                                               *)
LEMMA GrpcTextsHold ==
    ASSUME GatherInv, "http" \notin kind
    PROVE  /\ Holds("service", grpc.service)
           /\ Holds("method", grpc.method)
<1>1. Writers("method") = {"rpc"} \cap ParsedOf(seen)
  BY WritersOf, NotOfKind DEF GatherInv
<1>2. /\ Taken(seen, earlier, grpc.method, 0, {"rpc"})
      /\ Taken(seen, earlier, grpc.service, 0, {"service"})
  BY DEF GatherInv, GrpcInv
<1>3. Holds("method", grpc.method)
  BY <1>1, <1>2, ShownIn, EmptyOf, ColumnHolds
<1>4. Holds("service", grpc.service)
  BY <1>2, WritersOf, ShownIn, EmptyOf, ColumnHolds
<1>. QED  BY <1>3, <1>4

LEMMA GrpcRequestHolds ==
    ASSUME GatherInv, "http" \notin kind, "recv" \notin kind
    PROVE  \A c \in DOMAIN GrpcRequestLine.cells :
               Holds(c, GrpcRequestLine.cells[c])
<1>1. Holds("address", Cropped(grpc.peer, 18))
  <2>1. Writers("address") = {"peer"} \cap ParsedOf(seen)
    BY WritersOf, NotOfKind DEF GatherInv
  <2>2. Taken(seen, earlier, grpc.peer, 0, {"peer"})
    BY DEF GatherInv, GrpcInv
  <2>3. \A k \in Writers("address") : k # "original"
    BY <2>1
  <2>. QED  BY <2>1, <2>2, <2>3, ShownIn, EmptyOf, ColumnHolds
<1>2. Holds("bytes", IF grpc.notClientStream THEN HumanizeBytes(grpc.bytes) ELSE Blank)
  <2>1. CASE grpc.notClientStream
    <3>1. Writers("bytes") = {"compressed"} \cap ParsedOf(seen)
      BY <2>1, WritersOf DEF GatherInv, GrpcInv
    <3>2. Taken(seen, earlier, grpc.bytes, 0, {"compressed"})
      BY DEF GatherInv, GrpcInv
    <3>3. Holds("bytes", HumanizeBytes(grpc.bytes))
      BY <3>1, <3>2, ShownIn, EmptyOf, ColumnHolds
    <3>. QED  BY <2>1, <3>3
  <2>2. CASE ~grpc.notClientStream
    <3>1. Writers("bytes") = {}
      BY <2>2, WritersOf, NotOfKind DEF GatherInv, GrpcInv
    <3>. QED  BY <2>2, <3>1, EmptyOf DEF Holds
  <2>. QED  BY <2>1, <2>2
<1>. QED  BY <1>1, <1>2, GrpcTextsHold DEF GrpcRequestLine

LEMMA GrpcResponseHolds ==
    ASSUME GatherInv, "http" \notin kind
    PROVE  \A c \in DOMAIN GrpcResponseLine.cells :
               Holds(c, GrpcResponseLine.cells[c])
<1>1. Holds("code", grpc.code)
  <2>1. Writers("code") = {"grpc_status"} \cap ParsedOf(seen)
    BY WritersOf, NotOfKind DEF GatherInv
  <2>2. Taken(seen, earlier, grpc.code, 0, {"grpc_status"})
    BY DEF GatherInv, GrpcInv
  <2>. QED  BY <2>1, <2>2, ShownIn, EmptyOf, ColumnHolds
<1>2. Holds("elapsed", RenderDuration(grpc.elapsed))
  <2>1. Taken(seen, earlier, grpc.elapsed, NoDuration, ElapsedKeys)
    BY DEF GatherInv, GrpcInv
  <2>. QED  BY <2>1, WritersOf, ShownIn, EmptyOf, ColumnHolds
<1>3. CASE grpc.notClientStream
  <2>1. /\ Writers("bytes") = {"compressed"} \cap ParsedOf(seen)
        /\ Writers("request") = {}
    BY <1>3, WritersOf DEF GatherInv, GrpcInv
  <2>2. Taken(seen, earlier, grpc.bytes, 0, {"compressed"})
    BY DEF GatherInv, GrpcInv
  <2>3. Holds("bytes", HumanizeBytes(grpc.bytes))
    BY <2>1, <2>2, ShownIn, EmptyOf, ColumnHolds
  <2>4. Holds("request", Blank)
    BY <2>1, EmptyOf DEF Holds
  <2>. QED  BY <1>1, <1>2, <1>3, <2>3, <2>4, GrpcTextsHold DEF GrpcResponseLine
<1>4. CASE ~grpc.notClientStream
  <2>1. /\ Writers("bytes") = {"response_size"} \cap ParsedOf(seen)
        /\ Writers("request") = {"request_size"} \cap ParsedOf(seen)
    BY <1>4, WritersOf DEF GatherInv, GrpcInv
  <2>2. /\ Taken(seen, earlier, grpc.resBytes, 0, {"response_size"})
        /\ Taken(seen, earlier, grpc.reqBytes, 0, {"request_size"})
    BY DEF GatherInv, GrpcInv
  <2>3. Holds("bytes", HumanizeBytes(grpc.resBytes))
    BY <2>1, <2>2, ShownIn, EmptyOf, ColumnHolds
  <2>4. Holds("request", HumanizeBytes(grpc.reqBytes))
    BY <2>1, <2>2, ShownIn, EmptyOf, ColumnHolds
  <2>. QED  BY <1>1, <1>2, <1>4, <2>3, <2>4, GrpcTextsHold DEF GrpcResponseLine
<1>. QED  BY <1>3, <1>4

(* Which line a kind gets.                                                 *)
LEMMA LineOfKind ==
    /\ kind = {"http", "server"} => LineOf = HttpRequestLine(http.peer, http.url)
    /\ kind = {"http", "client"} =>
           LineOf = HttpRequestLine(Domain(http.url), Local(http.url))
    /\ kind = {"http", "server", "recv", "end"} => LineOf = HttpResponseLine(http.url)
    /\ kind \in {{"http", "client", "recv"}, {"http", "client", "recv", "end"}} =>
           LineOf = HttpResponseLine(Local(http.url))
    /\ kind = {"grpc", "server"} => LineOf = GrpcRequestLine
    /\ kind = {"grpc", "server", "recv", "end"} => LineOf = GrpcResponseLine
    /\ \/ kind \in {{"http", "server"}, {"http", "client"},
                    {"http", "server", "recv", "end"}, {"http", "client", "recv"},
                    {"http", "client", "recv", "end"}, {"grpc", "server"},
                    {"grpc", "server", "recv", "end"}}
       \/ LineOf = LogLine
<1>1. /\ "server" \notin {"http", "client"} /\ "http" \notin {"grpc", "server"}
      /\ "recv" \notin {"http", "server"} /\ "recv" \notin {"http", "client"}
      /\ "recv" \notin {"grpc", "server"}
      /\ "end" \notin {"http", "client", "recv"}
      /\ "server" \notin {"http", "client", "recv"}
      /\ "server" \notin {"http", "client", "recv", "end"}
      /\ "http" \notin {"grpc", "server", "recv", "end"}
  OBVIOUS
<1>. QED  BY <1>1 DEF LineOf

LEMMA CellsHold ==
    ASSUME TypeOK, GatherInv, LineOf.layout \in {"http", "grpc"}
    PROVE  \A c \in DOMAIN LineOf.cells : Holds(c, LineOf.cells[c])
<1>2. CASE kind = {"http", "server"}
  <2>1. "grpc" \notin kind /\ "client" \notin kind
    BY <1>2
  <2>2. Holds("address", Cropped(http.peer, 18)) /\ Holds("url", http.url)
    BY <2>1, ServedHolds
  <2>. QED  BY <1>2, <2>1, <2>2, LineOfKind, HttpRequestHolds
<1>3. CASE kind = {"http", "client"}
  <2>1. "grpc" \notin kind /\ "server" \notin kind
    BY <1>3
  <2>2. /\ Holds("address", Cropped(Domain(http.url), 18))
        /\ Holds("url", Local(http.url))
    BY <2>1, RequestedHolds
  <2>. QED  BY <1>3, <2>1, <2>2, LineOfKind, HttpRequestHolds
<1>4. CASE kind = {"http", "server", "recv", "end"}
  <2>1. "grpc" \notin kind /\ "client" \notin kind
    BY <1>4
  <2>2. Holds("url", http.url)
    BY <2>1, ServedHolds
  <2>. QED  BY <1>4, <2>1, <2>2, LineOfKind, HttpResponseHolds
<1>8. CASE kind \in {{"http", "client", "recv"}, {"http", "client", "recv", "end"}}
  <2>1. "grpc" \notin kind /\ "server" \notin kind
    BY <1>8
  <2>2. Holds("url", Local(http.url))
    BY <2>1, RequestedHolds
  <2>. QED  BY <1>8, <2>1, <2>2, LineOfKind, HttpResponseHolds
<1>5. CASE kind = {"grpc", "server"}
  <2>1. "http" \notin kind /\ "recv" \notin kind
    BY <1>5
  <2>. QED  BY <1>5, <2>1, LineOfKind, GrpcRequestHolds
<1>6. CASE kind = {"grpc", "server", "recv", "end"}
  <2>1. "http" \notin kind
    BY <1>6
  <2>. QED  BY <1>6, <2>1, LineOfKind, GrpcResponseHolds
<1>7. LineOf # LogLine
  BY DEF LogLine
<1>. QED  BY <1>2, <1>3, <1>4, <1>5, <1>6, <1>7, <1>8, LineOfKind

(* What a column shows is what the attribute for it says that came last in *)
(* this record, and a column without one is empty, for any attributes in   *)
(* any order; of a URL that was requested and has no slash the address     *)
(* shows nothing (pretty/log.go:79-170, 325-389).                          *)
THEOREM LinesOfTheirRecords == Spec => []LineOfItsRecord
<1>1. Init => LineOfItsRecord
  BY DEF Init, LineOfItsRecord, Written, NoLine
<1>2. TypeOK /\ GatherInv /\ LineOfItsRecord /\ [Next]_vars => LineOfItsRecord'
  <2> SUFFICES ASSUME TypeOK, GatherInv, LineOfItsRecord, [Next]_vars
               PROVE  LineOfItsRecord'
    OBVIOUS
  <2>1. ASSUME NEW k \in Keys, NEW v \in ValuesOf(k), WalkAttribute(k, v)
        PROVE  LineOfItsRecord'
    BY <2>1 DEF WalkAttribute, LineOfItsRecord, Written, NoLine
  <2>2. CASE WriteLine
    <3>1. /\ line' = [LineOf EXCEPT !.message = message]
          /\ seen' = seen /\ earlier' = earlier
      BY <2>2 DEF WriteLine
    <3>2. line'.layout = LineOf.layout /\ line'.cells = LineOf.cells
      BY <3>1, LineColumns
    <3>3. LineOf.layout \in {"http", "grpc"} =>
              \A c \in DOMAIN line'.cells : Holds(c, line'.cells[c])
      BY <3>2, CellsHold
    <3>4. /\ \A c : Writers(c)' = Writers(c)
          /\ \A c, k : Shown(c, k)' = Shown(c, k)
      BY <3>1 DEF Writers, Unary, Shown
    <3>. QED  BY <3>1, <3>2, <3>3, <3>4 DEF LineOfItsRecord, Written, Holds
  <2>3. CASE NextRecord
    BY <2>3 DEF NextRecord, LineOfItsRecord, Written, NoLine
  <2>4. CASE UNCHANGED vars
    <3>1. seen' = seen /\ line' = line /\ earlier' = earlier
      BY <2>4 DEF vars
    <3>2. /\ \A c : Writers(c)' = Writers(c)
          /\ \A c, k : Shown(c, k)' = Shown(c, k)
      BY <3>1 DEF Writers, Unary, Shown
    <3>. QED  BY <3>1, <3>2 DEF LineOfItsRecord, Written
  <2>. QED  BY <2>1, <2>2, <2>3, <2>4 DEF Next
<1>. QED  BY <1>1, <1>2, Typing, Gathers, PTL DEF Spec

----------------------------------------------------------------------------
(* The attributes that set a bit.                                          *)
LEMMA KeysOfBits ==
    ASSUME NEW k \in Keys
    PROVE  /\ "http" \in BitsOf(k) <=> k \in {"method", "path", "original", "status",
                                              "content_length", "body_size"}
           /\ "grpc" \in BitsOf(k) <=> k \in {"service", "rpc", "compressed",
                                              "uncompressed", "grpc_status",
                                              "request_size", "response_size"}
           /\ "server" \in BitsOf(k) <=> k \in {"peer", "path", "message",
                                                "server_elapsed"}
           /\ "client" \in BitsOf(k) <=> k \in {"original", "content_length",
                                                "client_elapsed"}
           /\ "recv" \in BitsOf(k) <=> k \in {"status", "content_length", "body_size",
                                              "grpc_status", "request_size",
                                              "response_size", "message",
                                              "server_elapsed", "client_elapsed"}
           /\ "end" \in BitsOf(k) <=> k \in {"body_size", "grpc_status", "request_size",
                                             "response_size", "message",
                                             "server_elapsed"}
BY DEF BitsOf

(* The kinds that a record of an exchange may have.                        *)
HttpClientKinds == {{"http", "client"}, {"http", "client", "recv"},
                    {"http", "client", "recv", "end"}}
HttpServerKinds == {{"http", "server"}, {"http", "server", "recv", "end"}}
GrpcServerKinds == {{"grpc", "server"}, {"grpc", "server", "recv", "end"}}

LEMMA KindOfRecord ==
    ASSUME TypeOK, KindInv
    PROVE  /\ OfHttpClient => kind \in HttpClientKinds
           /\ OfHttpServer => kind \in HttpServerKinds
           /\ OfGrpcServer => kind \in GrpcServerKinds
           /\ StatusAlone => kind = {"http", "server", "recv"}
<1>1. kind \subseteq Bits /\ DOMAIN seen \subseteq Keys
  BY DEF TypeOK
<1>2. \A b \in Bits : b \in kind <=> \E k \in Known : b \in BitsOf(k)
  <2>1. \A k \in {"title"} \cup OtherKeys : BitsOf(k) = {}
    BY DEF BitsOf, OtherKeys
  <2>. QED  BY <2>1 DEF KindInv, Known
<1>3. Known \subseteq Keys
  BY <1>1 DEF Known
<1>4. \A b \in {"http", "grpc", "server", "client", "recv", "end"} :
         b \in kind <=> \E k \in Known : b \in BitsOf(k)
  BY <1>2 DEF Bits
<1>5. ASSUME OfHttpClient PROVE kind \in HttpClientKinds
  <2>1. "original" \in Known /\ Known \subseteq HttpClientKeys
    BY <1>5 DEF OfHttpClient
  <2>2. "http" \in kind /\ "client" \in kind
    BY <2>1, <1>3, <1>4, KeysOfBits
  <2>3. "grpc" \notin kind /\ "server" \notin kind
    BY <2>1, <1>3, <1>4, KeysOfBits DEF HttpClientKeys
  <2>4. "end" \in kind => "recv" \in kind
    BY <1>3, <1>4, KeysOfBits
  <2>5. kind = {"http", "client"}
            \cup (IF "recv" \in kind THEN {"recv"} ELSE {})
            \cup (IF "end" \in kind THEN {"end"} ELSE {})
    BY <1>1, <2>2, <2>3 DEF Bits
  <2>. QED  BY <2>4, <2>5 DEF HttpClientKinds
<1>6. ASSUME OfHttpServer PROVE kind \in HttpServerKinds
  <2>1. /\ "path" \in Known /\ Known \subseteq HttpServerKeys
        /\ "status" \in Known =>
               Known \cap {"body_size", "message", "server_elapsed"} # {}
    BY <1>6 DEF OfHttpServer
  <2>2. "http" \in kind /\ "server" \in kind
    BY <2>1, <1>3, <1>4, KeysOfBits
  <2>3. "grpc" \notin kind /\ "client" \notin kind
    BY <2>1, <1>3, <1>4, KeysOfBits DEF HttpServerKeys
  <2>4. "end" \in kind <=> "recv" \in kind
    <3>1. "end" \in kind => "recv" \in kind
      BY <1>3, <1>4, KeysOfBits
    <3>2. ASSUME "recv" \in kind PROVE "end" \in kind
      <4>1. PICK k \in Known : "recv" \in BitsOf(k)
        BY <1>4, <3>2
      <4>2. k \in {"status", "body_size", "message", "server_elapsed"}
        BY <2>1, <1>3, <4>1, KeysOfBits DEF HttpServerKeys
      <4>3. PICK j \in Known : j \in {"body_size", "message", "server_elapsed"}
        BY <2>1, <4>1, <4>2
      <4>. QED  BY <1>3, <1>4, <4>3, KeysOfBits
    <3>. QED  BY <3>1, <3>2
  <2>5. kind = {"http", "server"}
            \cup (IF "recv" \in kind THEN {"recv", "end"} ELSE {})
    BY <1>1, <2>2, <2>3, <2>4 DEF Bits
  <2>. QED  BY <2>5 DEF HttpServerKinds
<1>7. ASSUME OfGrpcServer PROVE kind \in GrpcServerKinds
  <2>1. /\ Known \subseteq GrpcServerKeys
        /\ Known \cap {"peer", "message", "server_elapsed"} # {}
        /\ Known \cap (GrpcServerKeys \ HttpServerKeys) # {}
    BY <1>7 DEF OfGrpcServer
  <2>2. "server" \in kind
    BY <2>1, <1>3, <1>4, KeysOfBits
  <2>3. "grpc" \in kind
    BY <2>1, <1>3, <1>4, KeysOfBits DEF GrpcServerKeys, HttpServerKeys
  <2>4. "http" \notin kind /\ "client" \notin kind
    BY <2>1, <1>3, <1>4, KeysOfBits DEF GrpcServerKeys
  <2>5. "end" \in kind <=> "recv" \in kind
    BY <2>1, <1>3, <1>4, KeysOfBits DEF GrpcServerKeys
  <2>6. kind = {"grpc", "server"}
            \cup (IF "recv" \in kind THEN {"recv", "end"} ELSE {})
    BY <1>1, <2>2, <2>3, <2>4, <2>5 DEF Bits
  <2>. QED  BY <2>6 DEF GrpcServerKinds
<1>8. ASSUME StatusAlone PROVE kind = {"http", "server", "recv"}
  <2>1. /\ {"path", "status"} \subseteq Known
        /\ Known \subseteq {"peer", "method", "path", "status"}
    BY <1>8 DEF StatusAlone
  <2>2. "http" \in kind /\ "server" \in kind /\ "recv" \in kind
    BY <2>1, <1>3, <1>4, KeysOfBits
  <2>3. "grpc" \notin kind /\ "client" \notin kind /\ "end" \notin kind
    BY <2>1, <1>3, <1>4, KeysOfBits
  <2>. QED  BY <1>1, <2>2, <2>3 DEF Bits
<1>. QED  BY <1>5, <1>6, <1>7, <1>8

(* Every attribute that a column is for has one in the line of its record. *)
LEMMA HttpColumns ==
    ASSUME TypeOK, GatherInv, OfHttpClient \/ OfHttpServer
    PROVE  /\ LineOf.layout = "http"
           /\ \A k \in (Known \ NoColumn) \cap ParsedOf(seen) :
                  \E c \in DOMAIN LineOf.cells : k \in Writers(c)
<1>1. kind \in HttpClientKinds \cup HttpServerKinds
  BY KindOfRecord DEF GatherInv
<1>2. Known \ NoColumn \subseteq {"method", "path", "original", "status",
                                  "content_length", "body_size"} \cup ElapsedKeys
  BY DEF OfHttpClient, OfHttpServer, HttpClientKeys, HttpServerKeys, NoColumn,
         ElapsedKeys
<1>3. CASE kind \in {{"http", "client"}, {"http", "server"}}
  <2>1. PICK a, u : LineOf = HttpRequestLine(a, u)
    BY <1>3, LineOfKind
  <2>2. /\ LineOf.layout = "http"
        /\ DOMAIN LineOf.cells = {"address", "method", "url"}
    BY <2>1 DEF HttpRequestLine
  <2>3. Known \cap ({"status", "content_length", "body_size"} \cup ElapsedKeys) = {}
    <3>1. "recv" \notin kind
      BY <1>3
    <3>2. Known \subseteq Keys /\ Known \subseteq DOMAIN seen
      BY DEF TypeOK, Known
    <3>3. \A k \in Known : "recv" \notin BitsOf(k)
      BY <3>1, <3>2 DEF GatherInv, KindInv
    <3>. QED  BY <3>2, <3>3, KeysOfBits DEF ElapsedKeys
  <2>4. Known \ NoColumn \subseteq {"method", "path", "original"}
    BY <1>2, <2>3
  <2>. QED  BY <2>2, <2>4, WritersOf DEF UrlKeys
<1>4. CASE kind \in {{"http", "server", "recv", "end"}, {"http", "client", "recv"},
                     {"http", "client", "recv", "end"}}
  <2>1. PICK u : LineOf = HttpResponseLine(u)
    BY <1>4, LineOfKind
  <2>2. /\ LineOf.layout = "http"
        /\ DOMAIN LineOf.cells = {"code", "elapsed", "body", "method", "url"}
    BY <2>1 DEF HttpResponseLine
  <2>. QED  BY <1>2, <2>2, WritersOf DEF BodyKeys, UrlKeys
<1>. QED  BY <1>1, <1>3, <1>4 DEF HttpClientKinds, HttpServerKinds

LEMMA GrpcColumns ==
    ASSUME TypeOK, GatherInv, OfGrpcServer
    PROVE  /\ LineOf.layout = "grpc"
           /\ \A k \in (Known \ NoColumn) \cap ParsedOf(seen) :
                  \E c \in DOMAIN LineOf.cells : k \in Writers(c)
<1>1. kind \in GrpcServerKinds
  BY KindOfRecord DEF GatherInv
<1>2. Known \ NoColumn \subseteq {"service", "rpc", "grpc_status", "compressed",
                                  "request_size", "response_size", "server_elapsed"}
  BY DEF OfGrpcServer, GrpcServerKeys, NoColumn
<1>3. /\ "compressed" \in Known => Unary
      /\ Unary => {"request_size", "response_size"} \cap (Known \ NoColumn) = {}
  BY DEF Known, Unary, NoColumn
<1>4. CASE kind = {"grpc", "server"}
  <2>1. LineOf = GrpcRequestLine
    BY <1>4, LineOfKind
  <2>2. /\ LineOf.layout = "grpc"
        /\ DOMAIN LineOf.cells = {"address", "bytes", "service", "method"}
    BY <2>1 DEF GrpcRequestLine
  <2>3. Known \cap {"grpc_status", "request_size", "response_size",
                    "server_elapsed"} = {}
    <3>1. "recv" \notin kind
      BY <1>4
    <3>2. Known \subseteq Keys /\ Known \subseteq DOMAIN seen
      BY DEF TypeOK, Known
    <3>3. \A k \in Known : "recv" \notin BitsOf(k)
      BY <3>1, <3>2 DEF GatherInv, KindInv
    <3>. QED  BY <3>2, <3>3, KeysOfBits
  <2>4. Known \ NoColumn \subseteq {"service", "rpc", "compressed"}
    BY <1>2, <2>3
  <2>. QED  BY <1>3, <2>2, <2>4, WritersOf
<1>5. CASE kind = {"grpc", "server", "recv", "end"}
  <2>1. LineOf = GrpcResponseLine
    BY <1>5, LineOfKind
  <2>2. /\ LineOf.layout = "grpc"
        /\ DOMAIN LineOf.cells
               = {"code", "elapsed", "request", "bytes", "service", "method"}
    BY <2>1 DEF GrpcResponseLine
  <2>. QED  BY <1>2, <1>3, <2>2, WritersOf DEF ElapsedKeys
<1>. QED  BY <1>1, <1>4, <1>5 DEF GrpcServerKinds

(* The message and the attributes that the exporter does not know.         *)
RestInv ==
    /\ message = IF "message" \in DOMAIN seen THEN seen["message"] ELSE 0
    /\ rest \in Seq([kind : Kinds, length : Lengths])
    /\ IsFiniteSet(DOMAIN seen)
    /\ Len(rest) = Cardinality(DOMAIN seen \cap OtherKeys)
    /\ \A k \in DOMAIN seen \cap OtherKeys : \E i \in DOMAIN rest : rest[i] = seen[k]

LEMMA AppendKeeps ==
    ASSUME NEW S, NEW s \in Seq(S), NEW e \in S
    PROVE  /\ Append(s, e) \in Seq(S)
           /\ Len(Append(s, e)) = Len(s) + 1
           /\ Append(s, e)[Len(s) + 1] = e
           /\ \A i \in DOMAIN s : i \in DOMAIN Append(s, e) /\ Append(s, e)[i] = s[i]
           /\ Len(s) + 1 \in DOMAIN Append(s, e)
OBVIOUS

LEMMA RestKept == Spec => []RestInv
<1>1. Init => RestInv
  <2> SUFFICES ASSUME Init PROVE RestInv
    OBVIOUS
  <2>1. seen = <<>> /\ message = 0 /\ rest = <<>>
    BY DEF Init
  <2>2. DOMAIN seen = {} /\ DOMAIN seen \cap OtherKeys = {}
    BY <2>1
  <2>. QED  BY <2>1, <2>2, FS_EmptySet DEF RestInv
<1>2. RestInv /\ [Next]_vars => RestInv'
  <2> SUFFICES ASSUME RestInv, [Next]_vars PROVE RestInv'
    OBVIOUS
  <2>1. ASSUME NEW k \in Keys, NEW v \in ValuesOf(k), WalkAttribute(k, v)
        PROVE  RestInv'
    <3>1. /\ k \notin DOMAIN seen
          /\ seen' = [j \in DOMAIN seen \cup {k} |-> IF j = k THEN v ELSE seen[j]]
          /\ message' = IF k = "message" THEN v ELSE message
          /\ rest' = IF k \in OtherKeys THEN Append(rest, v) ELSE rest
      BY <2>1 DEF WalkAttribute
    <3>2. /\ DOMAIN seen' = DOMAIN seen \cup {k} /\ seen'[k] = v
          /\ \A j \in DOMAIN seen : seen'[j] = seen[j]
      BY <3>1
    <3>3. message' = IF "message" \in DOMAIN seen' THEN seen'["message"] ELSE 0
      BY <3>1, <3>2 DEF RestInv
    <3>4. IsFiniteSet(DOMAIN seen')
      BY <3>2, FS_AddElement DEF RestInv
    <3>5. CASE k \in OtherKeys
      <4>1. v \in [kind : Kinds, length : Lengths]
        BY <3>5 DEF ValuesOf, OtherKeys, TextKeys, UrlKeys, HttpCodeKeys, GrpcCodeKeys,
                    SizeKeys, ElapsedKeys
      <4>2. /\ rest' \in Seq([kind : Kinds, length : Lengths])
            /\ Len(rest') = Len(rest) + 1 /\ rest'[Len(rest) + 1] = v
            /\ \A i \in DOMAIN rest : i \in DOMAIN rest' /\ rest'[i] = rest[i]
            /\ Len(rest) + 1 \in DOMAIN rest'
        <5>1. rest' = Append(rest, v) /\ rest \in Seq([kind : Kinds, length : Lengths])
          BY <3>1, <3>5 DEF RestInv
        <5>. QED  BY <4>1, <5>1, AppendKeeps
      <4>3. DOMAIN seen' \cap OtherKeys = (DOMAIN seen \cap OtherKeys) \cup {k}
        BY <3>2, <3>5
      <4>4. IsFiniteSet(DOMAIN seen \cap OtherKeys)
        BY FS_Subset DEF RestInv
      <4>5. Cardinality(DOMAIN seen' \cap OtherKeys)
                = Cardinality(DOMAIN seen \cap OtherKeys) + 1
        BY <3>1, <4>3, <4>4, FS_AddElement
      <4>6. Len(rest') = Cardinality(DOMAIN seen' \cap OtherKeys)
        BY <4>2, <4>5 DEF RestInv
      <4>7. \A j \in DOMAIN seen' \cap OtherKeys :
               \E i \in DOMAIN rest' : rest'[i] = seen'[j]
        BY <3>2, <4>2, <4>3 DEF RestInv
      <4>. QED  BY <3>3, <3>4, <4>2, <4>6, <4>7 DEF RestInv
    <3>6. CASE k \notin OtherKeys
      <4>1. DOMAIN seen' \cap OtherKeys = DOMAIN seen \cap OtherKeys /\ rest' = rest
        BY <3>1, <3>2, <3>6
      <4>. QED  BY <3>2, <3>3, <3>4, <4>1 DEF RestInv
    <3>. QED  BY <3>5, <3>6
  <2>2. CASE WriteLine
    BY <2>2 DEF WriteLine, RestInv
  <2>3. CASE NextRecord
    <3>1. seen' = <<>> /\ message' = 0 /\ rest' = <<>>
      BY <2>3 DEF NextRecord
    <3>2. DOMAIN seen' = {} /\ DOMAIN seen' \cap OtherKeys = {}
      BY <3>1
    <3>. QED  BY <3>1, <3>2, FS_EmptySet DEF RestInv
  <2>4. CASE UNCHANGED vars
    BY <2>4 DEF vars, RestInv
  <2>. QED  BY <2>1, <2>2, <2>3, <2>4 DEF Next
<1>. QED  BY <1>1, <1>2, PTL DEF Spec

LEMMA ElementIn ==
    ASSUME NEW S, NEW s \in Seq(S), NEW i \in DOMAIN s
    PROVE  s[i] \in S
OBVIOUS

LEMMA LenOfFunction ==
    ASSUME NEW n \in Nat, NEW S, NEW f \in [1..n -> S]
    PROVE  Len(f) = n
<1>1. f \in Seq(S)
  OBVIOUS
<1>. QED  BY <1>1

(* The elements of a value that are shown and those that are only counted. *)
LEMMA RenderedCount ==
    ASSUME NEW v \in [kind : Kinds, length : Lengths], v.kind # "scalar"
    PROVE  RenderAttrValue(v).shown + RenderAttrValue(v).more = v.length
<1>1. v.length \in Nat
  <2>1. \A n \in Lengths : n \in Nat
    BY PrettyAssumption
  <2>. QED  BY <2>1
<1>2. v.kind \in {"bytes", "slice", "map"}
  BY DEF Kinds
<1>3. Cap(v.kind) \in {5, 8}
  BY <1>2 DEF Cap
<1>. QED  BY <1>1, <1>3 DEF RenderAttrValue, Cropped

(* A record of an exchange gets the line that is meant for it, with a      *)
(* column for each attribute that has one, unless it is a server's answer  *)
(* with its status alone, which gets a log line without any of them; a log *)
(* line has all the attributes that the exporter does not know             *)
(* (pretty/log.go:212-258, pretty/value.go:30-74).                         *)
THEOREM LinesAreComplete == Spec => []LineIsComplete
<1>1. Init => LineIsComplete
  BY DEF Init, LineIsComplete
<1>2. TypeOK /\ GatherInv /\ RestInv /\ LineIsComplete /\ [Next]_vars => LineIsComplete'
  <2> SUFFICES ASSUME TypeOK, GatherInv, RestInv, LineIsComplete, [Next]_vars
               PROVE  LineIsComplete'
    OBVIOUS
  <2>1. ASSUME NEW k \in Keys, NEW v \in ValuesOf(k), WalkAttribute(k, v)
        PROVE  LineIsComplete'
    BY <2>1 DEF WalkAttribute, LineIsComplete
  <2>2. CASE WriteLine
    <3>1. /\ line' = [LineOf EXCEPT !.message = message]
          /\ seen' = seen
      BY <2>2 DEF WriteLine
    <3>2. line'.layout = LineOf.layout /\ line'.cells = LineOf.cells
      BY <3>1, LineColumns
    <3>3. line'.message = message
      BY <3>1, LineColumns
    <3>4. /\ OfHttpClient' = OfHttpClient /\ OfHttpServer' = OfHttpServer
          /\ OfGrpcServer' = OfGrpcServer /\ StatusAlone' = StatusAlone
          /\ (Known \ NoColumn)' = Known \ NoColumn
          /\ \A c : Writers(c)' = Writers(c)
      BY <3>1 DEF OfHttpClient, OfHttpServer, OfGrpcServer, StatusAlone, Known,
                  NoColumn, Unary, Writers
    <3>5. /\ OfHttpClient \/ OfHttpServer => LineOf.layout = "http"
          /\ OfGrpcServer => LineOf.layout = "grpc"
          /\ StatusAlone => LineOf.layout = "log"
      <4>1. ASSUME StatusAlone PROVE LineOf.layout = "log"
        <5>1. kind = {"http", "server", "recv"}
          BY <4>1, KindOfRecord DEF GatherInv
        <5>2. LineOf = LogLine
          BY <5>1, LineOfKind
        <5>. QED  BY <5>2 DEF LogLine
      <4>. QED  BY <4>1, HttpColumns, GrpcColumns
    <3>6. ASSUME OfHttpClient \/ OfHttpServer \/ OfGrpcServer,
                 NEW k \in Known \ NoColumn
          PROVE  \/ k = "content_length" /\ seen[k] = Unparsed
                 \/ \E c \in DOMAIN LineOf.cells : k \in Writers(c)
      <4>1. k \in ParsedOf(seen) \/ (k = "content_length" /\ seen[k] = Unparsed)
        BY <3>6 DEF ParsedOf, Known
      <4>. QED  BY <3>6, <4>1, HttpColumns, GrpcColumns
    <3>7. ASSUME LineOf.layout = "log"
          PROVE  /\ Len(LineOf.cells.rest) = Cardinality(DOMAIN seen \cap OtherKeys)
                 /\ \A k \in DOMAIN seen \cap OtherKeys : seen[k].kind # "scalar" =>
                       \E i \in DOMAIN LineOf.cells.rest :
                           LineOf.cells.rest[i].shown + LineOf.cells.rest[i].more
                               = seen[k].length
      <4>1. LineOf = LogLine
        BY <3>7, LineOfKind DEF HttpRequestLine, HttpResponseLine, GrpcRequestLine,
                                GrpcResponseLine
      <4>2. LineOf.cells.rest = [i \in DOMAIN rest |-> RenderAttrValue(rest[i])]
        BY <4>1 DEF LogLine
      <4>3. Len(LineOf.cells.rest) = Len(rest)
        <5>1. DOMAIN rest = 1..Len(rest) /\ Len(rest) \in Nat
          BY DEF RestInv
        <5>. DEFINE values == {RenderAttrValue(rest[i]) : i \in 1..Len(rest)}
        <5>2. LineOf.cells.rest \in [1..Len(rest) -> values]
          BY <4>2, <5>1
        <5>. HIDE DEF values
        <5>. QED  BY <5>1, <5>2, LenOfFunction
      <4>4. ASSUME NEW k \in DOMAIN seen \cap OtherKeys, seen[k].kind # "scalar"
            PROVE  \E i \in DOMAIN LineOf.cells.rest :
                       LineOf.cells.rest[i].shown + LineOf.cells.rest[i].more
                           = seen[k].length
        <5>1. PICK i \in DOMAIN rest : rest[i] = seen[k]
          BY DEF RestInv
        <5>2. rest[i] \in [kind : Kinds, length : Lengths]
          BY <5>1, ElementIn DEF RestInv
        <5>3. RenderAttrValue(rest[i]).shown + RenderAttrValue(rest[i]).more
                  = seen[k].length
          BY <4>4, <5>1, <5>2, RenderedCount
        <5>4. i \in DOMAIN LineOf.cells.rest
              /\ LineOf.cells.rest[i] = RenderAttrValue(rest[i])
          BY <4>2, <5>1
        <5>. QED  BY <5>3, <5>4
      <4>. QED  BY <4>3, <4>4 DEF RestInv
    <3>8. message = IF "message" \in DOMAIN seen THEN seen["message"] ELSE 0
      BY DEF RestInv
    <3>9. OfHttpClient' \/ OfHttpServer' => Written("http")'
      BY <3>2, <3>4, <3>5 DEF Written
    <3>14. StatusAlone' => Written("log")'
      BY <3>2, <3>4, <3>5 DEF Written
    <3>10. OfGrpcServer' => Written("grpc")'
      BY <3>2, <3>4, <3>5 DEF Written
    <3>11. line'.message = IF "message" \in DOMAIN seen' THEN seen'["message"] ELSE 0
      BY <3>1, <3>3, <3>8
    <3>12. OfHttpClient' \/ OfHttpServer' \/ OfGrpcServer' =>
               \A k \in (Known \ NoColumn)' :
                   \/ k = "content_length" /\ seen'[k] = Unparsed
                   \/ \E c \in DOMAIN line'.cells : k \in Writers(c)'
      BY <3>1, <3>2, <3>4, <3>6
    <3>13. Written("log")' =>
               /\ Len(line'.cells.rest) = Cardinality(DOMAIN seen' \cap OtherKeys)
               /\ \A k \in DOMAIN seen' \cap OtherKeys : seen'[k].kind # "scalar" =>
                     \E i \in DOMAIN line'.cells.rest :
                         line'.cells.rest[i].shown + line'.cells.rest[i].more
                             = seen'[k].length
      BY <3>1, <3>2, <3>7 DEF Written
    <3>. QED  BY <3>9, <3>10, <3>11, <3>12, <3>13, <3>14 DEF LineIsComplete
  <2>3. CASE NextRecord
    BY <2>3 DEF NextRecord, LineIsComplete
  <2>4. CASE UNCHANGED vars
    <3>1. seen' = seen /\ line' = line
      BY <2>4 DEF vars
    <3>2. /\ OfHttpClient' = OfHttpClient /\ OfHttpServer' = OfHttpServer
          /\ OfGrpcServer' = OfGrpcServer /\ StatusAlone' = StatusAlone
          /\ (Known \ NoColumn)' = Known \ NoColumn
          /\ \A c : Writers(c)' = Writers(c)
      BY <3>1 DEF OfHttpClient, OfHttpServer, OfGrpcServer, StatusAlone, Known,
                  NoColumn, Unary, Writers
    <3>. QED  BY <3>1, <3>2 DEF LineIsComplete, Written
  <2>. QED  BY <2>1, <2>2, <2>3, <2>4 DEF Next
<1>. QED  BY <1>1, <1>2, Typing, Gathers, RestKept, PTL DEF Spec

----------------------------------------------------------------------------
(* The units from the smallest to the largest.                             *)
LEMMA Ranks ==
    /\ Rank("us") = 1 /\ Rank("ms") = 2 /\ Rank("s") = 3
    /\ Rank("d") = 4 /\ Rank("h") = 5 /\ Rank("TOO_LONG") = 6
    /\ \A i \in 1..7 : Rank(Letters[i]) = 6 + i
<1>1. Units = <<"us", "ms", "s", "d", "h", "TOO_LONG",
                "B", "K", "M", "G", "T", "P", "E">>
  BY DEF Units, Letters
<1>2. DOMAIN Units = 1..13
  BY <1>1
<1>3. \A i, j \in 1..13 : Units[i] = Units[j] => i = j
  BY <1>1
<1>4. \A i \in 1..13 : Rank(Units[i]) = i
  BY <1>2, <1>3 DEF Rank
<1>5. \A i \in 1..7 : Letters[i] = Units[6 + i]
  BY <1>1 DEF Letters
<1>6. \A i \in 1..7 : 6 + i \in 1..13
  OBVIOUS
<1>7. /\ Units[1] = "us" /\ Units[2] = "ms" /\ Units[3] = "s"
      /\ Units[4] = "d" /\ Units[5] = "h" /\ Units[6] = "TOO_LONG"
  BY <1>1
<1>. QED  BY <1>4, <1>5, <1>6, <1>7

(* Texts of one unit, with two or three numbers.                           *)
LEMMA TwoRead ==
    ASSUME NEW u, NEW f, NEW g, NEW x, NEW y, f.n \in Nat, g.n \in Nat,
           x.n \in Nat, y.n \in Nat,
           f.n > x.n \/ (f.n = x.n /\ g.n >= y.n)
    PROVE  ReadsNoLess([unit |-> u, fields |-> <<f, g>>], [unit |-> u, fields |-> <<x, y>>])
<1> DEFINE r == <<f, g>>
           s == <<x, y>>
<1>1. DOMAIN r = {1, 2} /\ r[1] = f /\ r[2] = g /\ s[1] = x /\ s[2] = y
  OBVIOUS
<1> HIDE DEF r, s
<1>2. \/ \A i \in DOMAIN r : r[i].n = s[i].n
      \/ \E i \in DOMAIN r : /\ r[i].n > s[i].n
                             /\ \A j \in 1..(i - 1) : r[j].n = s[j].n
  <2>1. CASE f.n > x.n
    BY <1>1, <2>1
  <2>2. CASE f.n = x.n /\ g.n > y.n
    <3>1. \A j \in 1..(2 - 1) : r[j].n = s[j].n
      BY <1>1, <2>2
    <3>. QED  BY <1>1, <2>2, <3>1
  <2>3. CASE f.n = x.n /\ g.n = y.n
    BY <1>1, <2>3
  <2>. QED  BY <2>1, <2>2, <2>3
<1>. QED  BY <1>2 DEF ReadsNoLess, r, s

LEMMA ThreeRead ==
    ASSUME NEW u, NEW f, NEW g, NEW h, NEW x, NEW y, NEW z,
           f.n \in Nat, g.n \in Nat, h.n \in Nat, x.n \in Nat, y.n \in Nat, z.n \in Nat,
           \/ f.n > x.n \/ (f.n = x.n /\ g.n > y.n)
           \/ f.n = x.n /\ g.n = y.n /\ h.n >= z.n
    PROVE  ReadsNoLess([unit |-> u, fields |-> <<f, g, h>>],
                       [unit |-> u, fields |-> <<x, y, z>>])
<1> DEFINE r == <<f, g, h>>
           s == <<x, y, z>>
<1>1. /\ DOMAIN r = {1, 2, 3}
      /\ r[1] = f /\ r[2] = g /\ r[3] = h /\ s[1] = x /\ s[2] = y /\ s[3] = z
  OBVIOUS
<1> HIDE DEF r, s
<1>2. \/ \A i \in DOMAIN r : r[i].n = s[i].n
      \/ \E i \in DOMAIN r : /\ r[i].n > s[i].n
                             /\ \A j \in 1..(i - 1) : r[j].n = s[j].n
  <2>1. CASE f.n > x.n
    BY <1>1, <2>1
  <2>2. CASE f.n = x.n /\ g.n > y.n
    <3>1. \A j \in 1..(2 - 1) : r[j].n = s[j].n
      BY <1>1, <2>2
    <3>. QED  BY <1>1, <2>2, <3>1
  <2>3. CASE f.n = x.n /\ g.n = y.n /\ h.n > z.n
    <3>1. \A j \in 1..(3 - 1) : r[j].n = s[j].n
      BY <1>1, <2>3
    <3>. QED  BY <1>1, <2>3, <3>1
  <2>4. CASE f.n = x.n /\ g.n = y.n /\ h.n = z.n
    BY <1>1, <2>4
  <2>. QED  BY <2>1, <2>2, <2>3, <2>4
<1>. QED  BY <1>2 DEF ReadsNoLess, r, s

(* Of two durations one is longer by the first digit that differs.         *)
LEMMA LongerDigits ==
    ASSUME NEW d, NEW e, Longer(d, e)
    PROVE  \/ d.day > e.day
           \/ /\ d.day = e.day
              /\ \/ d.hour > e.hour
                 \/ /\ d.hour = e.hour
                    /\ \/ d.min > e.min
                       \/ /\ d.min = e.min
                          /\ \/ d.sec > e.sec
                             \/ /\ d.sec = e.sec
                                /\ \/ d.ms > e.ms
                                   \/ /\ d.ms = e.ms
                                      /\ \/ d.us > e.us
                                         \/ d.us = e.us /\ d.ns > e.ns
<1> DEFINE units == <<"day", "hour", "min", "sec", "ms", "us", "ns">>
<1>1. PICK i \in 1..7 : /\ d[units[i]] > e[units[i]]
                        /\ \A j \in 1..(i - 1) : d[units[j]] = e[units[j]]
  BY DEF Longer
<1>2. /\ units[1] = "day" /\ units[2] = "hour" /\ units[3] = "min"
      /\ units[4] = "sec" /\ units[5] = "ms" /\ units[6] = "us" /\ units[7] = "ns"
  OBVIOUS
<1> HIDE DEF units
<1>3. CASE i = 1
  BY <1>1, <1>2, <1>3
<1>4. CASE i = 2
  <2>1. 1 \in 1..(i - 1)
    BY <1>4
  <2>. QED  BY <1>1, <1>2, <1>4, <2>1
<1>5. CASE i = 3
  <2>1. 1 \in 1..(i - 1) /\ 2 \in 1..(i - 1)
    BY <1>5
  <2>. QED  BY <1>1, <1>2, <1>5, <2>1
<1>6. CASE i = 4
  <2>1. 1 \in 1..(i - 1) /\ 2 \in 1..(i - 1) /\ 3 \in 1..(i - 1)
    BY <1>6
  <2>. QED  BY <1>1, <1>2, <1>6, <2>1
<1>7. CASE i = 5
  <2>1. \A j \in {1, 2, 3, 4} : j \in 1..(i - 1)
    BY <1>7
  <2>. QED  BY <1>1, <1>2, <1>7, <2>1
<1>8. CASE i = 6
  <2>1. \A j \in {1, 2, 3, 4, 5} : j \in 1..(i - 1)
    BY <1>8
  <2>. QED  BY <1>1, <1>2, <1>8, <2>1
<1>9. CASE i = 7
  <2>1. \A j \in {1, 2, 3, 4, 5, 6} : j \in 1..(i - 1)
    BY <1>9
  <2>. QED  BY <1>1, <1>2, <1>9, <2>1
<1>. QED  BY <1>1, <1>3, <1>4, <1>5, <1>6, <1>7, <1>8, <1>9

LEMMA RankOfDuration ==
    ASSUME NEW d
    PROVE  Rank(RenderDuration(d).unit) = IF UnderMillisecond(d) THEN 1
                                          ELSE IF UnderSecond(d) THEN 2
                                          ELSE IF UnderHour(d) THEN 3
                                          ELSE IF d.day < 100 THEN 4
                                          ELSE IF d.day < 10000 THEN 5 ELSE 6
BY Ranks DEF RenderDuration

LEMMA FieldNumbers ==
    /\ \A n : ThreeDigits(n).n = n /\ TwoDigits(n).n = n
    /\ \A z, n : Field(z, n).n = n
    /\ \A n \in Nat : Hundredths(n).n \in Nat
    /\ \A m, n \in Nat : m >= n => Hundredths(m).n >= Hundredths(n).n
<1>1. \A n : Hundredths(n).n = IF n < 10 THEN 0 ELSE n \div 10
  BY DEF Hundredths, Field
<1>2. \A m, n \in Nat : m >= n => m \div 10 >= n \div 10 /\ n \div 10 \in Nat
  OBVIOUS
<1>3. \A n : ThreeDigits(n).n = n /\ TwoDigits(n).n = n
  BY DEF ThreeDigits, TwoDigits, Field
<1>4. \A z, n : Field(z, n).n = n
  BY DEF Field
<1>5. ASSUME NEW m \in Nat, NEW n \in Nat, m >= n
      PROVE  Hundredths(m).n >= Hundredths(n).n /\ Hundredths(m).n \in Nat
  <2>1. m \div 10 >= n \div 10 /\ n \div 10 \in Nat /\ m \div 10 \in Nat
    BY <1>2, <1>5
  <2>. QED  BY <1>1, <1>5, <2>1
<1>. QED  BY <1>3, <1>4, <1>5

(* A longer duration never reads as a shorter one (pretty/string.go:111).  *)
LEMMA DurationOrder ==
    ASSUME NEW d \in Elapsed, NEW e \in Elapsed, Longer(d, e)
    PROVE  ReadsNoLess(RenderDuration(d), RenderDuration(e))
<1>1. \A x \in {d, e} : /\ x.day \in Nat /\ x.hour \in Nat /\ x.min \in Nat
                        /\ x.sec \in Nat /\ x.ms \in Nat /\ x.us \in Nat /\ x.ns \in Nat
  BY DEF Elapsed
<1>2. /\ UnderMillisecond(d) => UnderMillisecond(e)
      /\ UnderSecond(d) => UnderSecond(e)
      /\ UnderHour(d) => UnderHour(e)
      /\ d.day < 100 => e.day < 100
      /\ d.day < 10000 => e.day < 10000
      /\ UnderHour(d) => d.day = 0
      /\ UnderHour(e) => e.day = 0
  BY <1>1, LongerDigits DEF UnderMillisecond, UnderSecond, UnderHour
<1>3. CASE Rank(RenderDuration(d).unit) # Rank(RenderDuration(e).unit)
  <2>1. Rank(RenderDuration(d).unit) > Rank(RenderDuration(e).unit)
    BY <1>1, <1>2, <1>3, RankOfDuration DEF UnderMillisecond, UnderSecond
  <2>. QED  BY <2>1 DEF ReadsNoLess
<1>4. CASE UnderMillisecond(d)
  <2>1. \A x \in {d, e} : RenderDuration(x)
            = [unit |-> "us", fields |-> <<ThreeDigits(x.us), Hundredths(x.ns)>>]
    BY <1>2, <1>4 DEF RenderDuration
  <2>2. d.us > e.us \/ (d.us = e.us /\ d.ns >= e.ns)
    BY <1>1, <1>2, <1>4, LongerDigits DEF UnderMillisecond, UnderSecond, UnderHour
  <2>3. /\ ThreeDigits(d.us).n = d.us /\ ThreeDigits(e.us).n = e.us
        /\ Hundredths(d.ns).n \in Nat /\ Hundredths(e.ns).n \in Nat
        /\ d.ns >= e.ns => Hundredths(d.ns).n >= Hundredths(e.ns).n
    BY <1>1, FieldNumbers
  <2>. QED  BY <1>1, <2>1, <2>2, <2>3, TwoRead
<1>5. CASE ~UnderMillisecond(d) /\ ~UnderMillisecond(e) /\ UnderSecond(d)
  <2>1. \A x \in {d, e} : RenderDuration(x)
            = [unit |-> "ms", fields |-> <<ThreeDigits(x.ms), Hundredths(x.us)>>]
    BY <1>2, <1>5 DEF RenderDuration
  <2>2. d.ms > e.ms \/ (d.ms = e.ms /\ d.us >= e.us)
    BY <1>1, <1>2, <1>5, LongerDigits DEF UnderSecond, UnderHour
  <2>3. /\ ThreeDigits(d.ms).n = d.ms /\ ThreeDigits(e.ms).n = e.ms
        /\ Hundredths(d.us).n \in Nat /\ Hundredths(e.us).n \in Nat
        /\ d.us >= e.us => Hundredths(d.us).n >= Hundredths(e.us).n
    BY <1>1, FieldNumbers
  <2>. QED  BY <1>1, <2>1, <2>2, <2>3, TwoRead
<1>6. CASE ~UnderSecond(d) /\ ~UnderSecond(e) /\ UnderHour(d)
  <2>1. \A x \in {d, e} : RenderDuration(x)
            = [unit |-> "s", fields |-> <<TwoDigits(x.min), TwoDigits(x.sec),
                                          Field(0, x.ms \div 100)>>]
    BY <1>2, <1>6 DEF RenderDuration, UnderMillisecond
  <2>2. \/ d.min > e.min \/ (d.min = e.min /\ d.sec > e.sec)
        \/ d.min = e.min /\ d.sec = e.sec /\ d.ms >= e.ms
    BY <1>1, <1>2, <1>6, LongerDigits DEF UnderHour
  <2>3. /\ TwoDigits(d.min).n = d.min /\ TwoDigits(e.min).n = e.min
        /\ TwoDigits(d.sec).n = d.sec /\ TwoDigits(e.sec).n = e.sec
        /\ Field(0, d.ms \div 100).n = d.ms \div 100
        /\ Field(0, e.ms \div 100).n = e.ms \div 100
    BY FieldNumbers
  <2>4. /\ d.ms \div 100 \in Nat /\ e.ms \div 100 \in Nat
        /\ d.ms >= e.ms => d.ms \div 100 >= e.ms \div 100
    <3>1. \A m, n \in Nat : /\ m \div 100 \in Nat
                            /\ m >= n => m \div 100 >= n \div 100
      OBVIOUS
    <3>. QED  BY <1>1, <3>1
  <2>. QED  BY <1>1, <2>1, <2>2, <2>3, <2>4, ThreeRead
<1>7. CASE ~UnderHour(d) /\ ~UnderHour(e) /\ d.day < 100
  <2>1. \A x \in {d, e} : RenderDuration(x)
            = [unit |-> "d", fields |-> <<TwoDigits(x.day), TwoDigits(x.hour),
                                          TwoDigits(x.min)>>]
    BY <1>2, <1>7 DEF RenderDuration, UnderMillisecond, UnderSecond
  <2>2. \/ d.day > e.day \/ (d.day = e.day /\ d.hour > e.hour)
        \/ d.day = e.day /\ d.hour = e.hour /\ d.min >= e.min
    BY <1>1, LongerDigits
  <2>3. /\ TwoDigits(d.day).n = d.day /\ TwoDigits(e.day).n = e.day
        /\ TwoDigits(d.hour).n = d.hour /\ TwoDigits(e.hour).n = e.hour
        /\ TwoDigits(d.min).n = d.min /\ TwoDigits(e.min).n = e.min
    BY FieldNumbers
  <2>. QED  BY <1>1, <2>1, <2>2, <2>3, ThreeRead
<1>8. CASE ~UnderHour(d) /\ ~UnderHour(e) /\ ~(d.day < 100) /\ ~(e.day < 100)
           /\ d.day < 10000
  <2>1. \A x \in {d, e} : RenderDuration(x)
            = [unit |-> "h", fields |-> <<Field(One(x.day < 1000), x.day),
                                          TwoDigits(x.hour)>>]
    BY <1>2, <1>8 DEF RenderDuration, UnderMillisecond, UnderSecond
  <2>2. d.day > e.day \/ (d.day = e.day /\ d.hour >= e.hour)
    BY <1>1, LongerDigits
  <2>3. /\ \A z : Field(z, d.day).n = d.day /\ Field(z, e.day).n = e.day
        /\ TwoDigits(d.hour).n = d.hour /\ TwoDigits(e.hour).n = e.hour
    BY FieldNumbers
  <2>. QED  BY <1>1, <2>1, <2>2, <2>3, TwoRead
<1>9. CASE ~UnderHour(d) /\ ~UnderHour(e) /\ ~(d.day < 10000) /\ ~(e.day < 10000)
  <2>1. ~(d.day < 100) /\ ~(e.day < 100)
    BY <1>1, <1>9
  <2>2. \A x \in {d, e} : RenderDuration(x) = [unit |-> "TOO_LONG", fields |-> <<>>]
    BY <1>9, <2>1 DEF RenderDuration, UnderMillisecond, UnderSecond
  <2>. QED  BY <2>2 DEF ReadsNoLess
<1>10. CASE Rank(RenderDuration(d).unit) = Rank(RenderDuration(e).unit)
  <2>1. \/ UnderMillisecond(d)
        \/ ~UnderMillisecond(d) /\ ~UnderMillisecond(e) /\ UnderSecond(d)
        \/ ~UnderSecond(d) /\ ~UnderSecond(e) /\ UnderHour(d)
        \/ ~UnderHour(d) /\ ~UnderHour(e) /\ d.day < 100
        \/ ~UnderHour(d) /\ ~UnderHour(e) /\ ~(d.day < 100) /\ ~(e.day < 100)
           /\ d.day < 10000
        \/ ~UnderHour(d) /\ ~UnderHour(e) /\ ~(d.day < 10000) /\ ~(e.day < 10000)
    BY <1>1, <1>2, <1>10, RankOfDuration DEF UnderMillisecond, UnderSecond
  <2>. QED  BY <1>4, <1>5, <1>6, <1>7, <1>8, <1>9, <2>1
<1>. QED  BY <1>3, <1>10

(* Of two sizes the larger one is divided as often, or more often.         *)
LEMMA MoreDivisions ==
    ASSUME NEW m \in Nat, NEW n \in Nat, n > m
    PROVE  /\ Divisions(n) \in 0..6 /\ Divisions(m) \in 0..6
           /\ Divisions(m) <= Divisions(n)
           /\ \A i \in 0..6 : /\ m \div Power(i) \in Nat /\ n \div Power(i) \in Nat
                              /\ m \div Power(i) <= n \div Power(i)
<1>1. ASSUME NEW i \in 0..6
      PROVE  /\ m \div Power(i) \in Nat /\ n \div Power(i) \in Nat
             /\ m \div Power(i) <= n \div Power(i)
  <2>1. CASE i = 0
    BY <2>1 DEF Power, K
  <2>2. CASE i = 1
    BY <2>2 DEF Power, K
  <2>3. CASE i = 2
    BY <2>3 DEF Power, K
  <2>4. CASE i = 3
    BY <2>4 DEF Power, K
  <2>5. CASE i = 4
    BY <2>5 DEF Power, K
  <2>6. CASE i = 5
    BY <2>6 DEF Power, K
  <2>7. CASE i = 6
    BY <2>7 DEF Power, K
  <2>. QED  BY <2>1, <2>2, <2>3, <2>4, <2>5, <2>6, <2>7
<1>2. \A i \in 0..6 : Small(n, i) => Small(m, i)
  BY <1>1 DEF Small
<1>3. Divisions(n) \in 0..6 /\ Divisions(m) \in 0..6
  BY DEF Divisions
<1>4. Divisions(m) <= Divisions(n)
  BY <1>2 DEF Divisions
<1>. QED  BY <1>1, <1>3, <1>4

(* A larger size never reads as a smaller one (pretty/string.go:273-298).  *)
LEMMA SizeOrder ==
    ASSUME NEW m \in Nat, NEW n \in Nat, n > m
    PROVE  ReadsNoLess(HumanizeBytes(n), HumanizeBytes(m))
<1> DEFINE i == Divisions(n)
           j == Divisions(m)
           N == n \div Power(i)
           M == m \div Power(j)
           Zeros(k) == One(k < 1000) + One(k < 100) + One(k < 10)
<1>1. i \in 0..6 /\ j \in 0..6 /\ j <= i
  BY MoreDivisions
<1>2. /\ HumanizeBytes(n) = [unit |-> Letters[i + 1], fields |-> <<Field(Zeros(N), N)>>]
      /\ HumanizeBytes(m) = [unit |-> Letters[j + 1], fields |-> <<Field(Zeros(M), M)>>]
  BY DEF HumanizeBytes
<1>3. i = j => N >= M /\ N \in Nat /\ M \in Nat
  BY <1>1, MoreDivisions
<1> HIDE DEF i, j, N, M, Zeros
<1>4. Rank(Letters[i + 1]) = 6 + (i + 1) /\ Rank(Letters[j + 1]) = 6 + (j + 1)
  <2>1. i + 1 \in 1..7 /\ j + 1 \in 1..7
    BY <1>1
  <2>. QED  BY <2>1, Ranks
<1>5. CASE i > j
  <2>1. Rank(HumanizeBytes(n).unit) > Rank(HumanizeBytes(m).unit)
    BY <1>1, <1>2, <1>4, <1>5
  <2>. QED  BY <2>1 DEF ReadsNoLess
<1>6. CASE i = j
  <2> DEFINE r == HumanizeBytes(n)
             s == HumanizeBytes(m)
  <2>1. r.unit = s.unit
    BY <1>2, <1>6
  <2>2. DOMAIN r.fields = {1} /\ r.fields[1].n = N /\ s.fields[1].n = M
    BY <1>2 DEF Field
  <2> HIDE DEF r, s
  <2>3. CASE N = M
    <3>1. \A k \in DOMAIN r.fields : r.fields[k].n = s.fields[k].n
      BY <2>2, <2>3
    <3>. QED  BY <2>1, <3>1 DEF ReadsNoLess, r, s
  <2>4. CASE N > M
    <3>1. r.fields[1].n > s.fields[1].n /\ 1 \in DOMAIN r.fields
      BY <2>2, <2>4
    <3>2. \A k \in 1..(1 - 1) : r.fields[k].n = s.fields[k].n
      OBVIOUS
    <3>. QED  BY <2>1, <3>1, <3>2 DEF ReadsNoLess, r, s
  <2>. QED  BY <1>3, <1>6, <2>3, <2>4
<1>. QED  BY <1>1, <1>5, <1>6

(* The cells of a line of HTTP that has a duration.                        *)
TimedInv ==
    Written("http") /\ "elapsed" \in DOMAIN line.cells =>
        /\ line.cells.elapsed = RenderDuration(http.elapsed)
        /\ http.hasBody => line.cells.body = HumanizeBytes(http.bodySize)

LEMMA TimedLine ==
    ASSUME LineOf.layout = "http", "elapsed" \in DOMAIN LineOf.cells
    PROVE  /\ LineOf.cells.elapsed = RenderDuration(http.elapsed)
           /\ http.hasBody => LineOf.cells.body = HumanizeBytes(http.bodySize)
<1>1. LineOf # GrpcRequestLine /\ LineOf # GrpcResponseLine /\ LineOf # LogLine
  BY DEF GrpcRequestLine, GrpcResponseLine, LogLine
<1>2. \A a, u : LineOf # HttpRequestLine(a, u)
  <2>1. \A a, u : DOMAIN HttpRequestLine(a, u).cells = {"address", "method", "url"}
    BY DEF HttpRequestLine
  <2>. QED  BY <2>1
<1>3. PICK u : LineOf = HttpResponseLine(u)
  BY <1>1, <1>2, LineOfKind
<1>. QED  BY <1>3 DEF HttpResponseLine, BodyCell

LEMMA LinesAreTimed == Spec => []TimedInv
<1>1. Init => TimedInv
  BY DEF Init, TimedInv, Written, NoLine
<1>2. TypeOK /\ TimedInv /\ [Next]_vars => TimedInv'
  <2> SUFFICES ASSUME TypeOK, TimedInv, [Next]_vars PROVE TimedInv'
    OBVIOUS
  <2>1. ASSUME NEW k \in Keys, NEW v \in ValuesOf(k), WalkAttribute(k, v)
        PROVE  TimedInv'
    BY <2>1 DEF WalkAttribute, TimedInv, Written, NoLine
  <2>2. CASE WriteLine
    <3>1. line' = [LineOf EXCEPT !.message = message] /\ http' = http
      BY <2>2 DEF WriteLine
    <3>2. line'.layout = LineOf.layout /\ line'.cells = LineOf.cells
      BY <3>1, LineColumns
    <3>. QED  BY <3>1, <3>2, TimedLine DEF TimedInv, Written
  <2>3. CASE NextRecord
    BY <2>3 DEF NextRecord, TimedInv, Written, NoLine
  <2>4. CASE UNCHANGED vars
    BY <2>4 DEF vars, TimedInv, Written
  <2>. QED  BY <2>1, <2>2, <2>3, <2>4 DEF Next
<1>. QED  BY <1>1, <1>2, Typing, PTL DEF Spec

(* A record that took longer, or had a larger body, never reads as if it   *)
(* was less, for any two durations and sizes (pretty/string.go:111-298).   *)
THEOREM LinesReadInOrder == Spec => []ReadsInOrder
<1>1. TypeOK /\ TimedInv => ReadsInOrder
  <2> SUFFICES ASSUME TypeOK, TimedInv, Written("http"), "elapsed" \in DOMAIN line.cells
               PROVE  /\ \A d \in Durations : Longer(d, http.elapsed) =>
                             ReadsNoLess(RenderDuration(d), line.cells.elapsed)
                      /\ http.hasBody => \A n \in Sizes : n > http.bodySize =>
                             ReadsNoLess(HumanizeBytes(n), line.cells.body)
    BY DEF ReadsInOrder
  <2>1. /\ line.cells.elapsed = RenderDuration(http.elapsed)
        /\ http.hasBody => line.cells.body = HumanizeBytes(http.bodySize)
    BY DEF TimedInv
  <2>2. http.elapsed \in Durations \cup {NoDuration} /\ http.bodySize \in Sizes \cup {0}
    BY DEF TypeOK, HttpAttrs
  <2>3. NoDuration \in Elapsed
    BY DEF NoDuration, Elapsed, Radix
  <2>4. Durations \subseteq Elapsed /\ \A n \in Sizes \cup {0} : n \in Nat
    BY PrettyAssumption
  <2>5. http.elapsed \in Elapsed /\ http.bodySize \in Nat
    BY <2>2, <2>3, <2>4
  <2>6. \A d \in Durations : Longer(d, http.elapsed) =>
            ReadsNoLess(RenderDuration(d), RenderDuration(http.elapsed))
    BY <2>4, <2>5, DurationOrder
  <2>7. \A n \in Sizes : n > http.bodySize =>
            ReadsNoLess(HumanizeBytes(n), HumanizeBytes(http.bodySize))
    BY <2>4, <2>5, SizeOrder
  <2>. QED  BY <2>1, <2>6, <2>7
<1>. QED  BY <1>1, Typing, LinesAreTimed, PTL
=============================================================================
