------------------------- MODULE CertReloaderProofs -------------------------
(***************************************************************************)
(* Theorems about CertReloader, for any number of handshakes, rotations    *)
(* and any interval.                                                       *)
(***************************************************************************)
EXTENDS CertReloader, Integers, TLAPS

(* Who is between Lock and Return holds r.mu, and nobody else (tls.go:33). *)
Locked(g) == pc[g] \in {"check", "readKey", "store"}
MutexInv == \A g \in Handshakes : Locked(g) <=> mu = g

(* What lies on disk at each step of the rotation (tls_test.go:64-68).     *)
DiskInv ==
    /\ rotation = "idle" => keyFile \in Gens /\ certFile = keyFile
    /\ rotation = "cert" => keyFile \in 0..(MaxGen - 1) /\ certFile = Broken
    /\ rotation = "key" => keyFile \in 0..(MaxGen - 1) /\ certFile = keyFile + 1
    /\ rotation = "keyWrite" => keyFile = Broken /\ certFile \in Gens

(* A get that has got past a file has read it. *)
ReadInv ==
    \A g \in Handshakes :
        /\ pc[g] \in {"readKey", "store"} => certRead[g] \in Contents
        /\ pc[g] = "store" => keyRead[g] \in Contents

TypeInv == TypeOK /\ DiskInv /\ ReadInv

LEMMA GensInt ==
    /\ MaxGen \in Nat
    /\ \A i \in Gens : i \in Nat /\ i <= MaxGen
                       /\ i # Broken /\ i # Nil /\ i # Error
    /\ 0 \in Gens
    /\ \A i \in 0..(MaxGen - 1) : i \in Gens /\ i + 1 \in Gens
    /\ \A i \in Gens : i < MaxGen => i \in 0..(MaxGen - 1)
BY ReloaderAssumption DEF Gens

(* A load that succeeds yields a generation (tls.go:38).                   *)
LEMMA PairIsGen ==
    ASSUME ReadInv, NEW g \in Handshakes, pc[g] = "store",
           Pair(certRead[g], keyRead[g])
    PROVE  certRead[g] \in Gens /\ keyRead[g] = certRead[g]
BY DEF ReadInv, Pair, Contents

(* What a return leaves of the state keeps its type (tls.go:32-54).        *)
LEMMA ReturnTyped ==
    ASSUME TypeInv, NEW g \in Handshakes, NEW r \in Gens \cup {Error},
           Return(g, r), cert' \in Gens \cup {Nil}, age' \in 0..Interval
    PROVE  TypeInv'
<1>1. TypeOK'
  BY DEF TypeInv, TypeOK, Return, disk_vars
<1>2. DiskInv'
  BY DEF TypeInv, DiskInv, Return, disk_vars
<1>3. ReadInv'
  BY DEF TypeInv, TypeOK, ReadInv, Return
<1>. QED  BY <1>1, <1>2, <1>3 DEF TypeInv

(* The files, the cache and what a get has read keep their types: what a   *)
(* get stores is a whole pair (tls.go:32-54, tls_test.go:64-68).           *)
LEMMA TypeStep ==
    ASSUME TypeInv, [Next]_vars
    PROVE  TypeInv'
<1> USE DEF TypeInv
<1>1. ASSUME NEW g \in Handshakes, Call(g) PROVE TypeInv'
  <2>1. due' \in [Handshakes -> Gens \cup {Nil}]
    <3>1. rotation = "idle" => keyFile \in Gens
      BY DEF DiskInv
    <3>. QED  BY <1>1, <3>1 DEF Call, TypeOK
  <2>2. /\ pc' \in [Handshakes -> {"idle", "lock", "check", "readKey", "store"}]
        /\ answer' \in [Handshakes -> Gens \cup {Nil, Error}]
    BY <1>1 DEF Call, TypeOK
  <2>3. UNCHANGED <<disk_vars, reloader_vars, certRead, keyRead, built>>
    BY <1>1 DEF Call
  <2>4. TypeOK'
    BY <2>1, <2>2, <2>3 DEF TypeOK, disk_vars, reloader_vars
  <2>5. DiskInv'
    BY <2>3 DEF DiskInv, disk_vars
  <2>6. ReadInv'
    BY <1>1, <2>3 DEF Call, ReadInv, TypeOK
  <2>. QED  BY <2>4, <2>5, <2>6
<1>2. ASSUME NEW g \in Handshakes, Lock(g) PROVE TypeInv'
  <2>1. TypeOK'
    BY <1>2 DEF Lock, TypeOK, disk_vars
  <2>2. DiskInv' /\ ReadInv'
    BY <1>2 DEF Lock, DiskInv, ReadInv, TypeOK, disk_vars
  <2>. QED  BY <2>1, <2>2
<1>3. ASSUME NEW g \in Handshakes, ServeCached(g) PROVE TypeInv'
  <2>1. cert \in Gens /\ cert' = cert /\ age' = age /\ Return(g, cert)
    BY <1>3 DEF ServeCached, Fresh, TypeOK
  <2>. QED  BY <2>1, ReturnTyped DEF TypeOK
<1>4. ASSUME NEW g \in Handshakes, ReadCert(g) PROVE TypeInv'
  <2>1. TypeOK'
    BY <1>4 DEF ReadCert, TypeOK, disk_vars, reloader_vars
  <2>2. DiskInv' /\ ReadInv'
    BY <1>4 DEF ReadCert, DiskInv, ReadInv, TypeOK, disk_vars
  <2>. QED  BY <2>1, <2>2
<1>5. ASSUME NEW g \in Handshakes, ReadKey(g) PROVE TypeInv'
  <2>1. TypeOK'
    BY <1>5 DEF ReadKey, TypeOK, disk_vars, reloader_vars
  <2>2. DiskInv' /\ ReadInv'
    BY <1>5 DEF ReadKey, DiskInv, ReadInv, TypeOK, disk_vars
  <2>. QED  BY <2>1, <2>2
<1>6. ASSUME NEW g \in Handshakes, Store(g) PROVE TypeInv'
  <2>1. certRead[g] \in Gens
    BY <1>6, PairIsGen DEF Store
  <2>2. cert' = certRead[g] /\ age' = 0 /\ Return(g, certRead[g])
    BY <1>6 DEF Store
  <2>3. 0 \in 0..Interval
    BY ReloaderAssumption
  <2>. QED  BY <2>1, <2>2, <2>3, ReturnTyped
<1>7. ASSUME NEW g \in Handshakes, LoadFails(g) PROVE TypeInv'
  <2>1. cert \in Gens \cup {Nil} /\ cert' = cert /\ age' = age
    BY <1>7 DEF LoadFails, TypeOK
  <2>2. (IF cert # Nil THEN cert ELSE Error) \in Gens \cup {Error}
    BY <2>1
  <2>. QED  BY <1>7, <2>1, <2>2, ReturnTyped DEF LoadFails, TypeOK
<1>8. CASE Tick
  <2>1. age' \in 0..Interval
    BY <1>8, ReloaderAssumption DEF Tick, TypeOK
  <2>2. UNCHANGED <<disk_vars, cert, mu, get_vars, built, due>>
    BY <1>8 DEF Tick
  <2>. QED
    BY <2>1, <2>2 DEF TypeOK, DiskInv, ReadInv, disk_vars, get_vars
<1>9. CASE Rotate
  <2>1. UNCHANGED <<reloader_vars, get_vars, built>>
    BY <1>9 DEF Rotate, TruncateCert, WriteCert, TruncateKey, WriteKey
  <2>2. due' \in [Handshakes -> Gens \cup {Nil}]
    BY <1>9 DEF Rotate, TruncateCert, WriteCert, TruncateKey, WriteKey, TypeOK
  <2>3. DiskInv' /\ certFile' \in Contents /\ keyFile' \in Contents
                 /\ rotation' \in {"idle", "cert", "key", "keyWrite"}
    <3>1. CASE TruncateCert
      BY <3>1, GensInt DEF TruncateCert, TypeOK, DiskInv, Contents
    <3>2. CASE WriteCert
      BY <3>2, GensInt DEF WriteCert, TypeOK, DiskInv, Contents
    <3>3. CASE TruncateKey
      BY <3>3, GensInt DEF TruncateKey, TypeOK, DiskInv, Contents
    <3>4. CASE WriteKey
      BY <3>4, GensInt DEF WriteKey, TypeOK, DiskInv, Contents
    <3>. QED  BY <1>9, <3>1, <3>2, <3>3, <3>4 DEF Rotate
  <2>4. TypeOK' /\ ReadInv'
    BY <2>1, <2>2, <2>3 DEF TypeOK, ReadInv, reloader_vars, get_vars
  <2>. QED  BY <2>3, <2>4
<1>10. CASE UNCHANGED vars
  BY <1>10 DEF vars, TypeOK, DiskInv, ReadInv, disk_vars, reloader_vars, get_vars
<1>. QED
  BY <1>1, <1>2, <1>3, <1>4, <1>5, <1>6, <1>7, <1>8, <1>9, <1>10
     DEF Next, Get

LEMMA TypeHolds == Spec => []TypeInv
<1>1. Init => TypeInv
  <2> SUFFICES ASSUME Init PROVE TypeInv
    OBVIOUS
  <2>1. TypeOK
    <3>1. 0 \in Gens /\ Interval \in 0..Interval
      BY ReloaderAssumption, GensInt
    <3>. QED  BY <3>1 DEF Init, TypeOK, Contents
  <2>2. DiskInv /\ ReadInv
    BY GensInt DEF Init, DiskInv, ReadInv
  <2>. QED  BY <2>1, <2>2 DEF TypeInv
<1>. QED  BY <1>1, TypeStep, PTL DEF Spec

(* The cache holds a generation or nothing, and what was read of a torn    *)
(* file is never in it (tls.go:38-48).                                     *)
THEOREM Typing == Spec => []TypeOK
<1>1. TypeInv => TypeOK
  BY DEF TypeInv
<1>. QED  BY <1>1, TypeHolds, PTL

----------------------------------------------------------------------------
(* The mutex. *)

LEMMA MutexStep ==
    ASSUME TypeInv, MutexInv, [Next]_vars
    PROVE  MutexInv'
<1> USE DEF MutexInv, Locked
<1>1. mu \in Handshakes \cup {Nil} /\ Nil \notin Handshakes
      /\ pc \in [Handshakes -> {"idle", "lock", "check", "readKey", "store"}]
  BY ReloaderAssumption DEF TypeInv, TypeOK
<1>2. ASSUME NEW g \in Handshakes, Call(g) PROVE MutexInv'
  BY <1>1, <1>2 DEF Call, reloader_vars
<1>3. ASSUME NEW g \in Handshakes, Lock(g) PROVE MutexInv'
  BY <1>1, <1>3 DEF Lock
<1>4. ASSUME NEW g \in Handshakes, Locked(g), pc' = [pc EXCEPT ![g] = "idle"],
             mu' = Nil
      PROVE  MutexInv'
  BY <1>1, <1>4
<1>5. ASSUME NEW g \in Handshakes, ServeCached(g) \/ Store(g) \/ LoadFails(g)
      PROVE  MutexInv'
  BY <1>4, <1>5 DEF ServeCached, Store, LoadFails, Return
<1>6. ASSUME NEW g \in Handshakes, ReadCert(g) PROVE MutexInv'
  BY <1>1, <1>6 DEF ReadCert, reloader_vars
<1>7. ASSUME NEW g \in Handshakes, ReadKey(g) PROVE MutexInv'
  BY <1>1, <1>7 DEF ReadKey, reloader_vars
<1>8. CASE Tick
  BY <1>8 DEF Tick, get_vars
<1>9. CASE Rotate
  BY <1>9 DEF Rotate, TruncateCert, WriteCert, TruncateKey, WriteKey,
              reloader_vars, get_vars
<1>10. CASE UNCHANGED vars
  BY <1>10 DEF vars, reloader_vars, get_vars
<1>. QED
  BY <1>2, <1>3, <1>5, <1>6, <1>7, <1>8, <1>9, <1>10 DEF Next, Get

(* One goroutine at a time looks at the cache and at the files             *)
(* (tls.go:33-34).                                                         *)
LEMMA Mutex == Spec => []MutexInv
<1>1. Init => MutexInv
  BY ReloaderAssumption DEF Init, MutexInv, Locked
<1>. QED  BY <1>1, MutexStep, TypeHolds, PTL DEF Spec

----------------------------------------------------------------------------
(* No refusal after Build. *)

(* Build has succeeded only with a pair, and a call has no answer yet.     *)
BuiltInv ==
    /\ built => cert # Nil
    /\ \A g \in Handshakes : pc[g] # "idle" => answer[g] = Nil

LEMMA ReturnBuilt ==
    ASSUME TypeInv, BuiltInv, NEW g \in Handshakes, NEW r, Return(g, r),
           r # Error \/ cert # Nil => cert' # Nil /\ r # Error
    PROVE  /\ BuiltInv'
           /\ \A h \in Handshakes :
                  built /\ pc[h] # "idle" => answer'[h] # Error
<1>1. /\ answer \in [Handshakes -> Gens \cup {Nil, Error}]
      /\ pc \in [Handshakes -> {"idle", "lock", "check", "readKey", "store"}]
      /\ Nil # Error
  BY ReloaderAssumption DEF TypeInv, TypeOK
<1>. QED  BY <1>1 DEF BuiltInv, Return

LEMMA BuiltStep ==
    ASSUME TypeInv, BuiltInv, [Next]_vars
    PROVE  /\ BuiltInv'
           /\ \A h \in Handshakes :
                  built /\ pc[h] # "idle" => answer'[h] # Error
<1> DEFINE Served == \A h \in Handshakes :
                        built /\ pc[h] # "idle" => answer'[h] # Error
<1>1. /\ answer \in [Handshakes -> Gens \cup {Nil, Error}]
      /\ pc \in [Handshakes -> {"idle", "lock", "check", "readKey", "store"}]
      /\ Nil # Error /\ cert \in Gens \cup {Nil}
  BY ReloaderAssumption DEF TypeInv, TypeOK
<1>2. ASSUME UNCHANGED <<cert, answer, built>>,
             \A g \in Handshakes : pc'[g] # "idle" => pc[g] # "idle"
      PROVE  BuiltInv' /\ Served
  BY <1>1, <1>2 DEF BuiltInv
<1>3. ASSUME NEW g \in Handshakes, Call(g) PROVE BuiltInv' /\ Served
  BY <1>1, <1>3 DEF Call, BuiltInv, reloader_vars
<1>4. ASSUME NEW g \in Handshakes, Lock(g) \/ ReadCert(g) \/ ReadKey(g)
      PROVE  BuiltInv' /\ Served
  BY <1>1, <1>2, <1>4 DEF Lock, ReadCert, ReadKey, reloader_vars
<1>5. ASSUME NEW g \in Handshakes, ServeCached(g) PROVE BuiltInv' /\ Served
  <2>1. cert # Nil /\ cert # Error /\ cert' = cert /\ Return(g, cert)
    BY <1>1, <1>5, GensInt DEF ServeCached, Fresh
  <2>. QED  BY <2>1, ReturnBuilt
<1>6. ASSUME NEW g \in Handshakes, Store(g) PROVE BuiltInv' /\ Served
  <2>1. certRead[g] # Nil /\ certRead[g] # Error
    BY <1>6, PairIsGen, GensInt DEF Store, TypeInv
  <2>2. cert' = certRead[g] /\ Return(g, certRead[g])
    BY <1>6 DEF Store
  <2>. QED  BY <2>1, <2>2, ReturnBuilt
<1>7. ASSUME NEW g \in Handshakes, LoadFails(g) PROVE BuiltInv' /\ Served
  <2>1. cert' = cert /\ Return(g, IF cert # Nil THEN cert ELSE Error)
        /\ cert # Error
    BY <1>1, <1>7, ReloaderAssumption, GensInt DEF LoadFails
  <2>. QED  BY <2>1, ReturnBuilt
<1>8. CASE Tick
  BY <1>2, <1>8 DEF Tick, get_vars
<1>9. CASE Rotate
  BY <1>2, <1>9 DEF Rotate, TruncateCert, WriteCert, TruncateKey, WriteKey,
                    reloader_vars, get_vars
<1>10. CASE UNCHANGED vars
  BY <1>2, <1>10 DEF vars, reloader_vars, get_vars
<1>. QED
  BY <1>3, <1>4, <1>5, <1>6, <1>7, <1>8, <1>9, <1>10 DEF Next, Get

(* Once Build has succeeded no handshake is refused a certificate, however *)
(* the rotation tears the files (tls.go:19-21, 40-45): the pair of Build   *)
(* is kept until another one has been loaded whole.                        *)
THEOREM Serves == Spec => NeverRefused
<1>1. Init => BuiltInv
  BY DEF Init, BuiltInv
<1>2. TypeInv /\ BuiltInv /\ [Next]_vars
        => /\ BuiltInv'
           /\ [\A g \in Handshakes :
                   built /\ pc[g] # "idle" => answer'[g] # Error]_vars
  BY BuiltStep
<1>. QED  BY <1>1, <1>2, TypeHolds, PTL DEF Spec, NeverRefused

----------------------------------------------------------------------------
(* No step back. *)

(* The last generation of each file that was written whole. *)
LastCert == IF rotation = "cert" THEN keyFile ELSE certFile
LastKey == IF rotation = "keyWrite" THEN certFile - 1 ELSE keyFile

(* What is in the cache, and what a get has read, has been on disk, and    *)
(* the disk does not go back; what a get has read is not older than the    *)
(* cache, which nobody else replaces meanwhile (tls.go:33-48).             *)
ReadAge(g) ==
    /\ pc[g] \in {"readKey", "store"} /\ certRead[g] # Broken =>
          /\ certRead[g] <= LastCert
          /\ cert # Nil => cert <= certRead[g]
    /\ pc[g] = "store" /\ keyRead[g] # Broken => keyRead[g] <= LastKey

AgeInv ==
    /\ cert # Nil => cert <= LastKey
    /\ \A g \in Handshakes : ReadAge(g)

LEMMA LastType ==
    ASSUME TypeInv
    PROVE  /\ LastCert \in Int /\ LastKey \in Int /\ LastKey <= LastCert
           /\ certFile # Broken => certFile = LastCert
           /\ keyFile # Broken => keyFile = LastKey
<1>1. /\ \A i \in Gens : i \in Nat /\ i # Broken
      /\ \A i \in 0..(MaxGen - 1) : i \in Nat /\ i # Broken
  BY GensInt
<1>2. CASE rotation = "idle"
  BY <1>1, <1>2 DEF LastCert, LastKey, TypeInv, DiskInv
<1>3. CASE rotation = "cert"
  BY <1>1, <1>3 DEF LastCert, LastKey, TypeInv, DiskInv
<1>4. CASE rotation = "key"
  <2>1. keyFile + 1 \in Gens
    BY <1>4, GensInt DEF TypeInv, DiskInv
  <2>. QED  BY <1>1, <1>4, <2>1 DEF LastCert, LastKey, TypeInv, DiskInv
<1>5. CASE rotation = "keyWrite"
  BY <1>1, <1>5 DEF LastCert, LastKey, TypeInv, DiskInv
<1>. QED  BY <1>2, <1>3, <1>4, <1>5 DEF TypeInv, TypeOK

(* A rotation only moves the disk on (tls_test.go:64-68).                  *)
LEMMA LastGrows ==
    ASSUME TypeInv, Rotate
    PROVE  LastCert <= LastCert' /\ LastKey <= LastKey'
<1>1. /\ Broken \notin Nat
      /\ \A i \in Gens : i \in Nat
      /\ \A i \in 0..(MaxGen - 1) : i \in Nat
  BY ReloaderAssumption, GensInt
<1>2. CASE TruncateCert
  BY <1>1, <1>2 DEF TruncateCert, LastCert, LastKey, TypeInv, DiskInv
<1>3. CASE WriteCert
  BY <1>1, <1>3 DEF WriteCert, LastCert, LastKey, TypeInv, DiskInv
<1>4. CASE TruncateKey
  BY <1>1, <1>4 DEF TruncateKey, LastCert, LastKey, TypeInv, DiskInv
<1>5. CASE WriteKey
  BY <1>1, <1>5 DEF WriteKey, LastCert, LastKey, TypeInv, DiskInv
<1>. QED  BY <1>2, <1>3, <1>4, <1>5 DEF Rotate

(* What Store puts in the cache was on disk, in both files, after what was *)
(* there before (tls.go:38-48).                                            *)
LEMMA StoredAge ==
    ASSUME TypeInv, AgeInv, NEW g \in Handshakes, Store(g)
    PROVE  /\ cert' \in Gens /\ cert' # Nil /\ cert' <= LastKey
           /\ cert # Nil => cert <= cert'
<1>1. /\ pc[g] = "store" /\ cert' = certRead[g]
      /\ certRead[g] \in Gens /\ keyRead[g] = certRead[g]
  BY PairIsGen DEF Store, TypeInv
<1>. QED  BY <1>1, GensInt DEF AgeInv, ReadAge

(* The disk stays as it is: the cache stays, or a whole pair is stored, or *)
(* a file is read (tls.go:36-54).                                          *)
LEMMA AgeStep ==
    ASSUME TypeInv, TypeInv', MutexInv, AgeInv, [Next]_vars
    PROVE  AgeInv'
<1>1. /\ pc \in [Handshakes -> {"idle", "lock", "check", "readKey", "store"}]
      /\ certRead \in [Handshakes -> Contents \cup {Nil}]
      /\ keyRead \in [Handshakes -> Contents \cup {Nil}]
      /\ cert # Nil => cert \in Int
      /\ \A g \in Handshakes :
            /\ pc[g] \in {"readKey", "store"} /\ certRead[g] # Broken
                 => certRead[g] \in Int
            /\ pc[g] = "store" /\ keyRead[g] # Broken => keyRead[g] \in Int
  BY GensInt DEF TypeInv, TypeOK, ReadInv, Contents
<1>2. ASSUME UNCHANGED disk_vars
      PROVE  LastCert' = LastCert /\ LastKey' = LastKey
  BY <1>2 DEF disk_vars, LastCert, LastKey
<1>3. ASSUME UNCHANGED <<disk_vars, cert, certRead, keyRead>>,
             NEW g \in Handshakes,
             pc' = pc \/ \E l \in {"idle", "lock", "check"} : pc' = [pc EXCEPT ![g] = l]
      PROVE  AgeInv'
  <2>1. \A h \in Handshakes :
           /\ pc'[h] \in {"readKey", "store"} => pc[h] \in {"readKey", "store"}
           /\ pc'[h] = "store" => pc[h] = "store"
    BY <1>1, <1>3
  <2>. QED  BY <1>2, <1>3, <2>1 DEF AgeInv, ReadAge
<1>4. ASSUME NEW g \in Handshakes, NEW r, Return(g, r), cert' = cert
      PROVE  AgeInv'
  <2>1. \A h \in Handshakes : pc'[h] \in {"readKey", "store"} =>
           /\ h # g /\ pc[h] = pc'[h]
           /\ certRead'[h] = certRead[h] /\ keyRead'[h] = keyRead[h]
    BY <1>1, <1>4 DEF Return
  <2>2. LastCert' = LastCert /\ LastKey' = LastKey
    BY <1>2, <1>4 DEF Return
  <2>. QED  BY <1>4, <2>1, <2>2 DEF AgeInv, ReadAge
<1>5. ASSUME NEW g \in Handshakes, Call(g) PROVE AgeInv'
  BY <1>3, <1>5 DEF Call, reloader_vars
<1>6. ASSUME NEW g \in Handshakes, Lock(g) PROVE AgeInv'
  BY <1>3, <1>6 DEF Lock
<1>7. ASSUME NEW g \in Handshakes, ServeCached(g) \/ LoadFails(g)
      PROVE  AgeInv'
  BY <1>4, <1>7 DEF ServeCached, LoadFails
<1>8. ASSUME NEW g \in Handshakes, ReadCert(g) PROVE AgeInv'
  <2>1. certFile # Broken =>
            certFile <= LastCert /\ (cert # Nil => cert <= certFile)
    BY <1>1, LastType DEF AgeInv, ReadAge
  <2>2. \A h \in Handshakes : h # g => pc'[h] = pc[h] /\ certRead'[h] = certRead[h]
    BY <1>1, <1>8 DEF ReadCert
  <2>3. pc'[g] # "store" /\ certRead'[g] = certFile
    BY <1>1, <1>8 DEF ReadCert
  <2>4. UNCHANGED <<cert, keyRead, LastCert, LastKey>>
    BY <1>2, <1>8 DEF ReadCert, reloader_vars
  <2>5. ReadAge(g)'
    BY <2>1, <2>3, <2>4 DEF ReadAge
  <2>6. \A h \in Handshakes : h # g => ReadAge(h)'
    BY <2>2, <2>4 DEF AgeInv, ReadAge
  <2>. QED  BY <2>4, <2>5, <2>6 DEF AgeInv
<1>9. ASSUME NEW g \in Handshakes, ReadKey(g) PROVE AgeInv'
  <2>1. keyFile # Broken => keyFile = LastKey
    BY LastType
  <2>2. \A h \in Handshakes : h # g => pc'[h] = pc[h] /\ keyRead'[h] = keyRead[h]
    BY <1>1, <1>9 DEF ReadKey
  <2>3. pc[g] = "readKey" /\ pc'[g] = "store" /\ keyRead'[g] = keyFile
    BY <1>1, <1>9 DEF ReadKey
  <2>4. UNCHANGED <<cert, certRead, LastCert, LastKey>>
    BY <1>2, <1>9 DEF ReadKey, reloader_vars
  <2>5. LastKey \in Int
    BY LastType
  <2>6. ReadAge(g)'
    BY <2>1, <2>3, <2>4, <2>5 DEF AgeInv, ReadAge
  <2>7. \A h \in Handshakes : h # g => ReadAge(h)'
    BY <2>2, <2>4 DEF AgeInv, ReadAge
  <2>. QED  BY <2>4, <2>6, <2>7 DEF AgeInv
<1>10. ASSUME NEW g \in Handshakes, Store(g) PROVE AgeInv'
  <2>1. Return(g, certRead[g]) /\ pc[g] = "store"
    BY <1>10 DEF Store
  <2>2. \A h \in Handshakes : pc'[h] \notin {"readKey", "store"}
    BY <1>1, <2>1 DEF Return, MutexInv, Locked
  <2>3. LastKey' = LastKey /\ cert' <= LastKey
    BY <1>2, <1>10, <2>1, StoredAge DEF Return
  <2>. QED  BY <2>2, <2>3 DEF AgeInv, ReadAge
<1>11. CASE Rotate
  <2>1. UNCHANGED <<cert, pc, certRead, keyRead>>
    BY <1>11 DEF Rotate, TruncateCert, WriteCert, TruncateKey, WriteKey,
                 reloader_vars, get_vars
  <2>2. LastCert <= LastCert' /\ LastKey <= LastKey'
    BY <1>11, LastGrows
  <2>3. /\ LastCert \in Int /\ LastKey \in Int
        /\ LastCert' \in Int /\ LastKey' \in Int
    <3>1. LastCert \in Int /\ LastKey \in Int
      BY LastType
    <3>2. LastCert' \in Int /\ LastKey' \in Int
      BY GensInt DEF TypeInv, DiskInv, TypeOK, LastCert, LastKey
    <3>. QED  BY <3>1, <3>2
  <2>. QED  BY <1>1, <2>1, <2>2, <2>3 DEF AgeInv, ReadAge
<1>12. CASE Tick \/ UNCHANGED vars
  <2>1. UNCHANGED <<cert, pc, certRead, keyRead, LastCert, LastKey>>
    BY <1>2, <1>12 DEF Tick, vars, reloader_vars, get_vars
  <2>. QED  BY <2>1 DEF AgeInv, ReadAge
<1>. QED
  BY <1>5, <1>6, <1>7, <1>8, <1>9, <1>10, <1>11, <1>12 DEF Next, Get

LEMMA ForwardStep ==
    ASSUME TypeInv, AgeInv, [Next]_vars
    PROVE  cert # Nil => cert' # Nil /\ cert' >= cert
<1>1. cert # Nil => cert \in Int
  BY GensInt DEF TypeInv, TypeOK
<1>2. CASE \E g \in Handshakes : Store(g)
  BY <1>1, <1>2, StoredAge, GensInt
<1>3. CASE ~\E g \in Handshakes : Store(g)
  <2>1. cert' = cert
    BY <1>3 DEF Next, Call, Get, Lock, ServeCached, ReadCert, ReadKey, LoadFails,
       Tick, Rotate, TruncateCert, WriteCert, TruncateKey, WriteKey,
       reloader_vars, vars
  <2>. QED  BY <1>1, <2>1
<1>. QED  BY <1>2, <1>3

(* The pair never goes back to an older generation, though handshakes      *)
(* overlap one another and the rotation (tls.go:33-34, 39-48): a handshake *)
(* reads files that are at least as new as the cache it found.             *)
THEOREM OnlyForward == Spec => NeverOlder
<1>1. Init => AgeInv
  BY DEF Init, AgeInv, ReadAge
<1>2. TypeInv /\ TypeInv' /\ MutexInv /\ AgeInv /\ [Next]_vars
        => AgeInv' /\ [cert # Nil => cert' # Nil /\ cert' >= cert]_vars
  BY AgeStep, ForwardStep
<1>. QED  BY <1>1, <1>2, TypeHolds, Mutex, PTL DEF Spec, NeverOlder

----------------------------------------------------------------------------
(* An expired pair is replaced. *)

(* While a handshake is owed the pair d, that is the pair on disk, whatever*)
(* is read of the disk is of that pair, and only that pair looks fresh     *)
(* (tls.go:36-48).                                                         *)
DueInv ==
    \A g \in Handshakes :
        due[g] # Nil /\ pc[g] # "idle" =>
            /\ rotation = "idle" /\ keyFile = due[g]
            /\ Fresh => cert = due[g]
            /\ \A h \in Handshakes :
                  /\ pc[h] \in {"readKey", "store"} => certRead[h] = due[g]
                  /\ pc[h] = "store" => keyRead[h] = due[g]

(* A return to a handshake that is owed a pair hands it that pair          *)
(* (tls.go:36-54).                                                         *)
LEMMA DueReturn ==
    ASSUME TypeInv, DueInv, PicksUpWhenDue,
           NEW g \in Handshakes, NEW r, Return(g, r),
           due[g] # Nil => r = due[g],
           \A h \in Handshakes :
               due[h] # Nil /\ pc[h] # "idle" => (Fresh' => cert' = due[h])
    PROVE  DueInv' /\ PicksUpWhenDue'
<1>1. /\ pc \in [Handshakes -> {"idle", "lock", "check", "readKey", "store"}]
      /\ answer \in [Handshakes -> Gens \cup {Nil, Error}]
      /\ certRead \in [Handshakes -> Contents \cup {Nil}]
      /\ keyRead \in [Handshakes -> Contents \cup {Nil}]
  BY DEF TypeInv, TypeOK
<1>2. /\ UNCHANGED <<rotation, keyFile, due>>
      /\ pc'[g] = "idle" /\ answer'[g] = r
      /\ \A h \in Handshakes : h # g =>
            /\ pc'[h] = pc[h] /\ answer'[h] = answer[h]
            /\ certRead'[h] = certRead[h] /\ keyRead'[h] = keyRead[h]
  BY <1>1 DEF Return, disk_vars
<1>3. DueInv'
  BY <1>2 DEF DueInv
<1>4. PicksUpWhenDue'
  BY <1>2 DEF PicksUpWhenDue
<1>. QED  BY <1>3, <1>4

LEMMA DueStep ==
    ASSUME TypeInv, MutexInv, DueInv, PicksUpWhenDue, [Next]_vars
    PROVE  DueInv' /\ PicksUpWhenDue'
<1>1. /\ pc \in [Handshakes -> {"idle", "lock", "check", "readKey", "store"}]
      /\ answer \in [Handshakes -> Gens \cup {Nil, Error}]
      /\ certRead \in [Handshakes -> Contents \cup {Nil}]
      /\ keyRead \in [Handshakes -> Contents \cup {Nil}]
      /\ due \in [Handshakes -> Gens \cup {Nil}]
      /\ rotation = "idle" => certFile = keyFile /\ keyFile \in Gens
      /\ Nil \notin Gens
  BY GensInt DEF TypeInv, TypeOK, DiskInv
<1>2. ASSUME NEW g \in Handshakes, Call(g) PROVE DueInv' /\ PicksUpWhenDue'
  <2>1. UNCHANGED <<disk_vars, reloader_vars, certRead, keyRead>>
        /\ (Fresh' <=> Fresh)
    BY <1>2 DEF Call, reloader_vars, Fresh
  <2>2. /\ pc[g] = "idle" /\ pc'[g] = "lock" /\ answer'[g] = Nil
        /\ \A h \in Handshakes : h # g =>
              pc'[h] = pc[h] /\ due'[h] = due[h] /\ answer'[h] = answer[h]
    BY <1>1, <1>2 DEF Call
  <2>3. due'[g] # Nil => rotation = "idle" /\ ~Fresh /\ ~Reading /\ due'[g] = keyFile
    BY <1>1, <1>2 DEF Call
  <2>4. DueInv'
    BY <2>1, <2>2, <2>3 DEF DueInv, Reading, disk_vars, reloader_vars
  <2>5. PicksUpWhenDue'
    BY <2>2 DEF PicksUpWhenDue
  <2>. QED  BY <2>4, <2>5
<1>3. ASSUME NEW g \in Handshakes, Lock(g) PROVE DueInv' /\ PicksUpWhenDue'
  <2>1. /\ UNCHANGED <<disk_vars, cert, age, certRead, keyRead, answer, due>>
        /\ pc[g] = "lock" /\ pc' = [pc EXCEPT ![g] = "check"]
    BY <1>3 DEF Lock
  <2>. QED  BY <1>1, <2>1 DEF DueInv, PicksUpWhenDue, Fresh, disk_vars
<1>4. ASSUME NEW g \in Handshakes, ServeCached(g) PROVE DueInv' /\ PicksUpWhenDue'
  <2>1. /\ pc[g] = "check" /\ Fresh /\ Return(g, cert) /\ (Fresh' <=> Fresh)
        /\ cert' = cert
    BY <1>4 DEF ServeCached, Fresh
  <2>. QED  BY <2>1, DueReturn DEF DueInv
<1>5. ASSUME NEW g \in Handshakes, ReadCert(g) PROVE DueInv' /\ PicksUpWhenDue'
  <2>1. /\ UNCHANGED <<disk_vars, cert, age, keyRead, answer, due>>
        /\ (Fresh' <=> Fresh)
    BY <1>5 DEF ReadCert, reloader_vars, Fresh
  <2>2. /\ pc[g] = "check" /\ pc'[g] = "readKey" /\ certRead'[g] = certFile
        /\ \A h \in Handshakes : h # g =>
              pc'[h] = pc[h] /\ certRead'[h] = certRead[h]
    BY <1>1, <1>5 DEF ReadCert
  <2>3. DueInv'
    BY <1>1, <2>1, <2>2 DEF DueInv, disk_vars
  <2>4. PicksUpWhenDue'
    BY <2>1, <2>2 DEF PicksUpWhenDue
  <2>. QED  BY <2>3, <2>4
<1>6. ASSUME NEW g \in Handshakes, ReadKey(g) PROVE DueInv' /\ PicksUpWhenDue'
  <2>1. /\ UNCHANGED <<disk_vars, cert, age, certRead, answer, due>>
        /\ (Fresh' <=> Fresh)
    BY <1>6 DEF ReadKey, reloader_vars, Fresh
  <2>2. /\ pc[g] = "readKey" /\ pc'[g] = "store" /\ keyRead'[g] = keyFile
        /\ \A h \in Handshakes : h # g =>
              pc'[h] = pc[h] /\ keyRead'[h] = keyRead[h]
    BY <1>1, <1>6 DEF ReadKey
  <2>3. DueInv'
    BY <1>1, <2>1, <2>2 DEF DueInv, disk_vars
  <2>4. PicksUpWhenDue'
    BY <2>1, <2>2 DEF PicksUpWhenDue
  <2>. QED  BY <2>3, <2>4
<1>7. ASSUME NEW g \in Handshakes, Store(g) PROVE DueInv' /\ PicksUpWhenDue'
  <2>1. pc[g] = "store" /\ cert' = certRead[g] /\ Return(g, certRead[g])
    BY <1>7 DEF Store
  <2>2. \A h \in Handshakes :
           due[h] # Nil /\ pc[h] # "idle" => certRead[g] = due[h]
    BY <2>1 DEF DueInv
  <2>. QED  BY <2>1, <2>2, DueReturn
<1>8. ASSUME NEW g \in Handshakes, LoadFails(g) PROVE DueInv' /\ PicksUpWhenDue'
  <2>1. /\ pc[g] = "store" /\ ~Pair(certRead[g], keyRead[g])
        /\ Return(g, IF cert # Nil THEN cert ELSE Error)
        /\ cert' = cert /\ (Fresh' <=> Fresh)
    BY <1>8 DEF LoadFails, Fresh
  <2>2. due[g] = Nil
    <3>1. due[g] # Nil => certRead[g] = due[g] /\ keyRead[g] = due[g]
      BY <2>1 DEF DueInv
    <3>2. due[g] # Nil => due[g] \in Gens /\ due[g] # Broken
      BY <1>1, GensInt
    <3>. QED  BY <2>1, <3>1, <3>2 DEF Pair
  <2>. QED  BY <2>1, <2>2, DueReturn DEF DueInv
<1>9. CASE Tick
  <2>1. UNCHANGED <<disk_vars, cert, pc, certRead, keyRead, answer, due>>
        /\ (Fresh' => Fresh)
    BY <1>9, ReloaderAssumption DEF Tick, get_vars, Fresh, TypeInv, TypeOK
  <2>. QED  BY <2>1 DEF DueInv, PicksUpWhenDue, disk_vars
<1>10. CASE Rotate
  <2>1. UNCHANGED <<reloader_vars, get_vars>>
    BY <1>10 DEF Rotate, TruncateCert, WriteCert, TruncateKey, WriteKey
  <2>2. CASE TruncateCert
    <3>1. \A h \in Handshakes : due'[h] = Nil
      BY <2>2 DEF TruncateCert
    <3>. QED  BY <3>1 DEF DueInv, PicksUpWhenDue
  <2>3. CASE ~TruncateCert
    <3>1. rotation # "idle" /\ due' = due
      BY <1>10, <2>3 DEF Rotate, WriteCert, TruncateKey, WriteKey
    <3>. QED
      BY <2>1, <3>1 DEF DueInv, PicksUpWhenDue, get_vars
  <2>. QED  BY <2>2, <2>3
<1>11. CASE UNCHANGED vars
  BY <1>11 DEF vars, disk_vars, reloader_vars, get_vars, DueInv,
               PicksUpWhenDue, Fresh
<1>. QED
  BY <1>2, <1>3, <1>4, <1>5, <1>6, <1>7, <1>8, <1>9, <1>10, <1>11
     DEF Next, Get

(* A handshake that begins when the cached pair has expired is served the  *)
(* pair on disk, if the files stay at rest and nobody was reading them     *)
(* already (tls.go:36-48, tls_test.go:50-51): whoever reads them first     *)
(* stores that pair, and only that pair is fresh when its turn comes.      *)
THEOREM ExpiredIsReplaced == Spec => []PicksUpWhenDue
<1>1. Init => DueInv /\ PicksUpWhenDue
  BY DEF Init, DueInv, PicksUpWhenDue
<1>2. TypeInv /\ MutexInv /\ DueInv /\ PicksUpWhenDue /\ [Next]_vars
        => DueInv' /\ PicksUpWhenDue'
  BY DueStep
<1>. QED  BY <1>1, <1>2, TypeHolds, Mutex, PTL DEF Spec
=============================================================================
