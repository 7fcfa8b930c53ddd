---------------------------- MODULE CertReloader ----------------------------
(***************************************************************************)
(* tls.go: the client certificate that is re-read from disk.               *)
(*                                                                         *)
(* Handshakes run concurrently and ask the reloader for a key pair.  It    *)
(* reads the certificate file and then the key file, while somebody else   *)
(* rotates both: each file is truncated, then written, certificate first   *)
(* (tls_test.go:64-68).  Generation i of the pair is the number i; two     *)
(* files make a pair when they are whole and of one generation.            *)
(***************************************************************************)
EXTENDS Naturals

CONSTANTS Handshakes,   \* goroutines that ask for the pair
          Interval,     \* r.interval, in ticks
          MaxGen,       \* bound: the last generation the rotation writes
          Broken,       \* the content of a truncated file
          Nil,
          Error         \* the answer of a get that fails

ASSUME ReloaderAssumption ==
    /\ Interval \in Nat \ {0}
    /\ MaxGen \in Nat
    /\ Broken \notin Nat
    /\ Nil \notin Nat
    /\ Error \notin Nat
    /\ Nil \notin {Broken, Error}
    /\ Nil \notin Handshakes

Gens == 0..MaxGen
Contents == Gens \cup {Broken}

VARIABLES
    certFile, keyFile,  \* what the files hold
    rotation,           \* the next step of the rotation
    cert,               \* r.cert: a generation, or Nil
    age,                \* time since r.loadedAt, not counted past Interval
    mu,                 \* the goroutine that holds r.mu, or Nil
    pc,                 \* pc[g]: the step of get that g is at
    certRead,           \* certRead[g]: the certificate g has read
    keyRead,            \* keyRead[g]: the key g has read
    answer,             \* answer[g]: what the last get of g returned
    built,              \* Build has succeeded: handshakes may come
    due                 \* history: due[g], the pair that lay on disk, expired
                        \* and at rest, since g's call began, or Nil

disk_vars == <<certFile, keyFile, rotation>>
reloader_vars == <<cert, age, mu>>
get_vars == <<pc, certRead, keyRead, answer>>
vars == <<disk_vars, reloader_vars, get_vars, built, due>>

TypeOK ==
    /\ certFile \in Contents
    /\ keyFile \in Contents
    /\ rotation \in {"idle", "cert", "key", "keyWrite"}
    /\ cert \in Gens \cup {Nil}
    /\ age \in 0..Interval
    /\ mu \in Handshakes \cup {Nil}
    /\ pc \in [Handshakes -> {"idle", "lock", "check", "readKey", "store"}]
    /\ certRead \in [Handshakes -> Contents \cup {Nil}]
    /\ keyRead \in [Handshakes -> Contents \cup {Nil}]
    /\ answer \in [Handshakes -> Gens \cup {Nil, Error}]
    /\ built \in BOOLEAN
    /\ due \in [Handshakes -> Gens \cup {Nil}]

(* Build makes the reloader; its own get comes first, in whatever          *)
(* goroutine runs it.                                                      *)
Init ==
    /\ certFile = 0
    /\ keyFile = 0
    /\ rotation = "idle"
    /\ cert = Nil
    /\ age = Interval
    /\ mu = Nil
    /\ pc = [g \in Handshakes |-> "idle"]
    /\ certRead = [g \in Handshakes |-> Nil]
    /\ keyRead = [g \in Handshakes |-> Nil]
    /\ answer = [g \in Handshakes |-> Nil]
    /\ built = FALSE
    /\ due = [g \in Handshakes |-> Nil]

----------------------------------------------------------------------------
(* get, one goroutine at a time. *)

Quiet == \A g \in Handshakes : pc[g] = "idle"
(* Mutant of Fresh: what was loaded once is never read again.              *)
FreshForever == cert # Nil

Fresh == cert # Nil /\ age < Interval
Reading == \E g \in Handshakes : pc[g] \in {"readKey", "store"}

(* Before Build has succeeded only Build itself calls get, and a failure   *)
(* leaves no reloader behind; another Build starts afresh.                 *)
Call(g) ==
    /\ pc[g] = "idle"
    /\ built \/ Quiet
    /\ pc' = [pc EXCEPT ![g] = "lock"]
    /\ answer' = [answer EXCEPT ![g] = Nil]
    /\ due' = [due EXCEPT ![g] =
                  IF rotation = "idle" /\ ~Fresh /\ ~Reading THEN keyFile
                                                             ELSE Nil]
    /\ UNCHANGED <<disk_vars, reloader_vars, certRead, keyRead, built>>

(* Mutant of Lock: the mutex is not taken.                                 *)
LockFree(g) ==
    /\ pc[g] = "lock"
    /\ mu' = g
    /\ pc' = [pc EXCEPT ![g] = "check"]
    /\ UNCHANGED <<disk_vars, cert, age, certRead, keyRead, answer, built, due>>

Lock(g) ==
    /\ pc[g] = "lock"
    /\ mu = Nil
    /\ mu' = g
    /\ pc' = [pc EXCEPT ![g] = "check"]
    /\ UNCHANGED <<disk_vars, cert, age, certRead, keyRead, answer, built, due>>

Return(g, r) ==
    /\ answer' = [answer EXCEPT ![g] = r]
    /\ pc' = [pc EXCEPT ![g] = "idle"]
    /\ mu' = Nil
    /\ certRead' = [certRead EXCEPT ![g] = Nil]
    /\ keyRead' = [keyRead EXCEPT ![g] = Nil]
    /\ built' = (built \/ r # Error)
    /\ UNCHANGED <<disk_vars, due>>

ServeCached(g) ==
    /\ pc[g] = "check"
    /\ Fresh
    /\ Return(g, cert)
    /\ UNCHANGED <<cert, age>>

(* LoadX509KeyPair reads one file after the other. *)
ReadCert(g) ==
    /\ pc[g] = "check"
    /\ ~Fresh
    /\ certRead' = [certRead EXCEPT ![g] = certFile]
    /\ pc' = [pc EXCEPT ![g] = "readKey"]
    /\ UNCHANGED <<disk_vars, reloader_vars, keyRead, answer, built, due>>

ReadKey(g) ==
    /\ pc[g] = "readKey"
    /\ keyRead' = [keyRead EXCEPT ![g] = keyFile]
    /\ pc' = [pc EXCEPT ![g] = "store"]
    /\ UNCHANGED <<disk_vars, reloader_vars, certRead, answer, built, due>>

(* Mutant of Pair: the files are compared but not parsed.                  *)
PairUnparsed(c, k) == c = k

(* The two files are one key pair. *)
Pair(c, k) == c # Broken /\ c = k

(* Mutant of Store: the caller gets the pair from before the load.         *)
StoreServesStale(g) ==
    /\ pc[g] = "store"
    /\ Pair(certRead[g], keyRead[g])
    /\ cert' = certRead[g]
    /\ age' = 0
    /\ Return(g, IF cert # Nil THEN cert ELSE certRead[g])

Store(g) ==
    /\ pc[g] = "store"
    /\ Pair(certRead[g], keyRead[g])
    /\ cert' = certRead[g]
    /\ age' = 0
    /\ Return(g, certRead[g])

(* Mutant of LoadFails: the last good pair is not kept.                    *)
LoadFailsHard(g) ==
    /\ pc[g] = "store"
    /\ ~Pair(certRead[g], keyRead[g])
    /\ Return(g, Error)
    /\ UNCHANGED <<cert, age>>

(* Keep the last good pair; loadedAt is left alone, so the next get tries. *)
LoadFails(g) ==
    /\ pc[g] = "store"
    /\ ~Pair(certRead[g], keyRead[g])
    /\ Return(g, IF cert # Nil THEN cert ELSE Error)
    /\ UNCHANGED <<cert, age>>

----------------------------------------------------------------------------
(* Around it. *)

Tick ==
    /\ age < Interval
    /\ age' = age + 1
    /\ UNCHANGED <<disk_vars, cert, mu, get_vars, built, due>>

TruncateCert ==
    /\ rotation = "idle"
    /\ keyFile < MaxGen
    /\ certFile' = Broken
    /\ rotation' = "cert"
    /\ due' = [g \in Handshakes |-> Nil]
    /\ UNCHANGED <<keyFile, reloader_vars, get_vars, built>>

WriteCert ==
    /\ rotation = "cert"
    /\ certFile' = keyFile + 1
    /\ rotation' = "key"
    /\ UNCHANGED <<keyFile, reloader_vars, get_vars, built, due>>

TruncateKey ==
    /\ rotation = "key"
    /\ keyFile' = Broken
    /\ rotation' = "keyWrite"
    /\ UNCHANGED <<certFile, reloader_vars, get_vars, built, due>>

WriteKey ==
    /\ rotation = "keyWrite"
    /\ keyFile' = certFile
    /\ rotation' = "idle"
    /\ UNCHANGED <<certFile, reloader_vars, get_vars, built, due>>

Rotate == TruncateCert \/ WriteCert \/ TruncateKey \/ WriteKey

Get(g) ==
    \/ Lock(g)
    \/ ServeCached(g)
    \/ ReadCert(g)
    \/ ReadKey(g)
    \/ Store(g)
    \/ LoadFails(g)

Next ==
    \/ \E g \in Handshakes : Call(g) \/ Get(g)
    \/ Tick
    \/ Rotate

Spec == Init /\ [][Next]_vars

(* Time passes, a handshake that has begun goes on, a rotation that has    *)
(* begun is completed.                                                     *)
FairSpec ==
    /\ Spec
    /\ WF_vars(Tick)
    /\ WF_vars(Rotate /\ rotation # "idle")
    /\ \A g \in Handshakes : SF_vars(Lock(g)) /\ WF_vars(Get(g))

----------------------------------------------------------------------------
(* Correctness. *)

(* Once Build has succeeded no handshake is refused a certificate, however *)
(* the files are torn while it reads them (tls.go:19-21, 40-45).           *)
NeverRefused ==
    [][\A g \in Handshakes : built /\ pc[g] # "idle" => answer'[g] # Error]_vars

(* The pair never goes back to an older generation, though handshakes      *)
(* overlap one another and the rotation (tls.go:33-34, 39-48).             *)
NeverOlder == [][cert # Nil => cert' # Nil /\ cert' >= cert]_vars

(* A handshake that begins when the cached pair has expired is served the  *)
(* pair on disk, if the files stay at rest and nobody was reading them     *)
(* already: no other handshake makes the old pair look fresh again         *)
(* (tls.go:36-48, tls_test.go:50-51).                                      *)
PicksUpWhenDue ==
    \A g \in Handshakes :
        pc[g] = "idle" /\ answer[g] # Nil /\ due[g] # Nil => answer[g] = due[g]

(* A rotation is picked up without a restart: if handshakes keep coming,   *)
(* one of them is served the last generation written (tls.go:157-160).     *)
PicksUpRotation ==
    (\A g \in Handshakes : WF_vars(Call(g))) =>
        \A i \in Gens : (keyFile = i ~> cert # Nil /\ cert >= i)
=============================================================================
