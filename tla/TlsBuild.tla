------------------------------ MODULE TlsBuild ------------------------------
(***************************************************************************)
(* The decisions of ClientTlsConfig.Build of tls.go: which certificates a  *)
(* client trusts and which one it presents, given what its config sets.    *)
(*                                                                         *)
(* A config is a function of the fields that are set; "unsupported" is a   *)
(* PEM text, a file, a version or a name that is not any good, and a       *)
(* reload interval may be negative.                                        *)
(***************************************************************************)

Anchors == {"tls.ca_pem", "tls.ca_file"}
Texts == {"tls.cert_pem", "tls.key_pem"}
Files == {"tls.cert_file", "tls.key_file"}
Parsed == {"tls.min_version", "tls.max_version", "tls.cipher_suites",
           "tls.curve_preferences"}
Taken == {"tls.include_system_ca_certs_pool", "tls.insecure_skip_verify",
          "tls.server_name_override"}
(* "tls" stands for a block without any field. *)
TlsKnobs == {"tls", "tls.insecure", "tls.reload_interval"}
            \cup Anchors \cup Texts \cup Files \cup Parsed \cup Taken

TlsValuesOf(k) ==
    CASE k \in Anchors \cup Texts \cup Files \cup Parsed -> {"set", "unsupported"}
      [] k = "tls.reload_interval" -> {"set", "negative"}
      [] OTHER -> {"set"}

HasTls(c) == DOMAIN c \cap TlsKnobs # {}
Insecure(c) == "tls.insecure" \in DOMAIN c
(* Build is called for a block that is there and not insecure. *)
IsBuilt(c) == HasTls(c) /\ ~Insecure(c)
Bad(c, ks) == \E k \in ks \cap DOMAIN c : c[k] = "unsupported"

(* A PEM text goes before a file. *)
First(c, text, file) == IF text \in DOMAIN c THEN {text} ELSE {file} \cap DOMAIN c

Reloads(c) == "tls.reload_interval" \in DOMAIN c /\ c["tls.reload_interval"] = "set"

Anchor(c) == First(c, "tls.ca_pem", "tls.ca_file")
(* With an interval only the files count. *)
Certificate(c) == IF Reloads(c) THEN {"tls.cert_file"} \cap DOMAIN c
                                ELSE First(c, "tls.cert_pem", "tls.cert_file")
Key(c) == IF Reloads(c) THEN {"tls.key_file"} \cap DOMAIN c
                        ELSE First(c, "tls.key_pem", "tls.key_file")

(* Where RootCAs comes from. *)
Roots(c) ==
    Anchor(c) \cup (IF Anchor(c) = {}
                       \/ "tls.include_system_ca_certs_pool" \in DOMAIN c
                    THEN {"system"} ELSE {})

Halved(c) ==
    IF Reloads(c) THEN Certificate(c) = {} \/ Key(c) = {}
                  ELSE (Certificate(c) = {}) # (Key(c) = {})

BuildRefused(c) ==
    \/ Bad(c, Anchor(c))
    \/ Halved(c)
    \/ Bad(c, Certificate(c) \cup Key(c))
    \/ Bad(c, Parsed)

(* A connection in the clear. *)
NoTls == [roots |-> {}, certificate |-> {}, key |-> {}, reloads |-> FALSE]
(* That of a client without any config of its own. *)
DefaultTls == [NoTls EXCEPT !.roots = {"system"}]

BuildTls(c) == [roots |-> Roots(c), certificate |-> Certificate(c),
                key |-> Key(c), reloads |-> Reloads(c)]

(* The fields of the config that the result is made of. *)
TlsApplied(c) ==
    IF Insecure(c) THEN {"tls.insecure"}
    ELSE Anchor(c) \cup Certificate(c) \cup Key(c)
         \cup ((Parsed \cup Taken) \cap DOMAIN c)
         \cup (IF Reloads(c) THEN {"tls.reload_interval"} ELSE {})
         \cup ({"tls"} \cap DOMAIN c)
=============================================================================
