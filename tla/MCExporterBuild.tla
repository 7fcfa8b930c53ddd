-------------------------- MODULE MCExporterBuild --------------------------
(* Configs for TLC: at most two knobs set, and as many as three besides    *)
(* those of TLS.                                                           *)
EXTENDS ExporterBuild, TLC

Settings(knobs) == UNION {{k} \X ValuesOf(k) : k \in knobs}
Set(s) == s[1] :> s[2]
MCConfigs ==
    {<<>>}
    \cup {Set(s) @@ Set(t) : s, t \in Settings(Knobs)}
    \cup {Set(s) @@ Set(t) @@ Set(u) : s, t, u \in Settings(Knobs \ TlsKnobs)}
=============================================================================
