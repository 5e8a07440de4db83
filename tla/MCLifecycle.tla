----------------------------- MODULE MCLifecycle -----------------------------
(***************************************************************************)
(* Instances of Lifecycle for TLC.                                         *)
(***************************************************************************)
EXTENDS Lifecycle

\* A document with these tables and these values.
Doc(tables, values) ==
    [p \in tables |-> Table] @@ [p \in values |-> Leaf("file", "good")]

Sections == {<<>>, <<"server">>, <<"storage">>, <<"telemetry">>}
Metrics  == {<<"telemetry", "metrics">>, MetricsOtel}
Traces   == {<<"telemetry", "traces">>, TracesOtel}

\* dev/standalone/config.toml in short, only its sections, nothing at all, a
\* section that is not a table, and a key that is not known.
MCFiles ==
    {Doc(Sections \cup Metrics \cup Traces,
         {<<"server", "cluster_id">>, Append(MetricsOtel, "otlp_endpoint"),
          <<"telemetry", "traces", "capture_log_filter">>,
          Append(TracesOtel, "otlp_endpoint")}),
     Doc(Sections, {}),
     Doc({<<>>}, {}),
     Doc(Sections \ {<<"server">>}, {<<"server">>}),
     Doc(Sections, {<<"server", "mode">>})}

\* The texts with which each variable is tried; PERCAS_CONFIG_SERVER_MODE is
\* one that deploy/helm sets and nobody knows.
Tried(path) ==
    CASE path = Mode -> {"per_io", "per_io_size"}
      [] path = Append(IopsCounter, "size") -> {"good", "garbage", "out_of_range"}
      [] path = Append(MetricsOtel, "push_interval") -> {"good", "garbage"}
      [] OTHER -> {"good"}

MCVariables ==
    {<<"server", "cluster_id">>, <<"server", "initial_peers">>, <<"server", "mode">>,
     Append(MetricsOtel, "push_interval"), Mode,
     Append(IopsCounter, "size")}

MCEnvs ==
    {env \in UNION {[vs -> Text] : vs \in SUBSET MCVariables} :
        \A path \in DOMAIN env : env[path] \in Tried(path)}
=============================================================================
