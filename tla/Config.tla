------------------------------- MODULE Config -------------------------------
(***************************************************************************)
(* load_config (cmd/percas/src/config.rs): a TOML document, one            *)
(* environment variable laid over it at a time, and the deserialisation    *)
(* into Config (crates/core/src/config.rs, newtype.rs).                    *)
(*                                                                         *)
(* A document maps the paths that exist in it to a table or to a value.    *)
(* Of a value only this matters: who wrote it, and whether it can be       *)
(* parsed and fits its field.  An environment variable is named by the     *)
(* path its name spells: PERCAS_CONFIG_SERVER_DIR is <<"server", "dir">>.  *)
(***************************************************************************)
EXTENDS Naturals, SequencesExt

Text == {"good", "garbage", "out_of_range", "per_io", "per_io_size"}

Table == [is |-> "table"]
Leaf(by, text) == [is |-> "value", by |-> by, text |-> text]

-----------------------------------------------------------------------------
(***************************************************************************)
(* known_option_entries, by ent_type.  (No entry is a boolean.)            *)
(***************************************************************************)
Under(parent, keys) == {Append(parent, k) : k \in keys}

Throttle    == <<"storage", "disk_throttle">>
IopsCounter == Append(Throttle, "iops_counter")
Mode        == Append(IopsCounter, "mode")
LogsFile    == <<"telemetry", "logs", "file">>
LogsOtel    == <<"telemetry", "logs", "opentelemetry">>
MetricsOtel == <<"telemetry", "metrics", "opentelemetry">>
TracesOtel  == <<"telemetry", "traces", "opentelemetry">>

StringOption ==
    UNION {
        Under(<<"server">>, {"advertise_ctrl_addr", "advertise_data_addr", "cluster_id",
                             "dir", "listen_ctrl_addr", "listen_data_addr"}),
        Under(<<"storage">>, {"data_dir", "disk_capacity", "memory_capacity"}),
        Under(IopsCounter, {"mode"}),
        Under(LogsFile, {"dir", "filter"}),
        Under(LogsOtel, {"filter", "otlp_endpoint"}),
        Under(<<"telemetry", "logs", "stderr">>, {"filter"}),
        Under(MetricsOtel, {"otlp_endpoint", "push_interval"}),
        Under(<<"telemetry", "traces">>, {"capture_log_filter"}),
        Under(TracesOtel, {"otlp_endpoint"})}

IntegerOption ==
    UNION {
        Under(IopsCounter, {"size"}),
        Under(Throttle, {"read_iops", "read_throughput", "write_iops", "write_throughput"}),
        Under(LogsFile, {"max_files"})}

ArrayOption == Under(<<"server">>, {"initial_peers"})

-----------------------------------------------------------------------------
(***************************************************************************)
(* The structs: the keys each table must have, and those it may have.      *)
(***************************************************************************)
Struct(required, optional) == [required |-> required, optional |-> optional]

Schema(path) ==
    CASE path = <<>> -> Struct({"server", "storage", "telemetry"}, {})
      [] path = <<"server">> ->
            Struct({}, {"dir", "listen_data_addr", "advertise_data_addr",
                        "listen_ctrl_addr", "advertise_ctrl_addr", "initial_peers",
                        "cluster_id"})
      [] path = <<"storage">> ->
            Struct({}, {"data_dir", "disk_capacity", "memory_capacity", "disk_throttle"})
      [] path = Throttle ->
            Struct({"iops_counter"}, {"write_iops", "read_iops", "write_throughput",
                                      "read_throughput"})
      [] path = IopsCounter -> Struct({"mode"}, {"size"})
      [] path = <<"telemetry">> -> Struct({}, {"logs", "traces", "metrics"})
      [] path = <<"telemetry", "logs">> ->
            Struct({}, {"file", "stderr", "opentelemetry"})
      [] path = LogsFile -> Struct({"filter", "dir"}, {"max_files"})
      [] path = <<"telemetry", "logs", "stderr">> -> Struct({"filter"}, {})
      [] path = LogsOtel -> Struct({"filter", "otlp_endpoint"}, {})
      [] path = <<"telemetry", "traces">> ->
            Struct({"capture_log_filter"}, {"opentelemetry"})
      [] path = TracesOtel -> Struct({"otlp_endpoint"}, {})
      [] path = <<"telemetry", "metrics">> -> Struct({}, {"opentelemetry"})
      [] path = MetricsOtel -> Struct({"otlp_endpoint"}, {"push_interval"})
      [] OTHER -> Struct({}, {})

\* The fields that are tables, and those that take any string.
TableField ==
    {<<"server">>, <<"storage">>, Throttle, IopsCounter, <<"telemetry">>,
     <<"telemetry", "logs">>, LogsFile, <<"telemetry", "logs", "stderr">>, LogsOtel,
     <<"telemetry", "traces">>, TracesOtel, <<"telemetry", "metrics">>, MetricsOtel}

FreeText ==
    {path \in StringOption :
        Last(path) \in {"dir", "data_dir", "cluster_id", "filter", "capture_log_filter",
                        "otlp_endpoint"}}

\* Whether a value is one of its field: the numbers are all NonZeroUsize.
Fits(path, text) ==
    IF path = Mode
    THEN text \in {"per_io", "per_io_size"}
    ELSE path \in FreeText \/ text = "good"

Keys(doc, path) == {Last(p) : p \in {q \in DOMAIN doc : q # <<>> /\ Front(q) = path}}

\* IopsCounter is an enum tagged by its mode.  PerIo is a unit variant, and serde
\* skips whatever else is in its table.
ModeIs(doc, text) == Mode \in DOMAIN doc /\ doc[Mode] # Table /\ doc[Mode].text = text

Skipped(doc) ==
    IF ModeIs(doc, "per_io")
    THEN {p \in DOMAIN doc : IsStrictPrefix(IopsCounter, p)} \ {Mode}
    ELSE {}

\* Config::deserialize: deny_unknown_fields on every struct; Options and
\* fields with a default may be missing.
Deserializes(doc) ==
    LET read == Restrict(doc, DOMAIN doc \ Skipped(doc))
    IN  /\ \A path \in DOMAIN read :
              IF read[path] = Table
              THEN LET keys == Keys(read, path)
                   IN  /\ path \in TableField \cup {<<>>}
                       /\ Schema(path).required \subseteq keys
                       /\ keys \subseteq Schema(path).required \cup Schema(path).optional
              ELSE path \notin TableField /\ Fits(path, read[path].text)
        /\ ModeIs(read, "per_io_size") => "size" \in Keys(read, IopsCounter)

-----------------------------------------------------------------------------
(***************************************************************************)
(* One turn of the loop over the environment.                              *)
(***************************************************************************)

\* The variable is known, of a type the loop can handle, and can be parsed.
Accepted(path, text) ==
    \/ path \in StringOption
    \/ path \in IntegerOption /\ text \in {"good", "out_of_range"}

Parents(path) == Prefixes(path) \ {path}

\* toml_edit cannot index into a value.
Clashes(doc, path) == \E p \in Parents(path) \cap DOMAIN doc : doc[p] # Table

\* Only the parent of the option itself is looked at.
MissingParent(doc, path) == {Front(path)} \ DOMAIN doc

MissingParents(doc, path) == Parents(path) \ DOMAIN doc

\* A set_toml_path that starts the last parent afresh.
SetTomlPathFresh(doc, path, text) ==
    [p \in {q \in DOMAIN doc : ~IsStrictPrefix(Front(path), q)}
              \cup Parents(path) \cup {path} |->
        IF p = path THEN Leaf("env", text) ELSE IF p \in DOMAIN doc THEN doc[p] ELSE Table]

\* set_toml_path: missing parents are created, the value replaces whatever
\* was there.
SetTomlPath(doc, path, text) ==
    [p \in {q \in DOMAIN doc : ~IsStrictPrefix(path, q)} \cup Parents(path) \cup {path} |->
        IF p = path THEN Leaf("env", text) ELSE IF p \in DOMAIN doc THEN doc[p] ELSE Table]

-----------------------------------------------------------------------------
(***************************************************************************)
(* What load_config promises, in no particular order: the environment over *)
(* the file.                                                               *)
(***************************************************************************)
Overlay(file, env) ==
    LET created == UNION {Parents(path) : path \in DOMAIN env}
        kept    == {q \in DOMAIN file : \A path \in DOMAIN env : ~IsPrefix(path, q)}
    IN  [p \in kept \cup created \cup DOMAIN env |->
            IF p \in DOMAIN env THEN Leaf("env", env[p])
            ELSE IF p \in kept THEN file[p] ELSE Table]

Loadable(file, env) ==
    /\ \A path \in DOMAIN env : Accepted(path, env[path]) /\ ~Clashes(file, path)
    /\ Deserializes(Overlay(file, env))

=============================================================================
