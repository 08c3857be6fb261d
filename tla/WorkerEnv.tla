----------------------------- MODULE WorkerEnv -----------------------------
(***************************************************************************)
(* What a worker pod is told: the environment that internal/jobspec/env.go    *)
(* builds from a Run's snapshots of Platform and Scan, and what the           *)
(* entrypoint script adds to it.                                              *)
(***************************************************************************)
EXTENDS SequencesExt

(* A JSON value: a list, or something else, as a sequence of atoms.           *)
Scalar(v) == [list |-> FALSE, items |-> <<v>>]
List(items) == [list |-> TRUE, items |-> items]

IsSequence(s) == s \in Seq(ToSet(s))

(* A JSON object gives each of its keys such a value.                          *)
IsConfig(object) == \A key \in DOMAIN object : IsSequence(object[key].items)

(* The value of a variable: a JSON object, or a text, kept under no key.      *)
Text(v) == [key \in {""} |-> Scalar(v)]
Entry(name, value) == [name |-> name, value |-> value]

(* One object over another: where both have a key, the first one's value.      *)
Over(f, g) == [key \in DOMAIN f \cup DOMAIN g |-> IF key \in DOMAIN f THEN f[key] ELSE g[key]]

resolveLogLevel(platform, scan) ==
    CASE scan.logLevel # ""                            -> scan.logLevel
      [] scan.logLevel = "" /\ platform.logLevel # ""  -> platform.logLevel
      [] OTHER                                         -> "info"

(* Slip: the Platform's runnerConfig wins.                                     *)
mergePlatformWins(platform, scan) ==
    LET merged == Over(platform.runnerConfig, scan.renovateConfigOverrides)
        extends == IF "extends" \in DOMAIN merged /\ merged["extends"].list
                   THEN merged["extends"].items ELSE <<>>
    IN  IF platform.presetRepoRef = "" THEN merged
        ELSE Over([extends |-> List(<<platform.presetRepoRef>> \o extends)], merged)

(* The Scan's overrides win, key by key and not below; the preset comes first  *)
(* in extends, where anything that is not a list is dropped.                   *)
mergeRenovateConfig(platform, scan) ==
    LET merged == Over(scan.renovateConfigOverrides, platform.runnerConfig)
        extends == IF "extends" \in DOMAIN merged /\ merged["extends"].list
                   THEN merged["extends"].items ELSE <<>>
    IN  IF platform.presetRepoRef = "" THEN merged
        ELSE Over([extends |-> List(<<platform.presetRepoRef>> \o extends)], merged)

(* Either kind of auth: the token of the Run's mirrored Secret.                *)
buildAuthEnv == <<Entry("RENOVATE_TOKEN", Text("mirrored access-token"))>>

(* The variables that are there only sometimes.                                *)
Optionally(condition, name, value) == IF condition THEN <<Entry(name, value)>> ELSE <<>>

buildEnv(platform, scan) ==
    LET config == mergeRenovateConfig(platform, scan)
    IN  <<Entry("RENOVATE_PLATFORM", Text(platform.platformType)),
          Entry("LOG_LEVEL", Text(resolveLogLevel(platform, scan))),
          Entry("LOG_FORMAT", Text("json"))>>
        \o Optionally(platform.baseURL # "", "RENOVATE_ENDPOINT", Text(platform.baseURL))
        \o buildAuthEnv
        \o <<Entry("RENOVATE_AUTODISCOVER", Text("false"))>>
        \o Optionally(scan.requireConfig # "false", "RENOVATE_REQUIRE_CONFIG", Text("required"))
        \o Optionally(DOMAIN config # {}, "RENOVATE_CONFIG", config)
        \o <<Entry("OTEL_SERVICE_NAME", Text("renovate-worker")),
             Entry("OTEL_EXPORTER_OTLP_ENDPOINT", Text("pod annotation"))>>
        \o scan.extraEnv

(* What renovate finds: of two entries with one name the later, and the        *)
(* repositories of the shard, which the entrypoint exports last.               *)
WorkerSees(env) ==
    LET LastOf(name) == SelectLastInSeq(env, LAMBDA e : e.name = name)
    IN  Over([RENOVATE_REPOSITORIES |-> Text("shard")],
             [name \in {env[i].name : i \in DOMAIN env} |-> env[LastOf(name)].value])
=============================================================================
