----------------------------- MODULE MCOperator -----------------------------
(* A small instance of Operator.                                              *)
EXTENDS Operator

PlatformSpec(type, auth, ref, url, level, config, preset) ==
    [platformType |-> type, auth |-> auth, ref |-> ref, baseURL |-> url, logLevel |-> level,
     runnerConfig |-> config, presetRepoRef |-> preset]

Config(dryRun, extends) == "dryRun" :> Scalar(dryRun) @@ "extends" :> extends

(* An App, which may move to another Secret and a URL that is none, to a        *)
(* Forgejo, or to a token for GitHub, which is admitted and becomes Ready.     *)
AppSpec ==
    PlatformSpec("github", "githubApp", "s1", "", "debug",
          Config("full", List(<<"base">>)) @@ "onboarding" :> Scalar("false"), "preset")
PATSpec == PlatformSpec("github", "token", "s2", "", "warn", <<>>, "preset")
SmallPlatformSpecs ==
    {AppSpec, [AppSpec EXCEPT !.ref = "s2", !.baseURL = NotAURL],
     PlatformSpec("forgejo", "token", "s2", "url", "", <<>>, ""), PATSpec}

ScanSpec(level, overrides, requireConfig, extraEnv) ==
    [logLevel |-> level, renovateConfigOverrides |-> overrides, requireConfig |-> requireConfig,
     extraEnv |-> extraEnv, minWorkers |-> 1, maxWorkers |-> 10, invalid |-> {}]

(* Overrides of both configuration keys with extra variables, two of one name  *)
(* and one that the entrypoint exports; extends that is not a list, with       *)
(* worker bounds out of order; and a Scan whose Job the API server refuses.    *)
OwnSpec ==
    ScanSpec("", Config("lookup", List(<<"mine", "base">>)), "unset",
             <<Entry("LOG_FORMAT", Text("a")), Entry("LOG_FORMAT", Text("b")),
               Entry("RENOVATE_REPOSITORIES", Text("all"))>>)
TheirSpec == ScanSpec("trace", "extends" :> Scalar("theirs"), "false", <<>>)
SmallScanSpecs ==
    {OwnSpec, TheirSpec, [OwnSpec EXCEPT !.minWorkers = 11], [TheirSpec EXCEPT !.invalid = {"job"}]}

AppFirst == {AppSpec}
OwnFirst == {OwnSpec}
BothSecrets == [s1 |-> "rsaKey", s2 |-> "text"]

(* A personal access token for GitHub.                                         *)
PATFirst == {PATSpec}
=============================================================================
