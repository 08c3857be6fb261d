---------------------------- MODULE MCDiscovery ----------------------------
(* A small platform: repositories 1 to 4 belong to an organisation, 5 to a     *)
(* personal account and 6 to another organisation.                            *)
EXTENDS Discovery

Repo(owner, archived, fork, topics, config) ==
    [owner |-> owner, archived |-> archived, fork |-> fork, topics |-> topics, config |-> config]

SmallAttr ==
    <<Repo("acme", FALSE, FALSE, {"go"}, {".renovaterc"}),
      Repo("acme", FALSE, FALSE, {}, {"renovate.json", ".gitlab/renovate.json"}),
      Repo("acme", FALSE, TRUE, {"go"}, {}),
      Repo("acme", TRUE, FALSE, {"go", "lib"}, {"renovate.json"}),
      Repo("jane", FALSE, FALSE, {}, {".gitlab/renovate.json"}),
      Repo("other", FALSE, FALSE, {"go"}, {"renovate.json"})>>

Accounts == [acme |-> "org", jane |-> "user", other |-> "org", ghost |-> "none"]

(* Globs such as "acme/*", "acme/x*", "jane/*", one of an account that does not *)
(* exist, and one without a slash, which matches no full name.                 *)
AcmeAll == [owner |-> "acme", matches |-> {1, 2, 3, 4}]
AcmeSome == [owner |-> "acme", matches |-> {1}]
JaneAll == [owner |-> "jane", matches |-> {5}]
GhostAll == [owner |-> "ghost", matches |-> {}]
Bare == [owner |-> "", matches |-> {}]

Options(patterns, topics, skipForks, skipArchived, requireConfig) ==
    [patterns |-> patterns, topics |-> topics, skipForks |-> skipForks,
     skipArchived |-> skipArchived, requireConfig |-> requireConfig]

SmallSpecs ==
    {Options(<<AcmeAll>>, {}, "unset", "unset", "unset"),
     Options(<<AcmeAll>>, {"go"}, "false", "true", "false"),
     Options(<<Bare, AcmeSome, AcmeAll>>, {}, "false", "false", "false"),
     Options(<<JaneAll, AcmeAll>>, {}, "unset", "unset", "unset"),
     Options(<<GhostAll>>, {}, "unset", "unset", "unset"),
     Options(<<>>, {}, "true", "false", "true")}

(* The repositories of the owner fill one page, end on a page's end or do not. *)
SmallListings == {<<1, 2, 3, 4, 5, 6>>, <<6, 3, 1, 5>>, <<5, 2, 4, 1>>, <<>>}
=============================================================================
