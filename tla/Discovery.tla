----------------------------- MODULE Discovery -----------------------------
(***************************************************************************)
(* Repository discovery of one Run: discoverRepos and handleDiscoverErr of    *)
(* renovaterun_controller.go with the platform clients of internal/platform.  *)
(* Every request to the platform is a step, so that repositories may come and *)
(* go between two pages of a listing, or between the listing and the probes   *)
(* for a Renovate config.  An error that is retried starts over with a new    *)
(* client.  The rate limiters only delay requests and are left out.           *)
(***************************************************************************)
EXTENDS SequencesExt

CONSTANTS
    Repos,         \* the repositories that may be on the platform
    Attr,          \* their attributes, see AttrType
    OwnerKind,     \* of each owner: what account the platform knows it by
    Namespace,     \* the Run's namespace
    Clients,       \* the kinds of client considered
    Specs,         \* the values of spec.scanSnapshot.discovery considered
    Listings,      \* what the platform holds at first, in the order it lists
    PageSize,      \* discoverPageSize
    ServerLimit,   \* the largest page the platform is willing to serve
    MaxFaults,     \* bound on failing requests and crashes
    MaxChanges     \* bound on repositories added or removed

Owners == DOMAIN OwnerKind

(* platform.ConfigPaths.                                                      *)
ConfigPaths == <<"renovate.json", ".renovaterc", ".renovaterc.json",
                 ".github/renovate.json", ".gitlab/renovate.json">>

AttrType ==
    [owner : Owners, archived : BOOLEAN, fork : BOOLEAN, topics : SUBSET STRING,
     config : SUBSET ToSet(ConfigPaths)]

(* A filter glob: the part before its first slash, "" if there is none, and   *)
(* the repositories whose full name path.Match accepts.                       *)
Pattern == [owner : Owners \cup {""}, matches : SUBSET Repos]

(* An optional boolean of DiscoverySpec.                                      *)
Optional == {"unset", "true", "false"}

ASSUME PlatformAssumption ==
    /\ \A r \in Repos : Attr[r] \in AttrType
    /\ \A o \in Owners : OwnerKind[o] \in {"org", "user", "none"}
    /\ Namespace \in Owners
    /\ \A l \in Listings : l \in Seq(Repos) /\ IsInjective(l)
ASSUME ClientsAssumption == Clients \subseteq {"githubApp", "githubToken", "forgejo"}
ASSUME SpecsAssumption ==
    \A s \in Specs :
        /\ s.patterns \in Seq(Pattern)
        /\ {s.skipForks, s.skipArchived, s.requireConfig} \subseteq Optional
ASSUME SizesAssumption ==
    /\ PageSize \in Nat \ {0} /\ ServerLimit \in Nat \ {0}
    /\ MaxFaults \in Nat /\ MaxChanges \in Nat

VARIABLES
    platform,   \* the repositories the credential can see, in listing order
    \* --- fixed for the Run
    client,     \* the kind of client its platform snapshot gives
    discovery,  \* spec.scanSnapshot.discovery
    \* --- the attempt in progress
    pc,         \* the next request
    endpoint,   \* the listing being read
    page,       \* its next page
    all,        \* repositories listed so far; then those still to be probed
    path,       \* index of the next config path to probe
    out,        \* repositories found to have a config
    \* --- the result
    outcome,    \* "none" while discovery is retried
    found,      \* the repositories discoverRepos returned
    cause,      \* the request and the answer that made the Run fail
    \* --- bounds, and what happened during the attempt
    faults, changes,
    start,      \* the repositories on the platform when it began
    known,      \* and those seen on it since
    shifts      \* whether some were "added", some "removed"

runVars == <<client, discovery>>
attemptVars == <<pc, endpoint, page, all, path, out>>
resultVars == <<outcome, found, cause>>
historyVars == <<start, known, shifts>>
vars == <<platform, runVars, attemptVars, resultVars, faults, changes, historyVars>>

-----------------------------------------------------------------------------
Fault == faults < MaxFaults /\ faults' = faults + 1
NoFault == UNCHANGED faults

(* Answers a request may get at any time: 401 or 403; another 4xx; a primary   *)
(* or secondary rate limit or 429; 5xx; none at all.                           *)
Answers == {"unauthorized", "clientError", "rateLimited", "serverError", "network"}

(* Slip: 429 falls to the default case.                                        *)
classifyErrNo429(answer) ==
    CASE answer = "unauthorized" -> "ErrUnauthorized"
      [] answer = "notFound"     -> "ErrNotFound"
      [] answer = "serverError"  -> "ErrTransient"
      [] answer = "network"      -> IF client = "forgejo" THEN "ErrTransient" ELSE "ErrPermanent"
      [] answer \in {"clientError", "rateLimited"} -> "ErrPermanent"

(* The two classifyErr.  They differ in what they make of no answer.           *)
classifyErr(answer) ==
    CASE answer = "unauthorized" -> "ErrUnauthorized"
      [] answer = "notFound"     -> "ErrNotFound"
      [] answer \in {"rateLimited", "serverError"} -> "ErrTransient"
      [] answer = "network"      -> IF client = "forgejo" THEN "ErrTransient" ELSE "ErrPermanent"
      [] answer = "clientError"  -> "ErrPermanent"

derefOrTrue(p) == p # "false"

(* The owner to enumerate: from the first glob that names one.                 *)
discoveryOwner ==
    LET i == SelectInSeq(discovery.patterns, LAMBDA p : p.owner # "")
    IN  IF i # 0 THEN discovery.patterns[i].owner ELSE Namespace

Owned == {r \in Repos : Attr[r].owner = discoveryOwner}

anyPatternMatches(r) ==
    \E i \in DOMAIN discovery.patterns : r \in discovery.patterns[i].matches

(* Forgejo's matchesFilter does not look at topics.                            *)
matchesFilter(r) ==
    /\ ~ (derefOrTrue(discovery.skipArchived) /\ Attr[r].archived)
    /\ ~ (derefOrTrue(discovery.skipForks) /\ Attr[r].fork)
    /\ client # "forgejo" /\ discovery.topics # {} => Attr[r].topics \cap discovery.topics # {}
    /\ discovery.patterns # <<>> => anyPatternMatches(r)

(* The entries of list that are in kept, in their order: the k-th is the one up *)
(* to which k entries are kept.  (SelectSeq, in a form one can reason about.)    *)
Keep[list \in Seq(Repos)] == [kept \in SUBSET Repos |->
    LET places == {i \in 1..Len(list) : list[i] \in kept}
    IN  [k \in 1..Cardinality(places) |->
            list[CHOOSE i \in places : Cardinality({j \in places : j <= i}) = k]]]

-----------------------------------------------------------------------------
(* The platform's side.                                                        *)

(* The installation listing has every repository granted, whoever owns it.     *)
Listing ==
    IF endpoint = "installation" THEN platform
    ELSE Keep[platform][Owned]

(* /orgs/... answers 404 for a personal account, and so does either listing    *)
(* for an account that does not exist.                                         *)
AccountMissing == endpoint # "installation" /\ OwnerKind[discoveryOwner] # endpoint

Served == IF ServerLimit < PageSize THEN ServerLimit ELSE PageSize

Page == SubSeq(Listing, (page - 1) * Served + 1,
               IF page * Served < Len(Listing) THEN page * Served ELSE Len(Listing))

-----------------------------------------------------------------------------
(* Where an attempt begins: before the client is made.                         *)
Begin ==
    /\ pc' = "connect" /\ endpoint' = "none" /\ page' = 1
    /\ all' = <<>> /\ path' = 1 /\ out' = <<>>
    /\ start' = ToSet(platform) /\ known' = ToSet(platform) /\ shifts' = {}

Init ==
    /\ platform \in Listings /\ client \in Clients /\ discovery \in Specs
    /\ pc = "connect" /\ endpoint = "none" /\ page = 1
    /\ all = <<>> /\ path = 1 /\ out = <<>>
    /\ outcome = "none" /\ found = <<>> /\ cause = [at |-> "none", answer |-> "none"]
    /\ faults = 0 /\ changes = 0
    /\ start = ToSet(platform) /\ known = ToSet(platform) /\ shifts = {}

(* markFailed: the Run is over.                                                *)
Fail(answer) ==
    /\ outcome' = "failed" /\ cause' = [at |-> pc, answer |-> answer] /\ pc' = "done"
    /\ UNCHANGED <<endpoint, page, all, path, out, found, historyVars>>

(* Slip: only what is ErrPermanent ends the Run; ErrNotFound and                *)
(* ErrUnauthorized do not wrap it.                                             *)
failOnPermanentOnly(answer) ==
    \/ classifyErr(answer) # "ErrPermanent" /\ Begin /\ UNCHANGED resultVars
    \/ classifyErr(answer) = "ErrPermanent" /\ Fail(answer)

handleDiscoverErr(answer) ==
    \/ classifyErr(answer) = "ErrTransient" /\ Begin /\ UNCHANGED resultVars
    \/ classifyErr(answer) # "ErrTransient" /\ Fail(answer)

(* discoverRepos returns; a Run without repositories fails.                    *)
Conclude(repos) ==
    /\ found' = repos /\ outcome' = IF repos = <<>> THEN "empty" ELSE "found"
    /\ pc' = "done"
    /\ UNCHANGED <<endpoint, page, all, path, out, cause, historyVars>>

ListFrom(e) ==
    /\ pc' = "list" /\ endpoint' = e /\ page' = 1 /\ all' = <<>>
    /\ UNCHANGED <<path, out, resultVars, historyVars>>

(* The client factory.  Forgejo's SDK asks for the server's version when a     *)
(* client is made; an error of the factory is final whatever it was.           *)
Connect ==
    /\ pc = "connect"
    /\ \/ ListFrom(IF client = "githubApp" THEN "installation" ELSE "org") /\ NoFault
       \/ client = "forgejo" /\ Fault /\ \E answer \in Answers : Fail(answer)
    /\ UNCHANGED <<platform, runVars, changes>>

(* Slip: the listing ends when the next page would be the last one.            *)
StopsOnePageEarly == (page + 1) * Served < Len(Listing)

(* Does the client ask for another page?  GitHub names the next one; Forgejo's *)
(* client counts what it got.                                                  *)
MorePages ==
    \/ client # "forgejo" /\ page * Served < Len(Listing)
    \/ client = "forgejo" /\ Len(Page) >= PageSize

(* Discover has the whole listing: what survives the filter is returned, or    *)
(* probed for a config first.                                                  *)
Listed(repos) ==
    LET survivors == Keep[repos][{r \in Repos : matchesFilter(r)}]
    IN  \/ ~ derefOrTrue(discovery.requireConfig) /\ Conclude(survivors)
        \/ /\ derefOrTrue(discovery.requireConfig)
           /\ pc' = "probe" /\ all' = survivors
           /\ UNCHANGED <<endpoint, page, path, out, resultVars, historyVars>>

(* One request of listInstallationRepos, listOrgRepos or listUserRepos.  What   *)
(* the installation lists is cut down to the owner; a 404 of the organisation   *)
(* listing leads to the user listing.                                           *)
ListPage ==
    /\ pc = "list"
    /\ \/ /\ ~ AccountMissing /\ NoFault
          /\ LET got == all \o Keep[Page][Owned]
             IN  \/ /\ MorePages /\ page' = page + 1 /\ all' = got
                    /\ UNCHANGED <<pc, endpoint, path, out, resultVars, historyVars>>
                 \/ ~ MorePages /\ Listed(got)
       \/ AccountMissing /\ endpoint = "org" /\ ListFrom("user") /\ NoFault
       \/ AccountMissing /\ endpoint = "user" /\ handleDiscoverErr("notFound") /\ NoFault
       \/ \E answer \in Answers : handleDiscoverErr(answer) /\ Fault
    /\ UNCHANGED <<platform, runVars, changes>>

(* Slip: one path too many is tried.                                            *)
PathMissingOneMore ==
    /\ IF path <= Len(ConfigPaths) THEN path' = path + 1 /\ UNCHANGED all
                                   ELSE path' = 1 /\ all' = Tail(all)
    /\ UNCHANGED <<pc, endpoint, page, out, resultVars, historyVars>>

(* The path is not there: on to the next, or to the next repository.           *)
PathMissing ==
    /\ IF path < Len(ConfigPaths) THEN path' = path + 1 /\ UNCHANGED all
                                  ELSE path' = 1 /\ all' = Tail(all)
    /\ UNCHANGED <<pc, endpoint, page, out, resultVars, historyVars>>

(* Slip: the first 200 does not end the probing of a repository.               *)
HasRenovateConfigGoesOn ==
    /\ pc = "probe" /\ all # <<>>
    /\ LET r == Head(all)
           there == r \in ToSet(platform) /\ ConfigPaths[path] \in Attr[r].config
       IN  /\ out' = IF there THEN Append(out, r) ELSE out
           /\ IF path < Len(ConfigPaths) THEN path' = path + 1 /\ UNCHANGED all
                                         ELSE path' = 1 /\ all' = Tail(all)
           /\ NoFault
           /\ UNCHANGED <<pc, endpoint, page, resultVars, historyVars>>
    /\ UNCHANGED <<platform, runVars, changes>>

(* One request of HasRenovateConfig for the repository whose turn it is.        *)
HasRenovateConfig ==
    /\ pc = "probe" /\ all # <<>>
    /\ LET r == Head(all)
           there == r \in ToSet(platform) /\ ConfigPaths[path] \in Attr[r].config
       IN  \/ /\ there /\ NoFault
              /\ out' = Append(out, r) /\ all' = Tail(all) /\ path' = 1
              /\ UNCHANGED <<pc, endpoint, page, resultVars, historyVars>>
           \/ ~ there /\ PathMissing /\ NoFault
           \/ \E answer \in Answers : handleDiscoverErr(answer) /\ Fault
    /\ UNCHANGED <<platform, runVars, changes>>

AllProbed ==
    /\ pc = "probe" /\ all = <<>>
    /\ Conclude(out)
    /\ UNCHANGED <<platform, runVars, faults, changes>>

(* The process dies; its successor starts the Run's discovery over.             *)
Crash ==
    /\ pc # "done" /\ Fault
    /\ Begin
    /\ UNCHANGED <<platform, runVars, resultVars, changes>>

-----------------------------------------------------------------------------
(* Meanwhile, on the platform.                                                  *)

Change == pc # "done" /\ changes < MaxChanges /\ changes' = changes + 1

AddRepo(r, i) ==
    /\ Change /\ r \notin ToSet(platform)
    /\ platform' = InsertAt(platform, i, r)
    /\ known' = known \cup {r} /\ shifts' = shifts \cup {"added"}
    /\ UNCHANGED <<runVars, attemptVars, resultVars, faults, start>>

RemoveRepo(i) ==
    /\ Change
    /\ platform' = RemoveAt(platform, i)
    /\ shifts' = shifts \cup {"removed"}
    /\ UNCHANGED <<runVars, attemptVars, resultVars, faults, start, known>>

Request == Connect \/ ListPage \/ HasRenovateConfig \/ AllProbed

Next ==
    \/ Request \/ Crash
    \/ \E r \in Repos, i \in 1..(Len(platform) + 1) : AddRepo(r, i)
    \/ \E i \in 1..Len(platform) : RemoveRepo(i)

Spec == Init /\ [][Next]_vars

(* The reconcile goes on, and a transient error comes back after its delay.     *)
FairSpec == Spec /\ WF_vars(Request)

-----------------------------------------------------------------------------
Requests == {"connect", "list", "probe"}

TypeOK ==
    /\ platform \in Seq(Repos) /\ IsInjective(platform)
    /\ client \in Clients /\ discovery \in Specs
    /\ pc \in Requests \cup {"done"}
    /\ endpoint \in {"none", "installation", "org", "user"}
    /\ page \in Nat \ {0} /\ path \in DOMAIN ConfigPaths
    /\ all \in Seq(Repos) /\ out \in Seq(Repos) /\ found \in Seq(Repos)
    /\ outcome \in {"none", "found", "empty", "failed"}
    /\ pc = "done" <=> outcome # "none"
    /\ cause \in [at : Requests \cup {"none"}, answer : Answers \cup {"notFound", "none"}]
    /\ faults \in 0..MaxFaults /\ changes \in 0..MaxChanges
    /\ start \subseteq known /\ known \subseteq Repos
    /\ ToSet(platform) \subseteq known
    /\ shifts \subseteq {"added", "removed"}

(* What spec.discovery asks for, of the repositories of the Run's owner.        *)
Eligible(r) ==
    /\ Attr[r].owner = discoveryOwner
    /\ Attr[r].archived => discovery.skipArchived = "false"
    /\ Attr[r].fork => discovery.skipForks = "false"
    /\ client = "forgejo" \/ discovery.topics = {} \/ Attr[r].topics \cap discovery.topics # {}
    /\ discovery.patterns = <<>> \/ \E i \in DOMAIN discovery.patterns : r \in discovery.patterns[i].matches
    /\ Attr[r].config = {} => discovery.requireConfig = "false"

(* Discover "enumerates the repos that survive filter/topics/skipForks/         *)
(* skipArchived": what it returns is eligible, and, however retries, new          *)
(* repositories and fallbacks shuffle the pages, every eligible repository that   *)
(* was there from the start is in it.  Two premises: nothing is removed during    *)
(* the attempt (a removal moves the next page's first repository to the page      *)
(* before), and the platform serves pages as large as the client asks for.        *)
FindsTheEligible ==
    outcome \in {"found", "empty"} =>
        /\ ToSet(found) \subseteq {r \in known : Eligible(r)}
        /\ "removed" \notin shifts /\ ServerLimit >= PageSize =>
              {r \in start : Eligible(r)} \subseteq ToSet(found)

(* A repository is returned once, so that one worker gets it: retries start      *)
(* from nothing.  A repository added during the listing can push another to a     *)
(* second page, and that one is returned, and sharded, twice.                     *)
NoRepoTwice == "added" \notin shifts => IsInjective(found)

(* ErrTransient is "any condition that's likely to clear on its own: network      *)
(* blip, primary/secondary rate limit, 5xx. Reconcilers requeue": a Run fails in   *)
(* discovery only when repeating it is hopeless, because the platform refuses or   *)
(* the owner has neither an organisation nor a user account.  Two exceptions of    *)
(* the code: GitHub's classifyErr takes no answer for a permanent error, and a     *)
(* Forgejo client that cannot be made is never tried again.                        *)
FailsOnlyWhenHopeless ==
    outcome = "failed" =>
        \/ cause.answer \in {"unauthorized", "clientError"}
        \/ cause.answer = "notFound" /\ OwnerKind[discoveryOwner] = "none"
        \/ cause.answer = "network" /\ client # "forgejo"
        \/ cause.at = "connect"

(* The paging loops have no bound of their own, yet discovery comes to an end.     *)
DiscoveryEnds == <>(outcome # "none")
=============================================================================
