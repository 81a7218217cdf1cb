---- MODULE ReleasePipeline ----
(* How a change reaches production: the pull-request gate                    *)
(* (workflow_pr_main.yml with scripts/version.sh and changelog.sh), and the  *)
(* deployment of a tag or of any commit on demand (deploy.yml,               *)
(* action_pytest.yml, action_deploy.yml).  Nothing orders two deployments.   *)
(* Git and GitHub are external: two branches that change the same lines      *)
(* conflict, a pull request is merged only when it is green, and main is     *)
(* changed in no other way.                                                  *)
EXTENDS Naturals, Sequences, FiniteSets, PythonNone

CONSTANTS Branches,     \* branches with an open pull request
          Runs,         \* runs of deploy.yml
          Versions,     \* the X.Y.Z that pyproject.toml may give, as <<X, Y, Z>>
          FirstVersion, \* the one that production runs in the beginning
          MaxEvents,    \* a bound: how many commits and deployments there are
          MaxUnsound    \* a bound: how many of the commits fail their tests

ASSUME VersionsType == Versions \subseteq Nat \X Nat \X Nat
ASSUME FirstVersionType == FirstVersion \in Versions
ASSUME NoneIsNoVersion == None \notin Versions
ASSUME BoundsType == MaxEvents \in Nat /\ MaxUnsound \in Nat

VARIABLES commits,     \* every commit that was pushed or merged
          main,        \* the commits that main pointed to, by their numbers
          reachable,   \* the commits that main's history contains
          branch,      \* branch[b]: its head and what it was branched from
          run,         \* run[r]: how far the deployment has got
          production   \* what the Function App serves

pipelineVars == <<commits, main, reachable, branch, run, production>>

Commits == [version : Versions,
            entries : SUBSET Versions,   \* the versions CHANGELOG.md describes
            sound : BOOLEAN]             \* does pytest pass?

Numbers == 1 .. Len(commits)

Phases == {"none", "deploy", "health", "index", "green", "red"}

RunIn(phase) == [phase |-> phase, tag |-> None, commit |-> 1]

PipelineTypeOK ==
    /\ commits \in Seq(Commits)
    /\ main \in Seq(Numbers) /\ main # << >>
    /\ reachable \subseteq Numbers
    /\ branch \in [Branches -> [base : Numbers, head : Numbers, green : BOOLEAN]]
    /\ run \in [Runs -> [phase : Phases, tag : Versions \cup {None}, commit : Numbers]]
    /\ production \in [by : Runs \cup {None}, tag : Versions \cup {None},
                       api : Numbers, package : Numbers,
                       functions : BOOLEAN, index : BOOLEAN]

PipelineInit ==
    /\ commits = << [version |-> FirstVersion, entries |-> {FirstVersion}, sound |-> TRUE] >>
    /\ main = <<1>>
    /\ reachable = {1}
    /\ branch = [b \in Branches |-> [base |-> 1, head |-> 1, green |-> FALSE]]
    /\ run = [r \in Runs |-> RunIn("none")]
    /\ production = [by |-> None, tag |-> None, api |-> 1, package |-> 1,
                     functions |-> TRUE, index |-> TRUE]

----
Tip == commits[main[Len(main)]]

BaseOf(b) == commits[branch[b].base]

HeadOf(b) == commits[branch[b].head]

\* External: git refuses to merge when both sides have changed the version line
\* to different texts, or have both added to the top of CHANGELOG.md.
Conflicts(b) ==
    \/ /\ HeadOf(b).version # BaseOf(b).version
       /\ Tip.version # BaseOf(b).version
       /\ HeadOf(b).version # Tip.version
    \/ HeadOf(b).entries # BaseOf(b).entries /\ Tip.entries # BaseOf(b).entries

MergedVersion(b) ==
    IF HeadOf(b).version = BaseOf(b).version THEN Tip.version ELSE HeadOf(b).version

MergedEntries(b) == Tip.entries \cup HeadOf(b).entries

\* Faulty variant: the components are compared one by one.
BumpedSomewhere(old, new) == new[1] > old[1] \/ new[2] > old[2] \/ new[3] > old[3]

\* version.sh
Bumped(old, new) ==
    /\ new # old
    /\ ~(old[1] > new[1])
    /\ ~(old[1] = new[1] /\ old[2] > new[2])
    /\ ~(old[1] = new[1] /\ old[2] = new[2] /\ old[3] > new[3])

\* Faulty variant: changelog.sh is not run.
PassesWithoutEntry(b) == ~Conflicts(b) /\ Bumped(Tip.version, MergedVersion(b))

\* action_changelog.yml on refs/pull/N/merge, whose first parent is main's tip;
\* there is no such ref, and no run, for a branch that conflicts.
PassesGate(b) ==
    /\ ~Conflicts(b)
    /\ Bumped(Tip.version, MergedVersion(b))
    /\ MergedVersion(b) \in MergedEntries(b)

----
Events == Len(commits) + Cardinality({r \in Runs : run[r] # RunIn("none")})

Unsound == Cardinality({c \in Numbers : ~commits[c].sound})

Commit(commit) == /\ Events < MaxEvents
                  /\ commit.sound \/ Unsound < MaxUnsound
                  /\ commits' = Append(commits, commit)

\* A branch gets a new head, rebased onto main's tip or not.  Assumption: it
\* describes no version in CHANGELOG.md but its own.
Push(b, v) ==
    \E base \in {branch[b].base, main[Len(main)]}, described, sound \in BOOLEAN :
        /\ Commit([version |-> v, sound |-> sound,
                   entries |-> commits[base].entries \cup (IF described THEN {v} ELSE {})])
        /\ branch' = [branch EXCEPT ![b] =
                        [base |-> base, head |-> Len(commits'), green |-> FALSE]]
        /\ UNCHANGED <<main, reachable, run, production>>

\* The pull request is opened, synchronized or reopened.
Gate(b) ==
    /\ branch' = [branch EXCEPT ![b].green = PassesGate(b)]
    /\ UNCHANGED <<commits, main, reachable, run, production>>

\* A green pull request is merged, with a merge commit; the gate is not run
\* again, whatever was merged since.  Two sound changes that touch
\* different lines may be unsound together.
Merge(b) ==
    /\ branch[b].green /\ ~Conflicts(b)
    /\ \E sound \in IF branch[b].base = main[Len(main)] THEN {HeadOf(b).sound} ELSE BOOLEAN :
        Commit([version |-> MergedVersion(b), entries |-> MergedEntries(b), sound |-> sound])
    /\ main' = Append(main, Len(commits'))
    /\ reachable' = reachable \cup {Len(commits'), branch[b].head}
    /\ branch' = [branch EXCEPT ![b] =
                    [base |-> Len(commits'), head |-> Len(commits'), green |-> FALSE]]
    /\ UNCHANGED <<run, production>>

----
At(r, phase) == run[r].phase = phase

Enter(r, phase) == run' = [run EXCEPT ![r] = RunIn(phase)]

\* Faulty variant: only the tag's name is looked at.
VerifiedByName(tag, c) == tag # None => tag = commits[c].version

\* verify: both steps are skipped for a run by hand, which has no tag.
Verified(tag, c) == tag # None => tag = commits[c].version /\ c \in reachable

\* Somebody pushes a tag v<X.Y.Z> on any commit, or runs deploy.yml by hand.  A
\* run that does not pass verify, or then test, ends without having done anything.
VerifyAndTest(r, c) ==
    /\ At(r, "none") /\ Events < MaxEvents
    /\ \E tag \in Versions \cup {None} :
        /\ Verified(tag, c)
        /\ commits[c].sound
        /\ run' = [run EXCEPT ![r] = [phase |-> "deploy", tag |-> tag, commit |-> c]]
    /\ UNCHANGED <<commits, main, reachable, branch, production>>

\* Faulty variant: requirements.txt is uploaded as it is, without the package.
DeployUnpinned(r) ==
    /\ At(r, "deploy")
    /\ \E functions, index \in BOOLEAN :
        production' = [by |-> r, tag |-> run[r].tag,
                       api |-> run[r].commit, package |-> None,
                       functions |-> functions, index |-> functions /\ index]
    /\ Enter(r, "health")
    /\ UNCHANGED <<commits, main, reachable, branch>>

\* deploy: the package is pinned to the commit whose api/ is uploaded.  The
\* upload succeeds also when the app is left without functions, or when GET /
\* shows Azure's placeholder page.
Deploy(r) ==
    /\ At(r, "deploy")
    /\ \E functions, index \in BOOLEAN :
        production' = [by |-> r, tag |-> run[r].tag,
                       api |-> run[r].commit, package |-> run[r].commit,
                       functions |-> functions, index |-> functions /\ index]
    /\ Enter(r, "health")
    /\ UNCHANGED <<commits, main, reachable, branch>>

\* The smoke tests look at whatever the app serves by then.
SmokeTestHealth(r) ==
    /\ At(r, "health")
    /\ Enter(r, IF production.functions THEN "index" ELSE "red")
    /\ UNCHANGED <<commits, main, reachable, branch, production>>

\* Faulty variant: a second look at /health in place of GET /.
SmokeTestHealthAgain(r) ==
    /\ At(r, "index")
    /\ Enter(r, IF production.functions THEN "green" ELSE "red")
    /\ UNCHANGED <<commits, main, reachable, branch, production>>

SmokeTestIndex(r) ==
    /\ At(r, "index")
    /\ Enter(r, IF production.index THEN "green" ELSE "red")
    /\ UNCHANGED <<commits, main, reachable, branch, production>>

\* A runner is lost or cancelled, or a step fails for a reason of its own.
Fail(r) ==
    /\ run[r].phase \notin {"none", "green", "red"}
    /\ Enter(r, "red")
    /\ UNCHANGED <<commits, main, reachable, branch, production>>

PipelineNext ==
    \/ \E b \in Branches : (\E v \in Versions : Push(b, v)) \/ Gate(b) \/ Merge(b)
    \/ \E r \in Runs, c \in Numbers : VerifyAndTest(r, c)
    \/ \E r \in Runs : Deploy(r) \/ SmokeTestHealth(r) \/ SmokeTestIndex(r) \/ Fail(r)

PipelineSpec == PipelineInit /\ [][PipelineNext]_pipelineVars

----
Above(v, w) == \/ v[1] > w[1]
               \/ v[1] = w[1] /\ v[2] > w[2]
               \/ v[1] = w[1] /\ v[2] = w[2] /\ v[3] > w[3]

\* workflow_pr_main.yml: the version "must be bumped (and not decreased) relative
\* to main".  It is, by every merge, although a pull request that turned green
\* before others were merged is not checked again.
VersionsRise ==
    \A i \in 2 .. Len(main) : Above(commits[main[i]].version, commits[main[i - 1]].version)

\* deploy.yml: no "silently deploying unreleased code" - what a tag put into
\* production is one commit of main, tested, of the tag's version, and both api/
\* and the package are of that commit, however deployments and merges interleave.
OnlyReleasedCode ==
    production.tag # None =>
        /\ production.api \in reachable
        /\ commits[production.api].sound
        /\ commits[production.api].version = production.tag
        /\ production.package = production.api

\* A green run means that the app works, until another one deploys: with several
\* deployments under way, the one that came last is green only if the app still
\* serves its own landing page.
GreenMeansServing ==
    production.by # None /\ At(production.by, "green") => production.functions /\ production.index
====
