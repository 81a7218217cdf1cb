---- MODULE ReleasePipelineProofs ----
(* Theorems about ReleasePipeline, for every set of branches, runs and       *)
(* versions, and any number of commits and deployments.                      *)
EXTENDS ReleasePipeline, TLAPS

VersionOn(i) == commits[main[i]].version

\* Main's changelog describes the versions that main has had, and no other one.
EntriesAreVersions ==
    \A i \in DOMAIN main : commits[main[i]].entries = {VersionOn(k) : k \in 1 .. i}

AllVersionsRise == \A i, k \in DOMAIN main : i < k => Above(VersionOn(k), VersionOn(i))

BranchedFromMain == \A b \in Branches : \E i \in DOMAIN main : branch[b].base = main[i]

DescribesItself(b) ==
    /\ BaseOf(b).entries \subseteq HeadOf(b).entries
    /\ HeadOf(b).entries \subseteq BaseOf(b).entries \cup {HeadOf(b).version}

\* A green branch has a version of its own and describes it: another merge would
\* have touched the same lines, so its base is main's tip when it is merged.
GreenIsBumped(b) ==
    branch[b].green => /\ Above(HeadOf(b).version, BaseOf(b).version)
                       /\ HeadOf(b).version \in HeadOf(b).entries

VersionInv == /\ EntriesAreVersions
              /\ AllVersionsRise
              /\ BranchedFromMain
              /\ \A b \in Branches : DescribesItself(b) /\ GreenIsBumped(b)

\* What verify and test have let through, and what the smoke tests have seen.
RunSound(r) ==
    /\ At(r, "deploy") /\ run[r].tag # None =>
        /\ run[r].commit \in reachable
        /\ commits[run[r].commit].sound
        /\ commits[run[r].commit].version = run[r].tag
    /\ production.by = r /\ run[r].phase \in {"index", "green"} => production.functions
    /\ production.by = r /\ At(r, "green") => production.index

DeploymentInv == /\ OnlyReleasedCode
                 /\ \A r \in Runs : RunSound(r)

----
LEMMA AboveTransitive ==
    ASSUME NEW u \in Versions, NEW v \in Versions, NEW w \in Versions,
           Above(u, v), Above(v, w)
    PROVE  Above(u, w)
  BY VersionsType DEF Above

LEMMA AboveIrreflexive == \A v \in Versions : ~Above(v, v)
  BY VersionsType DEF Above

LEMMA BumpedIsAbove ==
    ASSUME NEW old \in Versions, NEW bumped \in Versions, Bumped(old, bumped)
    PROVE  Above(bumped, old)
<1> old = <<old[1], old[2], old[3]>> /\ bumped = <<bumped[1], bumped[2], bumped[3]>>
  BY VersionsType
<1> old[1] \in Nat /\ old[2] \in Nat /\ old[3] \in Nat
  BY VersionsType
<1> bumped[1] \in Nat /\ bumped[2] \in Nat /\ bumped[3] \in Nat
  BY VersionsType
<1> QED
  BY DEF Bumped, Above

----
LEMMA InitPipelineTypeOK == PipelineInit => PipelineTypeOK
  BY FirstVersionType
  DEF PipelineInit, PipelineTypeOK, Commits, Numbers, RunIn, Phases

\* A commit is appended: the numbers of the others stay good.
LEMMA Committed ==
    ASSUME commits \in Seq(Commits), NEW commit \in Commits, Commit(commit)
    PROVE  /\ commits' \in Seq(Commits)
           /\ Len(commits') = Len(commits) + 1
           /\ Numbers' = Numbers \cup {Len(commits')}
           /\ Len(commits') \notin Numbers
           /\ commits'[Len(commits')] = commit
           /\ \A c \in Numbers : commits'[c] = commits[c]
  BY DEF Commit, Numbers

LEMMA CommitTypes ==
    ASSUME PipelineTypeOK
    PROVE  /\ Tip \in Commits /\ main[Len(main)] \in Numbers /\ Len(main) \in DOMAIN main
           /\ \A b \in Branches : BaseOf(b) \in Commits /\ HeadOf(b) \in Commits
           /\ \A i \in DOMAIN main : /\ main[i] \in Numbers
                                     /\ commits[main[i]] \in Commits
                                     /\ VersionOn(i) \in Versions
<1>1. \A c \in Numbers : commits[c] \in Commits
  BY DEF PipelineTypeOK, Numbers
<1>2. \A i \in DOMAIN main : main[i] \in Numbers
  BY DEF PipelineTypeOK
<1>3. Len(main) \in DOMAIN main
  BY DEF PipelineTypeOK
<1>4. \A b \in Branches : branch[b].base \in Numbers /\ branch[b].head \in Numbers
  BY DEF PipelineTypeOK
<1>5. \A i \in DOMAIN main : VersionOn(i) \in Versions
  BY <1>1, <1>2 DEF Commits, VersionOn
<1> QED
  BY <1>1, <1>2, <1>3, <1>4, <1>5 DEF Tip, BaseOf, HeadOf

LEMMA RunTypes ==
    ASSUME PipelineTypeOK, NEW r \in Runs, NEW phase \in Phases, Enter(r, phase)
    PROVE  run' \in [Runs -> [phase : Phases, tag : Versions \cup {None}, commit : Numbers]]
<1>1. 1 \in Numbers
  BY DEF PipelineTypeOK, Numbers
<1>2. RunIn(phase) \in [phase : Phases, tag : Versions \cup {None}, commit : Numbers]
  BY <1>1 DEF RunIn
<1> QED
  BY <1>2 DEF PipelineTypeOK, Enter

LEMMA NextPipelineTypeOK == PipelineTypeOK /\ [PipelineNext]_pipelineVars => PipelineTypeOK'
<1> SUFFICES ASSUME PipelineTypeOK, [PipelineNext]_pipelineVars
             PROVE  PipelineTypeOK'
  OBVIOUS
<1> USE DEF PipelineTypeOK
<1> DEFINE Branch == [base : Numbers, head : Numbers, green : BOOLEAN]
<1> DEFINE Progress == [phase : Phases, tag : Versions \cup {None}, commit : Numbers]
<1> DEFINE Production == [by : Runs \cup {None}, tag : Versions \cup {None},
                          api : Numbers, package : Numbers,
                          functions : BOOLEAN, index : BOOLEAN]
<1>1. ASSUME NEW b \in Branches, NEW v \in Versions, Push(b, v)
      PROVE  PipelineTypeOK'
  <2>1. PICK base \in {branch[b].base, main[Len(main)]}, described \in BOOLEAN,
             sound \in BOOLEAN :
           /\ Commit([version |-> v, sound |-> sound,
                      entries |-> commits[base].entries
                                     \cup (IF described THEN {v} ELSE {})])
           /\ branch' = [branch EXCEPT ![b] =
                           [base |-> base, head |-> Len(commits'), green |-> FALSE]]
           /\ UNCHANGED <<main, reachable, run, production>>
    BY <1>1 DEF Push
  <2> DEFINE commit == [version |-> v, sound |-> sound,
                        entries |-> commits[base].entries
                                       \cup (IF described THEN {v} ELSE {})]
  <2>2. base \in Numbers
    BY CommitTypes
  <2>3. commit \in Commits
    <3>1. commits[base] \in Commits
      BY <2>2 DEF Numbers
    <3> QED
      BY <3>1 DEF Commits
  <2> HIDE DEF commit
  <2>4. Commit(commit)
    BY <2>1 DEF commit
  <2>5. /\ commits' \in Seq(Commits)
        /\ Numbers' = Numbers \cup {Len(commits')}
    BY <2>3, <2>4, Committed
  <2> QED
    BY <2>1, <2>2, <2>5
<1>2. ASSUME NEW b \in Branches, Gate(b)
      PROVE  PipelineTypeOK'
  <2>1. PassesGate(b) \in BOOLEAN
    BY DEF PassesGate
  <2>2. branch' \in [Branches -> Branch]
    BY <1>2, <2>1 DEF Gate
  <2> QED
    BY <1>2, <2>2 DEF Gate, Numbers
<1>3. ASSUME NEW b \in Branches, Merge(b)
      PROVE  PipelineTypeOK'
  <2>1. PICK sound \in BOOLEAN :
           Commit([version |-> MergedVersion(b), entries |-> MergedEntries(b),
                   sound |-> sound])
    <3>1. HeadOf(b).sound \in BOOLEAN
      BY CommitTypes DEF Commits
    <3> QED
      BY <1>3, <3>1 DEF Merge
  <2> DEFINE commit == [version |-> MergedVersion(b), entries |-> MergedEntries(b),
                        sound |-> sound]
  <2>2. commit \in Commits
    BY CommitTypes DEF Commits, MergedVersion, MergedEntries
  <2> HIDE DEF commit
  <2>3. Commit(commit)
    BY <2>1 DEF commit
  <2>4. /\ commits' \in Seq(Commits)
        /\ Numbers' = Numbers \cup {Len(commits')}
    BY <2>2, <2>3, Committed
  <2>5. main' \in Seq(Numbers') /\ main' # << >>
    BY <1>3, <2>4 DEF Merge
  <2>6. branch' \in [Branches -> Branch]' /\ reachable' \subseteq Numbers'
    BY <1>3, <2>4 DEF Merge
  <2> QED
    BY <1>3, <2>4, <2>5, <2>6 DEF Merge
<1>4. ASSUME NEW r \in Runs, NEW c \in Numbers, VerifyAndTest(r, c)
      PROVE  PipelineTypeOK'
  <2>1. run' \in [Runs -> Progress]
    BY <1>4 DEF VerifyAndTest, Phases
  <2> QED
    BY <1>4, <2>1 DEF VerifyAndTest, Numbers
<1>5. ASSUME NEW r \in Runs, Deploy(r)
      PROVE  PipelineTypeOK'
  <2>1. run' \in [Runs -> Progress]
    BY <1>5, RunTypes DEF Deploy, Phases
  <2>2. production' \in Production
    BY <1>5 DEF Deploy
  <2> QED
    BY <1>5, <2>1, <2>2 DEF Deploy, Numbers
<1>6. ASSUME NEW r \in Runs, SmokeTestHealth(r) \/ SmokeTestIndex(r) \/ Fail(r)
      PROVE  PipelineTypeOK'
  <2>1. PICK phase \in Phases : Enter(r, phase)
    BY <1>6 DEF SmokeTestHealth, SmokeTestIndex, Fail, Phases
  <2>2. run' \in [Runs -> Progress]
    BY <2>1, RunTypes
  <2> QED
    BY <1>6, <2>2 DEF SmokeTestHealth, SmokeTestIndex, Fail, Numbers
<1>7. CASE UNCHANGED pipelineVars
  BY <1>7 DEF pipelineVars, Numbers
<1> QED
  BY <1>1, <1>2, <1>3, <1>4, <1>5, <1>6, <1>7 DEF PipelineNext

\* Every variable stays of its kind: no merge, gate or deployment refers to a
\* commit that was never pushed.
THEOREM PipelineTypes == PipelineSpec => []PipelineTypeOK
<1>1. PipelineInit => PipelineTypeOK
  BY InitPipelineTypeOK
<1>2. PipelineTypeOK /\ [PipelineNext]_pipelineVars => PipelineTypeOK'
  BY NextPipelineTypeOK
<1> QED
  BY <1>1, <1>2, PTL DEF PipelineSpec

----
LEMMA InitDeploymentInv == PipelineInit => DeploymentInv
  BY NoneIsNoVersion, FirstVersionType
  DEF PipelineInit, DeploymentInv, OnlyReleasedCode, RunSound, RunIn, At

\* Deployments are not disturbed by what happens to branches and to main.
LEMMA DeploymentsStay ==
    ASSUME PipelineTypeOK, DeploymentInv,
           \A c \in Numbers : commits'[c] = commits[c],
           reachable \subseteq reachable', UNCHANGED <<run, production>>
    PROVE  DeploymentInv'
<1>1. \A r \in Runs : run[r].commit \in Numbers
  BY DEF PipelineTypeOK
<1>2. production.api \in Numbers
  BY DEF PipelineTypeOK
<1>3. OnlyReleasedCode'
  BY <1>2 DEF DeploymentInv, OnlyReleasedCode
<1>4. ASSUME NEW r \in Runs
      PROVE  RunSound(r)'
  BY <1>1, <1>4 DEF DeploymentInv, RunSound, At
<1> QED
  BY <1>3, <1>4 DEF DeploymentInv

LEMMA NextDeploymentInv ==
    PipelineTypeOK /\ DeploymentInv /\ [PipelineNext]_pipelineVars => DeploymentInv'
<1> SUFFICES ASSUME PipelineTypeOK, DeploymentInv, [PipelineNext]_pipelineVars
             PROVE  DeploymentInv'
  OBVIOUS
<1> USE DEF DeploymentInv
<1>t. run \in [Runs -> [phase : Phases, tag : Versions \cup {None}, commit : Numbers]]
  BY DEF PipelineTypeOK
<1>1. ASSUME NEW b \in Branches, NEW v \in Versions, Push(b, v)
      PROVE  DeploymentInv'
  <2>1. PICK commit : commits' = Append(commits, commit)
    BY <1>1 DEF Push, Commit
  <2>2. \A c \in Numbers : commits'[c] = commits[c]
    BY <2>1 DEF PipelineTypeOK, Numbers
  <2> QED
    BY <1>1, <2>2, DeploymentsStay DEF Push
<1>2. ASSUME NEW b \in Branches, Gate(b)
      PROVE  DeploymentInv'
  BY <1>2, DeploymentsStay DEF Gate
<1>3. ASSUME NEW b \in Branches, Merge(b)
      PROVE  DeploymentInv'
  <2>1. PICK commit : commits' = Append(commits, commit)
    BY <1>3 DEF Merge, Commit
  <2>2. \A c \in Numbers : commits'[c] = commits[c]
    BY <2>1 DEF PipelineTypeOK, Numbers
  <2> QED
    BY <1>3, <2>2, DeploymentsStay DEF Merge
<1>4. ASSUME NEW r \in Runs, NEW c \in Numbers, VerifyAndTest(r, c)
      PROVE  DeploymentInv'
  <2>1. PICK tag : /\ Verified(tag, c)
                   /\ commits[c].sound
                   /\ run' = [run EXCEPT ![r] = [phase |-> "deploy", tag |-> tag,
                                                 commit |-> c]]
    BY <1>4 DEF VerifyAndTest
  <2>2. OnlyReleasedCode'
    BY <1>4 DEF VerifyAndTest, OnlyReleasedCode
  <2>3. ASSUME NEW s \in Runs
        PROVE  RunSound(s)'
    BY <1>t, <1>4, <2>1, <2>3 DEF VerifyAndTest, RunSound, At, Verified
  <2> QED
    BY <2>2, <2>3
<1>5. ASSUME NEW r \in Runs, Deploy(r)
      PROVE  DeploymentInv'
  <2>1. RunSound(r)
    OBVIOUS
  <2>2. OnlyReleasedCode'
    BY <1>5, <2>1 DEF Deploy, OnlyReleasedCode, RunSound, At
  <2>3. ASSUME NEW s \in Runs
        PROVE  RunSound(s)'
    BY <1>t, <1>5, <2>3 DEF Deploy, RunSound, At, Enter, RunIn
  <2> QED
    BY <2>2, <2>3
<1>6. ASSUME NEW r \in Runs, SmokeTestHealth(r) \/ SmokeTestIndex(r) \/ Fail(r)
      PROVE  DeploymentInv'
  <2>1. OnlyReleasedCode'
    BY <1>6 DEF SmokeTestHealth, SmokeTestIndex, Fail, OnlyReleasedCode
  <2>2. ASSUME NEW s \in Runs
        PROVE  RunSound(s)'
    <3>1. CASE s # r
      BY <1>t, <1>6, <2>2, <3>1
      DEF SmokeTestHealth, SmokeTestIndex, Fail, RunSound, At, Enter, RunIn
    <3>2. CASE s = r
      BY <1>t, <1>6, <2>2, <3>2
      DEF SmokeTestHealth, SmokeTestIndex, Fail, RunSound, At, Enter, RunIn
    <3> QED
      BY <3>1, <3>2
  <2> QED
    BY <2>1, <2>2
<1>7. CASE UNCHANGED pipelineVars
  BY <1>7, DeploymentsStay DEF pipelineVars
<1> QED
  BY <1>1, <1>2, <1>3, <1>4, <1>5, <1>6, <1>7 DEF PipelineNext

LEMMA DeploymentInvariant == PipelineSpec => [](PipelineTypeOK /\ DeploymentInv)
<1>1. PipelineInit => PipelineTypeOK /\ DeploymentInv
  BY InitPipelineTypeOK, InitDeploymentInv
<1>2. PipelineTypeOK /\ DeploymentInv /\ [PipelineNext]_pipelineVars
        => PipelineTypeOK' /\ DeploymentInv'
  BY NextPipelineTypeOK, NextDeploymentInv
<1> QED
  BY <1>1, <1>2, PTL DEF PipelineSpec

\* deploy.yml: what a tag put into production is one tested commit of main, of
\* the tag's version, whatever is merged or deployed at the same time.
THEOREM TagsDeployReleasedCode == PipelineSpec => []OnlyReleasedCode
<1>1. DeploymentInv => OnlyReleasedCode
  BY DEF DeploymentInv
<1> QED
  BY <1>1, DeploymentInvariant, PTL

\* action_deploy.yml: the run that deployed last is green only if the app serves
\* its functions and its own landing page.
THEOREM GreenRunsServe == PipelineSpec => []GreenMeansServing
<1>1. PipelineTypeOK /\ DeploymentInv => GreenMeansServing
  BY DEF PipelineTypeOK, DeploymentInv, RunSound, GreenMeansServing, At
<1> QED
  BY <1>1, DeploymentInvariant, PTL

----
LEMMA InitVersionInv == PipelineInit => VersionInv
<1> SUFFICES ASSUME PipelineInit
             PROVE  VersionInv
  OBVIOUS
<1>1. DOMAIN main = {1} /\ main[1] = 1
  BY DEF PipelineInit
<1>2. commits[1].version = FirstVersion /\ commits[1].entries = {FirstVersion}
  BY DEF PipelineInit
<1>3. \A i \in DOMAIN main : {VersionOn(k) : k \in 1 .. i} = {FirstVersion}
  BY <1>1, <1>2 DEF VersionOn
<1>4. EntriesAreVersions
  BY <1>1, <1>2, <1>3 DEF EntriesAreVersions
<1>5. AllVersionsRise
  BY <1>1 DEF AllVersionsRise
<1> QED
  BY <1>1, <1>4, <1>5
  DEF PipelineInit, VersionInv, BranchedFromMain, DescribesItself, GreenIsBumped,
      BaseOf, HeadOf

\* Two commits of main with the same entries are the same commit.
LEMMA EntriesTell ==
    ASSUME PipelineTypeOK, EntriesAreVersions, AllVersionsRise,
           NEW i \in DOMAIN main, NEW n \in DOMAIN main, i <= n,
           commits[main[n]].entries = commits[main[i]].entries
    PROVE  i = n
<1> SUFFICES ASSUME i < n
             PROVE  FALSE
  BY DEF PipelineTypeOK
<1>1. DOMAIN main = 1 .. Len(main)
  BY DEF PipelineTypeOK
<1>2. VersionOn(n) \in commits[main[n]].entries
  BY <1>1 DEF EntriesAreVersions
<1>3. PICK k \in 1 .. i : VersionOn(n) = VersionOn(k)
  BY <1>2 DEF EntriesAreVersions
<1>4. k \in DOMAIN main /\ k < n
  BY <1>1
<1>5. Above(VersionOn(n), VersionOn(k))
  BY <1>4 DEF AllVersionsRise
<1> QED
  BY <1>3, <1>5, CommitTypes, AboveIrreflexive

\* So do two with the same version.
LEMMA VersionsTell ==
    ASSUME PipelineTypeOK, AllVersionsRise,
           NEW i \in DOMAIN main, NEW n \in DOMAIN main, VersionOn(n) = VersionOn(i)
    PROVE  i = n
<1>1. i \in Nat /\ n \in Nat
  BY DEF PipelineTypeOK
<1>2. ~Above(VersionOn(n), VersionOn(n))
  BY CommitTypes, AboveIrreflexive
<1> QED
  BY <1>1, <1>2 DEF AllVersionsRise

\* The gate lets a branch through only if it bumps the version of its base.
LEMMA GateBumps ==
    ASSUME PipelineTypeOK, VersionInv, NEW b \in Branches, PassesGate(b)
    PROVE  /\ Above(HeadOf(b).version, BaseOf(b).version)
           /\ HeadOf(b).version \in HeadOf(b).entries
<1>1. /\ Tip \in Commits /\ BaseOf(b) \in Commits /\ HeadOf(b) \in Commits
      /\ Len(main) \in DOMAIN main
  BY CommitTypes
<1>2. Tip.version \in Versions /\ BaseOf(b).version \in Versions /\ HeadOf(b).version \in Versions
  BY <1>1 DEF Commits
<1>3. HeadOf(b).version # BaseOf(b).version
  BY DEF PassesGate, MergedVersion, Bumped
<1>4. MergedVersion(b) = HeadOf(b).version
  BY <1>3 DEF MergedVersion
<1>5. HeadOf(b).version # Tip.version
  BY <1>4 DEF PassesGate, Bumped
<1>6. Tip.version = BaseOf(b).version
  BY <1>3, <1>5 DEF PassesGate, Conflicts
<1>7. Above(HeadOf(b).version, BaseOf(b).version)
  BY <1>2, <1>4, <1>6, BumpedIsAbove DEF PassesGate
<1>8. PICK i \in DOMAIN main : branch[b].base = main[i]
  BY DEF VersionInv, BranchedFromMain
<1>9. i = Len(main)
  BY <1>1, <1>6, <1>8, VersionsTell DEF VersionInv, Tip, BaseOf, VersionOn
<1>10. Tip.entries = BaseOf(b).entries
  BY <1>8, <1>9 DEF Tip, BaseOf
<1>11. HeadOf(b).version \in Tip.entries \cup HeadOf(b).entries
  BY <1>4 DEF PassesGate, MergedEntries
<1> QED
  BY <1>7, <1>10, <1>11 DEF VersionInv, DescribesItself

\* A green branch that can be merged was branched from main's tip, and its
\* version is not one that main has had.
LEMMA GreenIsOnTip ==
    ASSUME PipelineTypeOK, VersionInv, NEW b \in Branches, branch[b].green, ~Conflicts(b)
    PROVE  /\ BaseOf(b) = Tip
           /\ MergedVersion(b) = HeadOf(b).version
           /\ Above(HeadOf(b).version, Tip.version)
           /\ MergedEntries(b) = Tip.entries \cup {HeadOf(b).version}
<1>1. Above(HeadOf(b).version, BaseOf(b).version) /\ HeadOf(b).version \in HeadOf(b).entries
  BY DEF VersionInv, GreenIsBumped
<1>2. HeadOf(b) \in Commits /\ BaseOf(b) \in Commits /\ Len(main) \in DOMAIN main
  BY CommitTypes
<1>3. HeadOf(b).version # BaseOf(b).version
  BY <1>1, <1>2, AboveIrreflexive DEF Commits
<1>4. PICK i \in DOMAIN main : branch[b].base = main[i]
  BY DEF VersionInv, BranchedFromMain
<1>5. DOMAIN main = 1 .. Len(main) /\ Len(main) \in Nat
  BY DEF PipelineTypeOK
<1>6. HeadOf(b).version \notin BaseOf(b).entries
  <2> SUFFICES ASSUME HeadOf(b).version \in BaseOf(b).entries
               PROVE  FALSE
    OBVIOUS
  <2>1. PICK k \in 1 .. i : HeadOf(b).version = VersionOn(k)
    BY <1>4 DEF VersionInv, EntriesAreVersions, BaseOf
  <2>2. k \in DOMAIN main /\ BaseOf(b).version = VersionOn(i)
    BY <1>4, <1>5 DEF BaseOf, VersionOn
  <2>3. VersionOn(k) \in Versions /\ VersionOn(i) \in Versions
    BY <2>2, CommitTypes
  <2>4. k = i \/ k < i
    BY <1>5, <2>1
  <2>5. VersionOn(k) = VersionOn(i) \/ Above(VersionOn(i), VersionOn(k))
    BY <2>2, <2>4 DEF VersionInv, AllVersionsRise
  <2> QED
    BY <1>1, <1>3, <2>1, <2>2, <2>3, <2>5, AboveTransitive, AboveIrreflexive
<1>7. HeadOf(b).entries = BaseOf(b).entries \cup {HeadOf(b).version}
  BY <1>1 DEF VersionInv, DescribesItself
<1>8. HeadOf(b).entries # BaseOf(b).entries
  BY <1>6, <1>7
<1>9. Tip.entries = BaseOf(b).entries
  BY <1>8 DEF Conflicts
<1>10. i = Len(main)
  BY <1>2, <1>4, <1>5, <1>9, EntriesTell DEF VersionInv, Tip, BaseOf
<1>11. BaseOf(b) = Tip
  BY <1>4, <1>10 DEF BaseOf, Tip
<1> QED
  BY <1>1, <1>3, <1>7, <1>11 DEF MergedVersion, MergedEntries

\* What a step that leaves main alone must keep.
LEMMA MainKept ==
    ASSUME PipelineTypeOK, VersionInv, UNCHANGED main,
           \A c \in Numbers : commits'[c] = commits[c]
    PROVE  /\ \A i \in DOMAIN main : VersionOn(i)' = VersionOn(i)
           /\ EntriesAreVersions' /\ AllVersionsRise'
<1>1. \A i \in DOMAIN main : main[i] \in Numbers
  BY CommitTypes
<1>2. \A i \in DOMAIN main : VersionOn(i)' = VersionOn(i)
  BY <1>1 DEF VersionOn
<1>3. ASSUME NEW i \in DOMAIN main
      PROVE  commits'[main[i]].entries = {VersionOn(k)' : k \in 1 .. i}
  <2>1. 1 .. i \subseteq DOMAIN main
    BY DEF PipelineTypeOK
  <2>2. commits'[main[i]].entries = {VersionOn(k) : k \in 1 .. i}
    BY <1>1 DEF VersionInv, EntriesAreVersions
  <2> QED
    BY <1>2, <2>1, <2>2
<1>4. EntriesAreVersions'
  BY <1>3 DEF EntriesAreVersions
<1>5. AllVersionsRise'
  BY <1>2 DEF VersionInv, AllVersionsRise
<1> QED
  BY <1>2, <1>4, <1>5

LEMMA BranchKept ==
    ASSUME PipelineTypeOK, VersionInv, NEW b \in Branches, branch'[b] = branch[b],
           \A c \in Numbers : commits'[c] = commits[c]
    PROVE  DescribesItself(b)' /\ GreenIsBumped(b)'
<1>1. branch[b].base \in Numbers /\ branch[b].head \in Numbers
  BY DEF PipelineTypeOK
<1>2. BaseOf(b)' = BaseOf(b) /\ HeadOf(b)' = HeadOf(b)
  BY <1>1 DEF BaseOf, HeadOf
<1> QED
  BY <1>2 DEF VersionInv, DescribesItself, GreenIsBumped

LEMMA PushVersionInv ==
    ASSUME PipelineTypeOK, VersionInv, NEW b \in Branches, NEW v \in Versions, Push(b, v)
    PROVE  VersionInv'
<1>1. PICK base \in {branch[b].base, main[Len(main)]}, described \in BOOLEAN,
           sound \in BOOLEAN :
         /\ Commit([version |-> v, sound |-> sound,
                    entries |-> commits[base].entries
                                   \cup (IF described THEN {v} ELSE {})])
         /\ branch' = [branch EXCEPT ![b] =
                         [base |-> base, head |-> Len(commits'), green |-> FALSE]]
         /\ UNCHANGED <<main, reachable, run, production>>
  BY DEF Push
<1> DEFINE commit == [version |-> v, sound |-> sound,
                      entries |-> commits[base].entries
                                     \cup (IF described THEN {v} ELSE {})]
<1>2. base \in Numbers
  BY CommitTypes DEF PipelineTypeOK
<1>3. commit \in Commits
  <2>1. commits[base] \in Commits
    BY <1>2 DEF PipelineTypeOK, Numbers
  <2> QED
    BY <2>1 DEF Commits
<1>4. commit.version = v /\ commits[base].entries \subseteq commit.entries
        /\ commit.entries \subseteq commits[base].entries \cup {v}
  OBVIOUS
<1> HIDE DEF commit
<1>5. Commit(commit)
  BY <1>1 DEF commit
<1>6. /\ commits'[Len(commits')] = commit
      /\ \A c \in Numbers : commits'[c] = commits[c]
  BY <1>3, <1>5, Committed DEF PipelineTypeOK
<1>7. EntriesAreVersions' /\ AllVersionsRise'
  BY <1>1, <1>6, MainKept
<1>8. branch' = [branch EXCEPT ![b] = branch'[b]]
        /\ branch'[b] = [base |-> base, head |-> Len(commits'), green |-> FALSE]
  BY <1>1 DEF PipelineTypeOK
<1>9. BranchedFromMain'
  <2>1. \E i \in DOMAIN main : base = main[i]
    BY CommitTypes DEF VersionInv, BranchedFromMain
  <2> QED
    BY <1>1, <1>8, <2>1 DEF VersionInv, BranchedFromMain
<1>10. ASSUME NEW c \in Branches
       PROVE  DescribesItself(c)' /\ GreenIsBumped(c)'
  <2>1. CASE c # b
    <3>1. branch'[c] = branch[c]
      BY <1>1, <2>1 DEF PipelineTypeOK
    <3> QED
      BY <3>1, <1>6, BranchKept
  <2>2. CASE c = b
    <3>1. BaseOf(b)' = commits[base] /\ HeadOf(b)' = commit
      BY <1>2, <1>6, <1>8 DEF BaseOf, HeadOf
    <3> QED
      BY <1>4, <1>8, <2>2, <3>1 DEF DescribesItself, GreenIsBumped
  <2> QED
    BY <2>1, <2>2
<1> QED
  BY <1>7, <1>9, <1>10 DEF VersionInv

LEMMA GateVersionInv ==
    ASSUME PipelineTypeOK, VersionInv, NEW b \in Branches, Gate(b)
    PROVE  VersionInv'
<1>1. branch' = [branch EXCEPT ![b].green = PassesGate(b)] /\ UNCHANGED <<commits, main>>
  BY DEF Gate
<1>2. EntriesAreVersions' /\ AllVersionsRise'
  BY <1>1, MainKept
<1>3. \A c \in Branches : branch'[c].base = branch[c].base /\ branch'[c].head = branch[c].head
  BY <1>1 DEF PipelineTypeOK
<1>4. \A c \in Branches : BaseOf(c)' = BaseOf(c) /\ HeadOf(c)' = HeadOf(c)
  BY <1>1, <1>3 DEF BaseOf, HeadOf
<1>5. BranchedFromMain'
  BY <1>1, <1>3 DEF VersionInv, BranchedFromMain
<1>6. ASSUME NEW c \in Branches
      PROVE  GreenIsBumped(c)'
  <2>1. CASE c # b
    BY <1>1, <1>4, <2>1 DEF PipelineTypeOK, VersionInv, GreenIsBumped
  <2>2. CASE c = b
    <3>1. branch'[b].green => PassesGate(b)
      BY <1>1 DEF PipelineTypeOK
    <3> QED
      BY <1>4, <2>2, <3>1, GateBumps DEF GreenIsBumped
  <2> QED
    BY <2>1, <2>2
<1> QED
  BY <1>2, <1>4, <1>5, <1>6 DEF VersionInv, DescribesItself

LEMMA MergeVersionInv ==
    ASSUME PipelineTypeOK, VersionInv, NEW b \in Branches, Merge(b)
    PROVE  VersionInv'
<1>1. PICK sound \in BOOLEAN :
         Commit([version |-> MergedVersion(b), entries |-> MergedEntries(b),
                 sound |-> sound])
  <2>1. HeadOf(b).sound \in BOOLEAN
    BY CommitTypes DEF Commits
  <2> QED
    BY <2>1 DEF Merge
<1> DEFINE commit == [version |-> MergedVersion(b), entries |-> MergedEntries(b),
                      sound |-> sound]
<1> DEFINE number == Len(commits')
<1>2. commit \in Commits
  BY CommitTypes DEF Commits, MergedVersion, MergedEntries
<1>3. /\ commit.version = HeadOf(b).version
      /\ Above(commit.version, Tip.version)
      /\ commit.entries = Tip.entries \cup {commit.version}
  BY GreenIsOnTip DEF Merge
<1> HIDE DEF commit
<1>4. Commit(commit)
  BY <1>1 DEF commit
<1>5. /\ commits'[number] = commit
      /\ \A c \in Numbers : commits'[c] = commits[c]
  BY <1>2, <1>4, Committed DEF PipelineTypeOK
<1>6. /\ main' = Append(main, number)
      /\ branch' = [branch EXCEPT ![b] = [base |-> number, head |-> number, green |-> FALSE]]
  BY DEF Merge
<1> HIDE DEF number
<1>t. PICK new_tip : new_tip = Len(main) + 1
  OBVIOUS
<1>7. /\ DOMAIN main = 1 .. Len(main) /\ Len(main) \in Nat
      /\ DOMAIN main' = DOMAIN main \cup {new_tip}
      /\ main'[new_tip] = number
      /\ \A i \in DOMAIN main : main'[i] = main[i]
  BY <1>6, <1>t DEF PipelineTypeOK
<1>8. \A i \in DOMAIN main : main[i] \in Numbers
  BY CommitTypes
<1>9. \A i \in DOMAIN main : VersionOn(i)' = VersionOn(i)
  BY <1>5, <1>7, <1>8 DEF VersionOn
<1>10. VersionOn(new_tip)' = commit.version
  BY <1>5, <1>7 DEF VersionOn
<1>11. EntriesAreVersions'
  <2>1. ASSUME NEW i \in DOMAIN main
        PROVE  commits'[main'[i]].entries = {VersionOn(k)' : k \in 1 .. i}
    <3>1. 1 .. i \subseteq DOMAIN main
      BY <1>7
    <3>2. commits'[main'[i]].entries = {VersionOn(k) : k \in 1 .. i}
      BY <1>5, <1>7, <1>8 DEF VersionInv, EntriesAreVersions
    <3> QED
      BY <1>9, <3>1, <3>2
  <2>2. commits'[main'[new_tip]].entries = {VersionOn(k)' : k \in 1 .. new_tip}
    <3>1. Tip.entries = {VersionOn(k) : k \in 1 .. Len(main)}
      BY CommitTypes DEF VersionInv, EntriesAreVersions, Tip
    <3>2. Tip.entries = {VersionOn(k)' : k \in 1 .. Len(main)}
      BY <1>7, <1>9, <3>1
    <3>3. 1 .. new_tip = (1 .. Len(main)) \cup {new_tip}
      BY <1>7, <1>t
    <3>4. commits'[main'[new_tip]].entries = Tip.entries \cup {VersionOn(new_tip)'}
      BY <1>3, <1>5, <1>7, <1>10
    <3> QED
      BY <3>2, <3>3, <3>4
  <2> QED
    BY <1>7, <2>1, <2>2 DEF EntriesAreVersions
<1>12. AllVersionsRise'
  <2>1. Tip.version = VersionOn(Len(main)) /\ Len(main) \in DOMAIN main
    BY CommitTypes DEF Tip, VersionOn
  <2>2. commit.version \in Versions /\ \A i \in DOMAIN main : VersionOn(i) \in Versions
    BY <1>2, CommitTypes DEF Commits
  <2>3. \A i \in DOMAIN main : i = Len(main) \/ Above(Tip.version, VersionOn(i))
    BY <1>7, <2>1 DEF VersionInv, AllVersionsRise
  <2>4. \A i \in DOMAIN main : Above(commit.version, VersionOn(i))
    BY <1>3, <2>1, <2>2, <2>3, AboveTransitive
  <2>5. ASSUME NEW i \in DOMAIN main', NEW k \in DOMAIN main', i < k
        PROVE  Above(VersionOn(k)', VersionOn(i)')
    <3>1. i \in DOMAIN main
      BY <1>7, <1>t, <2>5
    <3>2. CASE k \in DOMAIN main
      BY <1>9, <2>5, <3>1, <3>2 DEF VersionInv, AllVersionsRise
    <3>3. CASE k = new_tip
      BY <1>9, <1>10, <2>4, <3>1, <3>3
    <3> QED
      BY <1>7, <3>2, <3>3
  <2> QED
    BY <2>5 DEF AllVersionsRise
<1>13. ASSUME NEW c \in Branches
       PROVE  /\ \E i \in DOMAIN main' : branch'[c].base = main'[i]
              /\ DescribesItself(c)' /\ GreenIsBumped(c)'
  <2>1. CASE c # b
    <3>1. branch'[c] = branch[c]
      BY <1>6, <2>1 DEF PipelineTypeOK
    <3>2. \E i \in DOMAIN main' : branch'[c].base = main'[i]
      BY <1>7, <3>1 DEF VersionInv, BranchedFromMain
    <3> QED
      BY <3>1, <3>2, <1>5, BranchKept
  <2>2. CASE c = b
    <3>1. branch'[b] = [base |-> number, head |-> number, green |-> FALSE]
      BY <1>6 DEF PipelineTypeOK
    <3>2. \E i \in DOMAIN main' : branch'[b].base = main'[i]
      BY <1>7, <3>1
    <3>3. BaseOf(b)' = commit /\ HeadOf(b)' = commit
      BY <1>5, <3>1 DEF BaseOf, HeadOf
    <3> QED
      BY <2>2, <3>1, <3>2, <3>3 DEF DescribesItself, GreenIsBumped
  <2> QED
    BY <2>1, <2>2
<1> QED
  BY <1>11, <1>12, <1>13 DEF VersionInv, BranchedFromMain

LEMMA NextVersionInv ==
    PipelineTypeOK /\ VersionInv /\ [PipelineNext]_pipelineVars => VersionInv'
<1> SUFFICES ASSUME PipelineTypeOK, VersionInv, [PipelineNext]_pipelineVars
             PROVE  VersionInv'
  OBVIOUS
<1>1. ASSUME NEW b \in Branches, NEW v \in Versions, Push(b, v)
      PROVE  VersionInv'
  BY <1>1, PushVersionInv
<1>2. ASSUME NEW b \in Branches, Gate(b)
      PROVE  VersionInv'
  BY <1>2, GateVersionInv
<1>3. ASSUME NEW b \in Branches, Merge(b)
      PROVE  VersionInv'
  BY <1>3, MergeVersionInv
<1>4. ASSUME UNCHANGED <<commits, main, branch>>
      PROVE  VersionInv'
  <2>1. EntriesAreVersions' /\ AllVersionsRise'
    BY <1>4, MainKept
  <2>2. BranchedFromMain'
    BY <1>4 DEF VersionInv, BranchedFromMain
  <2> QED
    BY <1>4, <2>1, <2>2, BranchKept DEF VersionInv
<1>5. ASSUME NEW r \in Runs,
             \/ \E c \in Numbers : VerifyAndTest(r, c)
             \/ Deploy(r) \/ SmokeTestHealth(r) \/ SmokeTestIndex(r) \/ Fail(r)
      PROVE  UNCHANGED <<commits, main, branch>>
  BY <1>5 DEF VerifyAndTest, Deploy, SmokeTestHealth, SmokeTestIndex, Fail
<1>6. CASE UNCHANGED pipelineVars
  BY <1>4, <1>6 DEF pipelineVars
<1> QED
  BY <1>1, <1>2, <1>3, <1>4, <1>5, <1>6 DEF PipelineNext

\* Every merge bumps main's version, although the gate is not run again: a pull
\* request that others have overtaken either conflicts or is not green.
THEOREM MergesBumpVersion == PipelineSpec => []VersionsRise
<1>1. PipelineInit => PipelineTypeOK /\ VersionInv
  BY InitPipelineTypeOK, InitVersionInv
<1>2. PipelineTypeOK /\ VersionInv /\ [PipelineNext]_pipelineVars
        => PipelineTypeOK' /\ VersionInv'
  BY NextPipelineTypeOK, NextVersionInv
<1>3. PipelineTypeOK /\ VersionInv => VersionsRise
  <2> SUFFICES ASSUME PipelineTypeOK, AllVersionsRise, NEW i \in 2 .. Len(main)
               PROVE  Above(commits[main[i]].version, commits[main[i - 1]].version)
    BY DEF VersionInv, VersionsRise
  <2>1. i \in DOMAIN main /\ i - 1 \in DOMAIN main /\ i - 1 < i
    BY DEF PipelineTypeOK
  <2> QED
    BY <2>1 DEF AllVersionsRise, VersionOn
<1> QED
  BY <1>1, <1>2, <1>3, PTL DEF PipelineSpec
====
