-------------------------- MODULE CiArtifactProofs --------------------------
(***************************************************************************)
(* What a deployment copies to its router, for any number of processes,    *)
(* builds and branches.                                                    *)
(***************************************************************************)
EXTENDS CiArtifact, TLAPS

Acceptable(d) == Deliverable(call[d], BranchAsked(d)) \cup {Nothing}

\* The directory belongs to a download that has emptied it, until another process
\* changes it.
OwnDirectory ==
    \A d \in Deployers :
        pc[d] \in Fetching /\ d \notin mixed /\ path[d] \notin Packages
            => \A n \in Names : dir[n] \in Acceptable(d)

\* A package's own file name is never given to another package, and a download that has its
\* file from Blossom has one that it asked for.
OwnNames ==
    /\ \A a \in Packages : dir[a] \in {a, Junk, Nothing}
    /\ \A d \in Deployers : path[d] \in Packages => path[d] \in Acceptable(d)

ArtifactInv == TypeOK /\ OwnDirectory /\ OwnNames /\ StagedIsAsked

Local(d) ==
    /\ pc[d] \in {"download", "rerun", "again", "pick"} => runid[d] # "none"
    /\ pc[d] \in {"deps", "copy"} <=> path[d] # Nothing
    /\ staged[d] # Nothing => pc[d] = "idle"

Typed ==
    /\ pc \in [Deployers -> Fetching \cup {"idle", "ensure", "clear"}]
    /\ call \in [Deployers -> Operations]
    /\ dir \in [Names -> Files]
    /\ runid \in [Deployers -> {"none", "run", "blossom"}]
    /\ repo \in [Deployers -> {"fork", "upstream"}]
    /\ path \in [Deployers -> Names \cup {Nothing}]
    /\ staged \in [Deployers -> Files]
    /\ mixed \in SUBSET Deployers

LEMMA Halves == TypeOK <=> Typed /\ \A d \in Deployers : Local(d)
BY DEF TypeOK, Typed, Local

LEMMA NameFacts ==
    /\ Backends \subseteq Names /\ Portal \in Names
    /\ "tollgate" \in Names /\ "portal" \in Names
    /\ Junk \notin Names /\ Nothing \notin Names /\ Junk # Nothing
    /\ Packages \subseteq Names
    /\ "tollgate" \notin Packages /\ "portal" \notin Packages
BY MarkersApart, PackagesApart, FlatsApart DEF Names, Packages, Flats

LEMMA InitHolds == Init => ArtifactInv
BY NameFacts, ReposKnown, UsesKnown
DEF Init, ArtifactInv, TypeOK, OwnDirectory, OwnNames, StagedIsAsked, Files, Fetching

LEMMA TypedStep ==
    ASSUME Typed, NEW d \in Deployers, Local(d),
           (\E op \in Operations : Call(d, op)) \/ Step(d)
    PROVE  Typed'
<1> USE NameFacts, ReposKnown
    DEF Typed, Fetching, Operations, Files, Enter, Return, locals, Disturbed
<1>1. ASSUME NEW op \in Operations, Call(d, op)
      PROVE  Typed'
  BY <1>1 DEF Call
<1>2. CASE Ensure(d) \/ Clear(d) \/ Rerun(d)
  BY <1>2 DEF Ensure, Clear, Rerun, Leftovers, Leaving
<1>3. CASE Resolve(d)
  BY <1>3 DEF Resolve, FallBack, Fetched, Matches, NamedFor, Packages
<1>4. CASE FindRun(d)
  BY <1>4 DEF FindRun
<1>5. CASE Download(d)
  BY <1>5 DEF Download, RunArtifacts, BuildsOf, Packages
<1>6. CASE Pick(d)
  BY <1>6 DEF Pick, Fetched, Flat
<1>7. CASE Deps(d) \/ Copy(d) \/ Raises(d)
  BY <1>7 DEF Deps, Copy, Raises, Local
<1> QED
  BY <1>1, <1>2, <1>3, <1>4, <1>5, <1>6, <1>7 DEF Step

\* A step keeps its own process's control and locals together, and leaves those of the
\* others alone.
LEMMA LocalStep ==
    ASSUME Typed, NEW d \in Deployers, \A e \in Deployers : Local(e),
           (\E op \in Operations : Call(d, op)) \/ Step(d)
    PROVE  \A e \in Deployers : Local(e)'
<1> SUFFICES ASSUME NEW e \in Deployers
             PROVE  Local(e)'
  OBVIOUS
<1>0. Local(e) /\ Local(d)
  OBVIOUS
<1> USE NameFacts DEF Typed, Fetching, Files, Enter, Return, locals
<1>1. ASSUME NEW op \in Operations, Call(d, op)
      PROVE  Local(e)'
  BY <1>0, <1>1 DEF Call, Local
<1>2. CASE Ensure(d) \/ Clear(d) \/ Rerun(d)
  BY <1>0, <1>2 DEF Ensure, Clear, Rerun, Local
<1>3. CASE Resolve(d)
  BY <1>0, <1>3 DEF Resolve, FallBack, Fetched, Matches, NamedFor, Local
<1>4. CASE FindRun(d)
  BY <1>0, <1>4 DEF FindRun, Local
<1>5. CASE Download(d)
  BY <1>0, <1>5 DEF Download, Local
<1>6. CASE Pick(d)
  BY <1>0, <1>6 DEF Pick, Fetched, Flat, Local
<1>7. CASE Deps(d) \/ Copy(d) \/ Raises(d)
  BY <1>0, <1>7 DEF Deps, Copy, Raises, Local
<1> QED
  BY <1>1, <1>2, <1>3, <1>4, <1>5, <1>6, <1>7 DEF Step

\* Whoever changes the directory marks all others that are using it.
LEMMA DirectoryStep ==
    ASSUME Typed, OwnDirectory, NEW d \in Deployers, Local(d),
           (\E op \in Operations : Call(d, op)) \/ Step(d)
    PROVE  OwnDirectory'
<1> SUFFICES ASSUME NEW e \in Deployers, pc[e]' \in Fetching, e \notin mixed',
                    path[e]' \notin Packages, NEW n \in Names
             PROVE  dir[n]' \in Acceptable(e)'
  BY DEF OwnDirectory
<1> USE DEF Typed, Enter, Return, locals
<1>0. pc[e] \in Fetching /\ e \notin mixed /\ path[e] \notin Packages
          => dir[n] \in Acceptable(e)
  BY DEF OwnDirectory
<1>c. Acceptable(e)' = Acceptable(e)
  <2>1. call'[e] = call[e]
    <3>1. ASSUME NEW op \in Operations, Call(d, op)
          PROVE  call'[e] = call[e]
      BY <3>1 DEF Call, Fetching
    <3>2. CASE Ensure(d) \/ Clear(d) \/ Resolve(d) \/ FindRun(d) \/ Download(d)
      BY <3>2 DEF Ensure, Clear, Resolve, FindRun, Download
    <3>3. CASE Rerun(d) \/ Pick(d) \/ Deps(d) \/ Copy(d) \/ Raises(d)
      BY <3>3 DEF Rerun, Pick, Deps, Copy, Raises
    <3> QED
      BY <3>1, <3>2, <3>3 DEF Step
  <2> QED
    BY <2>1 DEF Acceptable, BranchAsked
<1> USE <1>c
<1>a. Nothing \in Acceptable(e) /\ Junk \in Acceptable(e)
  BY DEF Acceptable, Deliverable
<1>b. Nothing \notin Packages
  BY PackagesApart
<1>1. ASSUME NEW op \in Operations, Call(d, op)
      PROVE  dir[n]' \in Acceptable(e)
  BY <1>0, <1>1 DEF Call, Fetching
<1>2. CASE Clear(d) \/ Rerun(d)
  <2>1. PICK left \in Leftovers :
          /\ Leaving(left)
          /\ e = d => left = {}
    <3>1. CASE Clear(d)
      BY <3>1 DEF Clear
    <3>2. CASE Rerun(d)
      BY <3>2 DEF Rerun, Fetching
    <3> QED
      BY <1>2, <3>1, <3>2
  <2>2. CASE e = d
    BY <1>a, <2>1, <2>2 DEF Leaving
  <2>3. CASE e # d
    <3>1. pc[e]' = pc[e] /\ path[e]' = path[e] /\ Disturbed(d) \subseteq mixed'
      <4>1. CASE Clear(d)
        BY <2>3, <4>1 DEF Clear
      <4>2. CASE Rerun(d)
        BY <2>3, <4>2 DEF Rerun
      <4> QED
        BY <1>2, <4>1, <4>2
    <3> QED
      BY <2>3, <3>1 DEF Disturbed
  <2> QED
    BY <2>2, <2>3
<1>3. CASE Ensure(d)
  BY <1>0, <1>3 DEF Ensure, Fetching
<1>4. CASE Resolve(d)
  <2>1. call' = call /\ pc[d] \in Fetching
    BY <1>4 DEF Resolve, Fetching
  <2>2. CASE e # d
    BY <1>0, <1>4, <2>1, <2>2 DEF Resolve, FallBack, Fetched, Disturbed
  <2>3. CASE e = d
    <3>1. path[d] \notin Packages
      BY <1>4, <1>b DEF Resolve, Local
    <3>2. CASE FallBack(d) /\ UNCHANGED <<dir, mixed>>
      BY <1>0, <2>1, <2>3, <3>1, <3>2
    <3>3. ASSUME NEW a \in Matches(d, Pin[d]), Fetched(d, a)
          PROVE  dir[n]' \in Acceptable(e)
      BY <2>3, <3>3, <2>1 DEF Fetched, Fetching, Matches, NamedFor, Packages
    <3>4. ASSUME NEW a \in Matches(d, Pin[d]), dir' = [dir EXCEPT ![a] = Junk],
                 mixed' = mixed \cup Disturbed(d)
          PROVE  dir[n]' \in Acceptable(e)
      BY <1>0, <1>a, <2>1, <2>3, <3>1, <3>4
    <3> QED
      BY <1>4, <3>2, <3>3, <3>4 DEF Resolve
  <2> QED
    BY <2>2, <2>3
<1>5. CASE FindRun(d)
  BY <1>0, <1>5 DEF FindRun, Fetching
<1>6. CASE Download(d)
  <2>1. call' = call /\ pc[d] \in Fetching
    BY <1>6 DEF Download, Fetching
  <2>2. CASE e # d
    BY <1>0, <1>6, <2>1, <2>2 DEF Download, Disturbed
  <2>3. CASE e = d
    <3>1. dir[n] \in Acceptable(d)
      BY <1>0, <1>6, <1>b, <2>1, <2>3 DEF Download, Local
    <3>2. \A a \in RunArtifacts(d) : a \in Acceptable(d)
      BY <2>3 DEF RunArtifacts, BranchAsked, Acceptable, Deliverable
    <3> QED
      BY <1>6, <2>3, <3>1, <3>2 DEF Download
  <2> QED
    BY <2>2, <2>3
<1>7. CASE Pick(d)
  <2>1. call' = call /\ pc[d] \in Fetching
    BY <1>7 DEF Pick, Fetching
  <2>2. CASE e # d
    BY <1>0, <1>7, <2>1, <2>2 DEF Pick, Fetched, Disturbed
  <2>3. CASE e = d
    <3>1. \A m \in Names : dir[m] \in Acceptable(d)
      BY <1>7, <1>b, <2>1, <2>3 DEF Pick, OwnDirectory, Local
    <3> QED
      BY <1>7, <2>3, <3>1 DEF Pick
  <2> QED
    BY <2>2, <2>3
<1>8. CASE Deps(d) \/ Copy(d) \/ Raises(d)
  BY <1>0, <1>8 DEF Deps, Copy, Raises, Fetching
<1> QED
  BY <1>1, <1>2, <1>3, <1>4, <1>5, <1>6, <1>7, <1>8 DEF Step

LEMMA NamesStep ==
    ASSUME Typed, OwnNames, NEW d \in Deployers, \A e \in Deployers : Local(e),
           (\E op \in Operations : Call(d, op)) \/ Step(d)
    PROVE  OwnNames'
<1> USE NameFacts DEF Typed, Enter, Return, locals
<1>0. Nothing \notin Packages
  BY PackagesApart
<1>1. ASSUME NEW a \in Packages
      PROVE  dir[a]' \in {a, Junk, Nothing}
  <2>0. dir[a] \in {a, Junk, Nothing}
    BY DEF OwnNames
  <2>1. ASSUME NEW op \in Operations, Call(d, op)
        PROVE  dir[a]' \in {a, Junk, Nothing}
    BY <2>0, <2>1 DEF Call
  <2>2. CASE Clear(d) \/ Rerun(d)
    BY <2>0, <2>2 DEF Clear, Rerun, Leaving
  <2>3. CASE Resolve(d) \/ Download(d)
    BY <2>0, <2>3 DEF Resolve, Download
  <2>4. CASE Pick(d)
    BY <2>0, <2>4 DEF Pick, Flat
  <2>5. CASE Ensure(d) \/ FindRun(d) \/ Deps(d) \/ Copy(d) \/ Raises(d)
    BY <2>0, <2>5 DEF Ensure, FindRun, Deps, Copy, Raises
  <2> QED
    BY <2>1, <2>2, <2>3, <2>4, <2>5 DEF Step
<1>2. ASSUME NEW e \in Deployers, path[e]' \in Packages
      PROVE  path[e]' \in Acceptable(e)'
  <2>0. path[e] \in Packages => path[e] \in Acceptable(e)
    BY DEF OwnNames
  <2>1. call'[e] = call[e] => Acceptable(e)' = Acceptable(e)
    BY DEF Acceptable, BranchAsked
  <2>2. ASSUME NEW op \in Operations, Call(d, op)
        PROVE  path[e]' \in Acceptable(e)'
    <3>1. path' = path /\ path[d] = Nothing
      BY <2>2 DEF Call, Local
    <3>2. e # d
      BY <1>0, <1>2, <3>1
    <3> QED
      BY <1>2, <2>0, <2>1, <2>2, <3>1, <3>2 DEF Call
  <2>3. CASE Resolve(d)
    <3>1. call' = call
      BY <2>3 DEF Resolve
    <3>2. CASE path[e]' = path[e]
      BY <1>2, <2>0, <2>1, <3>1, <3>2
    <3>3. CASE path[e]' # path[e]
      <4>1. e = d /\ path[e]' \in Matches(d, Pin[d])
        BY <1>0, <1>2, <2>3, <3>3 DEF Resolve, FallBack, Fetched
      <4> QED
        BY <2>1, <3>1, <4>1 DEF Matches, Acceptable, Deliverable
    <3> QED
      BY <3>2, <3>3
  <2>4. CASE Pick(d)
    BY <1>0, <1>2, <2>0, <2>1, <2>4 DEF Pick, Fetched, Flat
  <2>5. CASE Ensure(d) \/ FindRun(d) \/ Download(d) \/ Clear(d) \/ Rerun(d)
    BY <1>0, <1>2, <2>0, <2>1, <2>5 DEF Ensure, FindRun, Download, Clear, Rerun
  <2>6. CASE Deps(d) \/ Copy(d) \/ Raises(d)
    BY <1>0, <1>2, <2>0, <2>1, <2>6 DEF Deps, Copy, Raises
  <2> QED
    BY <2>2, <2>3, <2>4, <2>5, <2>6 DEF Step
<1> QED
  BY <1>1, <1>2 DEF OwnNames

LEMMA StagedStep ==
    ASSUME Typed, OwnDirectory, OwnNames, StagedIsAsked, NEW d \in Deployers,
           \A e \in Deployers : Local(e),
           (\E op \in Operations : Call(d, op)) \/ Step(d)
    PROVE  StagedIsAsked'
<1> SUFFICES ASSUME NEW e \in Deployers, e \notin mixed'
             PROVE  staged[e]' \in Acceptable(e)'
  BY DEF StagedIsAsked, Acceptable
<1> USE DEF Typed, Enter, Return, locals
<1>0. e \notin mixed => staged[e] \in Acceptable(e)
  BY DEF StagedIsAsked, Acceptable
<1>a. Nothing \in Acceptable(e)
  BY DEF Acceptable
<1>c. call'[e] = call[e] => Acceptable(e)' = Acceptable(e)
  BY DEF Acceptable, BranchAsked
<1>1. ASSUME NEW op \in Operations, Call(d, op)
      PROVE  staged[e]' \in Acceptable(e)'
  <2>1. CASE e = d
    BY <1>1, <2>1 DEF Call, Acceptable
  <2>2. CASE e # d
    BY <1>0, <1>1, <1>c, <2>2 DEF Call
  <2> QED
    BY <2>1, <2>2
<1>2. CASE Clear(d)
  <2>1. CASE e = d
    BY <1>2, <1>a, <1>c, <2>1 DEF Clear, Local
  <2>2. CASE e # d
    BY <1>0, <1>2, <1>c, <2>2 DEF Clear
  <2> QED
    BY <2>1, <2>2
<1>3. CASE Ensure(d) \/ FindRun(d) \/ Download(d) \/ Rerun(d) \/ Pick(d)
           \/ Deps(d) \/ Raises(d)
  <2>1. call' = call /\ staged' = staged /\ mixed \subseteq mixed'
    BY <1>3 DEF Ensure, FindRun, Download, Rerun, Pick, Deps, Raises
  <2> QED
    BY <1>0, <1>c, <2>1
<1>5. CASE Resolve(d)
  <2>1. call' = call /\ staged' = staged /\ mixed \ {d} \subseteq mixed' /\ staged[d] = Nothing
    BY <1>5 DEF Resolve, Local
  <2> QED
    BY <1>0, <1>a, <1>c, <2>1
<1>4. CASE Copy(d)
  <2>1. CASE e = d
    <3>1. path[d] \in Names
      BY <1>4 DEF Copy, Local
    <3>2. dir[path[d]] \in Acceptable(d)
      <4>1. CASE path[d] \in Packages
        BY <1>a, <4>1 DEF OwnNames, Acceptable, Deliverable
      <4>2. CASE path[d] \notin Packages
        BY <1>4, <2>1, <3>1, <4>2 DEF Copy, OwnDirectory, Fetching
      <4> QED
        BY <4>1, <4>2
    <3> QED
      BY <1>4, <1>c, <2>1, <3>2 DEF Copy
  <2>2. CASE e # d
    BY <1>0, <1>4, <1>c, <2>2 DEF Copy
  <2> QED
    BY <2>1, <2>2
<1> QED
  BY <1>1, <1>2, <1>3, <1>4, <1>5 DEF Step

LEMMA NextHolds == ArtifactInv /\ [Next]_vars => ArtifactInv'
<1> SUFFICES ASSUME ArtifactInv, [Next]_vars
             PROVE  ArtifactInv'
  OBVIOUS
<1>0. Typed /\ (\A e \in Deployers : Local(e)) /\ OwnDirectory /\ OwnNames
      /\ StagedIsAsked
  BY Halves DEF ArtifactInv
<1>1. ASSUME NEW d \in Deployers, (\E op \in Operations : Call(d, op)) \/ Step(d)
      PROVE  ArtifactInv'
  <2>1. Typed'
    BY <1>0, <1>1, TypedStep
  <2>2. \A e \in Deployers : Local(e)'
    BY <1>0, <1>1, LocalStep
  <2>3. OwnDirectory' /\ OwnNames' /\ StagedIsAsked'
    BY <1>0, <1>1, DirectoryStep, NamesStep, StagedStep
  <2>4. TypeOK'
    BY <2>1, <2>2 DEF TypeOK, Typed, Local
  <2> QED
    BY <2>3, <2>4 DEF ArtifactInv
<1>2. CASE UNCHANGED vars
  BY <1>2 DEF vars, ArtifactInv, TypeOK, OwnDirectory, OwnNames, StagedIsAsked, Acceptable, BranchAsked
<1> QED
  BY <1>1, <1>2 DEF Next

\* BUILD_DIR, the locals of a download and the copy on the router fit together at every
\* step: a file is only copied where one has been chosen, a run is only asked for its
\* artifacts once one has been found.
THEOREM TypeCorrect == Spec => []TypeOK
<1>1. ArtifactInv => TypeOK
  BY DEF ArtifactInv
<1> QED
  BY <1>1, InitHolds, NextHolds, PTL DEF Spec

\* However a download got to its file, a deployment copies nothing to its router that
\* Deploy does not reckon with: never if the file comes from Blossom, whatever others do to
\* BUILD_DIR, and if it was picked from a CI run's files, unless those were not alone there,
\* because a removal had failed or another process has changed the directory since.
THEOREM DeployedBranch == Spec => []StagedIsAsked
<1>1. ArtifactInv => StagedIsAsked
  BY DEF ArtifactInv
<1> QED
  BY <1>1, InitHolds, NextHolds, PTL DEF Spec
=============================================================================
