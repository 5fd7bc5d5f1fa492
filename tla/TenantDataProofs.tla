---------------------------- MODULE TenantDataProofs ----------------------------
(***************************************************************************)
(* What of the tree is the tenant's own stays so: its data files, for      *)
(* every history of runs, faults and edits; the project block of its       *)
(* gitignore, for every history of overlapping runs whose writes end; and, *)
(* where one run works alone, every gitignore without a mark and every     *)
(* surface that conforms already.                                          *)
(*                                                                         *)
(* All follow a file from where a run reads it to where it writes it.  The *)
(* path of a write is one of the surfaces of the run's manifest            *)
(* (CompletePlanPaths).  The block of a planned gitignore is the one its   *)
(* owners left (BlockInv), because composing keeps the block of the file   *)
(* that was read (ProjectBlockSurvives) and owners wait for runs to end.   *)
(* What one run alone planned for the gitignore, it composed of the file   *)
(* that is still there (ReadInv).                                          *)
(*                                                                         *)
(* A write lays its contents over what the file holds by then.  It lands   *)
(* whole where the held file is a beginning of them, as it is from the     *)
(* truncation on if the runs that hold a file write the same (HeldInv).    *)
(***************************************************************************)
EXTENDS ProvisionerProofs

-------------------------------------------------------------------------------
(* The path of a write is a surface of the run's manifest.                   *)
LEMMA CurrentIsASurface ==
    ASSUME IInv, NEW r \in Runs, pc[r] \in {"write", "writing"},
           written[r] < Len(materials[r])
    PROVE  /\ Decoded(bound[r])
           /\ written[r] + 1 \in 1..Len(SurfaceOrder(bound[r]))
           /\ Current(r).path = SurfaceOrder(bound[r])[written[r] + 1]
           /\ Len(SurfaceOrder(bound[r])) = Len(materials[r])
  <1>1. /\ materials[r] \in Seq(PlannedMaterial)
        /\ Paths(materials[r]) = SurfaceOrder(bound[r])
    BY CompletePlanPaths
  <1>2. RunInv(r) /\ written[r] \in 0..Len(materials[r])
    BY DEF IInv, TypeOK
  <1>3. Decoded(bound[r])
    BY <1>2 DEF RunInv, Progress
  <1>4. Len(materials[r]) \in Nat /\ Len(Paths(materials[r])) = Len(materials[r])
    BY <1>1 DEF Paths
  <1>5. written[r] + 1 \in 1..Len(materials[r])
    BY <1>2, <1>4
  <1>6. QED
    BY <1>1, <1>3, <1>4, <1>5 DEF Paths, Current

(* A step changes the tree at the path a run holds or opens, or at a path an *)
(* owner writes.                                                             *)
Written(r) ==
    /\ pc[r] \in {"write", "writing"} /\ written[r] < Len(materials[r])
    /\ \E contents : Put(Current(r).path, contents)

LEMMA RunsWrite ==
    ASSUME IInv, NEW r \in Runs, Start(r) \/ RunStep(r) \/ Return(r) \/ FaultStep(r)
    PROVE  (tenant' = tenant \/ Written(r)) /\ authored' = authored
  <1>1. pc[r] = "writing" => written[r] < Len(materials[r])
    BY DEF IInv, RunInv
  <1>2. CASE OpenFile(r) \/ WriteFile(r) \/ WriteFails(r) \/ Crash(r)
    BY <1>1, <1>2 DEF OpenFile, WriteFile, WriteFails, Crash, PutsPart, Written,
       surroundings
  <1>3. CASE Start(r) \/ Return(r) \/ DecodeTenantBindings(r) \/ ResolveHomeRoot(r)
             \/ ChooseMode(r) \/ PlanReturns(r) \/ Confirm(r)
    BY <1>3 DEF Start, Return, DecodeTenantBindings, ResolveHomeRoot, ChooseMode,
       PlanReturns, Confirm, surroundings
  <1>4. CASE Decline(r) \/ Finish(r) \/ ReadFails(r) \/ OpenFails(r)
    BY <1>4 DEF Decline, Finish, ReadFails, OpenFails, surroundings
  <1>5. CASE PlanCallers(r) \/ PlanFileTopics(r) \/ PlanGitignore(r)
             \/ PlanCodeowners(r) \/ PlanConventions(r)
    BY <1>5 DEF PlanCallers, PlanFileTopics, PlanGitignore, PlanCodeowners,
       PlanConventions, PlanStep, surroundings
  <1>6. QED
    BY <1>2, <1>3, <1>4, <1>5 DEF RunStep, FaultStep

LEMMA FilesWritten ==
    ASSUME IInv, [Next]_vars
    PROVE  \/ tenant' = tenant /\ authored' = authored
           \/ \E r \in Runs : Written(r) /\ authored' = authored
           \/ \E path \in TenantPaths : \E contents : Author(path, contents)
  <1>1. CASE UNCHANGED vars
    BY <1>1 DEF vars, surroundings
  <1>2. ASSUME TenantStep
        PROVE  \E path \in TenantPaths : \E contents : Author(path, contents)
    BY <1>2, PathsAreTenantPaths
       DEF TenantStep, EditProjectBlock, RemoveUnmarked, Rebind, RepinTools
  <1>3. QED
    BY <1>1, <1>2, RunsWrite DEF Next

-------------------------------------------------------------------------------
(* Tenant data.                                                              *)
LEMMA TenantDataKept ==
    ASSUME TenantDataApart, IInv, TenantDataNeverWritten, [Next]_vars
    PROVE  TenantDataNeverWritten'
  <1> DEFINE Data == UNION {TenantDataPaths(b) : b \in Manifests}
  <1>1. SUFFICES ASSUME NEW path \in Data
                 PROVE  tenant'[path] = authored'[path]
    BY DEF TenantDataNeverWritten
  <1>2. tenant[path] = authored[path]
    BY DEF TenantDataNeverWritten
  <1>3. CASE tenant' = tenant /\ authored' = authored
    BY <1>2, <1>3
  <1>4. ASSUME NEW r \in Runs, Written(r), authored' = authored
        PROVE  tenant'[path] = authored'[path]
    <2>1. Current(r).path # path
      <3>1. /\ Decoded(bound[r])
            /\ Current(r).path \in BoundPaths(bound[r])
        BY <1>4, CurrentIsASurface DEF Written, BoundPaths, Range
      <3>2. QED
        BY <3>1 DEF TenantDataApart, Decoded
    <2>2. tenant \in [TenantPaths -> Contents \cup {Absent}]
      BY DEF IInv, TypeOK
    <2>3. tenant'[path] = tenant[path]
      BY <1>4, <2>1, <2>2 DEF Written, Put
    <2>4. QED
      BY <1>2, <1>4, <2>3
  <1>5. ASSUME NEW there \in TenantPaths, NEW contents, Author(there, contents)
        PROVE  tenant'[path] = authored'[path]
    <2>1. /\ tenant \in [TenantPaths -> Contents \cup {Absent}]
          /\ authored \in [TenantPaths -> Contents \cup {Absent}]
      BY DEF IInv, TypeOK
    <2>2. /\ tenant' = [tenant EXCEPT ![there] = contents]
          /\ authored' = [authored EXCEPT ![there] = contents]
      BY <1>5 DEF Author, Put
    <2>3. QED
      BY <1>2, <2>1, <2>2
  <1>6. QED
    BY <1>3, <1>4, <1>5, FilesWritten

(* No run of the CLI writes a file the tenant authors - its manifest, its    *)
(* config seam, its tooling module - however runs, partial writes, crashes   *)
(* and owners' edits and re-bindings follow each other, as long as the       *)
(* manifests keep their surfaces apart from it (provision.go:67-81).         *)
THEOREM TenantDataIsTheTenants ==
    ASSUME TenantDataApart
    PROVE  Spec => []TenantDataNeverWritten
  <1>1. Init => TenantDataNeverWritten
    BY DEF Init, TenantDataNeverWritten
  <1>2. IInv /\ TenantDataNeverWritten /\ [Next]_vars => TenantDataNeverWritten'
    BY TenantDataKept
  <1>3. QED
    BY <1>1, <1>2, InductiveInvariant, PTL DEF Spec

-------------------------------------------------------------------------------
(* The manifest a run goes by.                                               *)
RunMoves(r) == Start(r) \/ RunStep(r) \/ Return(r) \/ FaultStep(r)

OthersKeep(r) ==
    SameElsewhere(r) /\ \A s \in Runs \ {r} : exit'[s] = exit[s]

LEMMA OthersAreKept ==
    ASSUME IInv, NEW r \in Runs, RunMoves(r)
    PROVE  OthersKeep(r)
  <1> USE DEF Goto, ExitWith, surroundings, program, SameElsewhere, OthersKeep
  <1>1. /\ pc \in [Runs -> {"idle", "mode", "planned", "prompt", "write", "writing",
                            "exit"} \cup Reading]
        /\ flags \in [Runs -> Invocations \cup {None}]
        /\ bound \in [Runs -> Manifests \cup {None}]
        /\ homeRoot \in [Runs -> Releases \cup {None}]
        /\ applying \in [Runs -> BOOLEAN] /\ written \in [Runs -> Nat]
        /\ materials \in [Runs -> Seq([path : TenantPaths, contents : Contents])]
        /\ shown \in [Runs -> Seq(TenantPaths)]
        /\ exit \in [Runs -> {-1, 0, 1, 2}]
    BY DEF IInv, TypeOK
  <1>2. CASE Start(r) \/ DecodeTenantBindings(r) \/ ChooseMode(r)
    BY <1>1, <1>2 DEF Start, DecodeTenantBindings, ChooseMode
  <1>3. CASE ResolveHomeRoot(r)
    BY <1>1, <1>3 DEF ResolveHomeRoot
  <1>4. CASE PlanCallers(r) \/ PlanFileTopics(r) \/ PlanGitignore(r)
             \/ PlanCodeowners(r) \/ PlanConventions(r)
    BY <1>1, <1>4 DEF PlanCallers, PlanFileTopics, PlanGitignore, PlanCodeowners,
       PlanConventions, PlanStep
  <1>5. CASE PlanReturns(r) \/ Confirm(r)
    BY <1>1, <1>5 DEF PlanReturns, Confirm
  <1>6. CASE Decline(r) \/ Finish(r) \/ FaultStep(r)
    BY <1>1, <1>6 DEF Decline, Finish, FaultStep, ReadFails, OpenFails, WriteFails,
       Crash
  <1>7. CASE OpenFile(r) \/ WriteFile(r)
    BY <1>1, <1>7 DEF OpenFile, WriteFile
  <1>8. CASE Return(r)
    BY <1>1, <1>8 DEF Return
  <1>9. QED
    BY <1>2, <1>3, <1>4, <1>5, <1>6, <1>7, <1>8 DEF RunMoves, RunStep

(* A run that plans, writes or has written was bound by the manifest the tree*)
(* still holds.                                                              *)
BoundInv ==
    \A r \in Runs :
        pc[r] \notin {"idle", "decode", "exit"} \/ Applied(r) =>
            bound[r] = tenant[BindingsFileName][1].bindings

(* The manifest a run goes by is the one it has read (DecodeTenantBindings). *)
LEMMA BoundByReading ==
    ASSUME IInv, NEW r \in Runs, RunMoves(r),
           pc'[r] \notin {"idle", "decode", "exit"} \/ Applied(r)'
    PROVE  \/ bound'[r] = tenant[BindingsFileName][1].bindings
           \/ pc[r] \notin {"idle", "decode", "exit"} /\ bound'[r] = bound[r]
  <1> USE DEF Goto, ExitWith, surroundings, program, Applied
  <1>1. /\ pc \in [Runs -> {"idle", "mode", "planned", "prompt", "write", "writing",
                            "exit"} \cup Reading]
        /\ bound \in [Runs -> Manifests \cup {None}]
        /\ exit \in [Runs -> {-1, 0, 1, 2}]
    BY DEF IInv, TypeOK
  <1>2. CASE Start(r) \/ Return(r)
    BY <1>1, <1>2 DEF Start, Return
  <1>3. CASE DecodeTenantBindings(r)
    BY <1>1, <1>3 DEF DecodeTenantBindings
  <1>4. CASE ResolveHomeRoot(r) \/ ChooseMode(r)
    BY <1>1, <1>4 DEF ResolveHomeRoot, ChooseMode
  <1>5. CASE PlanCallers(r) \/ PlanFileTopics(r) \/ PlanGitignore(r)
             \/ PlanCodeowners(r) \/ PlanConventions(r)
    <2>1. CASE PlanCallers(r) \/ PlanFileTopics(r)
      BY <1>1, <2>1 DEF PlanCallers, PlanFileTopics, PlanStep
    <2>2. CASE PlanGitignore(r)
      BY <1>1, <2>2 DEF PlanGitignore, PlanStep
    <2>3. CASE PlanCodeowners(r) \/ PlanConventions(r)
      BY <1>1, <2>3 DEF PlanCodeowners, PlanConventions, PlanStep
    <2>4. QED
      BY <1>5, <2>1, <2>2, <2>3
  <1>6. CASE PlanReturns(r) \/ Confirm(r) \/ Decline(r)
    BY <1>1, <1>6 DEF PlanReturns, Confirm, Decline
  <1>7. CASE OpenFile(r) \/ WriteFile(r) \/ Finish(r)
    BY <1>1, <1>7 DEF OpenFile, WriteFile, Finish
  <1>8. CASE FaultStep(r)
    BY <1>1, <1>8 DEF FaultStep, ReadFails, OpenFails, WriteFails, Crash
  <1>9. QED
    BY <1>2, <1>3, <1>4, <1>5, <1>6, <1>7, <1>8 DEF RunMoves, RunStep

(* No run writes the manifest.                                               *)
LEMMA RunsSpareManifest ==
    ASSUME TenantDataApart, IInv, NEW r \in Runs, Written(r)
    PROVE  tenant'[BindingsFileName] = tenant[BindingsFileName]
  <1>1. Decoded(bound[r]) /\ Current(r).path \in BoundPaths(bound[r])
    BY CurrentIsASurface DEF Written, BoundPaths, Range
  <1>2. Current(r).path # BindingsFileName
    BY <1>1 DEF TenantDataApart, Decoded, TenantDataPaths
  <1>3. tenant \in [TenantPaths -> Contents \cup {Absent}]
    BY DEF IInv, TypeOK
  <1>4. BindingsFileName \in TenantPaths
    BY PathsAreTenantPaths
  <1>5. QED
    BY <1>2, <1>3, <1>4 DEF Written, Put

(* ... and no owner does while a run goes by it.                             *)
LEMMA NextKeepsBound ==
    ASSUME TenantDataApart, ~ EditsDuringRuns, IInv, BoundInv, [Next]_vars
    PROVE  BoundInv'
  <1> DEFINE file == tenant[BindingsFileName]
  <1>1. ASSUME NEW path \in TenantPaths, NEW contents, Author(path, contents)
        PROVE  BoundInv'
    BY <1>1 DEF Author, CanEdit, BoundInv, Applied
  <1>2. CASE file' = file
    <2>1. CASE UNCHANGED vars
      BY <2>1 DEF BoundInv, Applied, vars, program
    <2>2. ASSUME NEW r \in Runs, RunMoves(r)
          PROVE  BoundInv'
      <3>1. SUFFICES ASSUME NEW s \in Runs,
                            pc'[s] \notin {"idle", "decode", "exit"} \/ Applied(s)'
                     PROVE  bound'[s] = file[1].bindings
        BY <1>2 DEF BoundInv
      <3>2. CASE s = r
        BY <2>2, <3>1, <3>2, BoundByReading DEF BoundInv
      <3>3. CASE s # r
        <4>1. OthersKeep(r)
          BY <2>2, OthersAreKept
        <4>2. QED
          BY <3>1, <3>3, <4>1 DEF BoundInv, Applied, OthersKeep, SameElsewhere
      <3>4. QED
        BY <3>2, <3>3
    <2>3. ASSUME TenantStep
          PROVE  BoundInv'
      <3>1. \E path \in TenantPaths : \E contents : Author(path, contents)
        BY <2>3, PathsAreTenantPaths
           DEF TenantStep, EditProjectBlock, RemoveUnmarked, Rebind, RepinTools
      <3>2. QED
        BY <1>1, <3>1
    <2>4. QED
      BY <2>1, <2>2, <2>3 DEF Next, RunMoves
  <1>3. ASSUME NEW r \in Runs, Written(r)
        PROVE  file' = file
    BY <1>3, RunsSpareManifest
  <1>4. QED
    BY <1>1, <1>2, <1>3, FilesWritten

LEMMA InitBound == Init => BoundInv
  BY DEF Init, BoundInv, Applied

-------------------------------------------------------------------------------
(* A held file.  Between the truncation and the arrival of the contents other*)
(* runs may write it too; what lands is then laid over theirs (Landed).      *)

(* Over the beginning of itself a file lands whole.                          *)
LEMMA LandedWhole ==
    ASSUME NEW contents \in Contents, NEW existing \in Contents,
           IsPrefix(existing, contents)
    PROVE  Landed(contents, existing) = contents
  <1>1. contents \in Seq(Chunk) /\ existing \in Seq(Chunk) /\ existing # Absent
    BY AbsentAssumption DEF Contents
  <1>2. Len(existing) <= Len(contents) /\ Len(existing) \in Nat /\ Len(contents) \in Nat
    BY <1>1 DEF IsPrefix
  <1>3. After(existing, Len(contents)) = <<>>
    <2>1. Len(contents) + 1 \in Int /\ Len(existing) \in Int
          /\ Len(existing) < Len(contents) + 1
      BY <1>2
    <2>2. QED
      BY <2>1, SubSeqEmpty DEF After
  <1>4. QED
    BY <1>1, <1>3, ConcatEmptySeq DEF Landed

(* ... and so does a part of it as a part.                                   *)
LEMMA LandedPart ==
    ASSUME NEW contents \in Contents, NEW existing \in Contents,
           IsPrefix(existing, contents), NEW n \in 0..Len(contents)
    PROVE  /\ Landed(SubSeq(contents, 1, n), existing) # Absent
           /\ IsPrefix(Landed(SubSeq(contents, 1, n), existing), contents)
  <1> DEFINE part == SubSeq(contents, 1, n)
             m == Len(existing)
  <1>1. contents \in Seq(Chunk) /\ existing \in Seq(Chunk) /\ existing # Absent
        /\ m \in Nat /\ Len(contents) \in Nat
    BY AbsentAssumption DEF Contents
  <1>2. m <= Len(contents) /\ existing = SubSeq(contents, 1, m)
    BY <1>1, SubSeqFull DEF IsPrefix
  <1>3. part \in Contents /\ part \in Seq(Chunk) /\ Len(part) = n
    <2>1. part \in Contents
      BY PartType
    <2>2. \A i \in 1..n : contents[i] \in Chunk
      BY <1>1
    <2>3. Len(part) = IF 1 <= n THEN n - 1 + 1 ELSE 0
      BY <1>1, <2>2, SubSeqProperties
    <2>4. QED
      BY <2>1, <2>3 DEF Contents
  <1>4. IsPrefix(part, contents)
    BY <1>1, <1>3 DEF IsPrefix
  <1>5. CASE m <= n
    <2>1. After(existing, n) = <<>>
      BY <1>1, <1>5, SubSeqEmpty DEF After
    <2>2. part \o <<>> = part
      BY <1>3, ConcatEmptySeq
    <2>3. Landed(part, existing) = part /\ part # Absent
      BY <1>1, <1>3, <2>1, <2>2, AbsentAssumption DEF Landed
    <2>4. QED
      BY <1>4, <2>3
  <1>6. CASE n < m
    <2>1. /\ 1 \in 1..(Len(contents) + 1) /\ n \in (1 - 1)..Len(contents)
          /\ m \in n..Len(contents)
      BY <1>1, <1>2, <1>6
    <2>2. part \o SubSeq(contents, n + 1, m) = SubSeq(contents, 1, m)
      BY <1>1, <2>1, ConcatAdjacentSubSeq
    <2>3. SubSeq(existing, n + 1, m) = SubSeq(contents, n + 1, m)
      <3>1. /\ 1 \in 1..Len(contents) /\ m \in 1..Len(contents)
            /\ n + 1 \in 1..(m - 1 + 1) /\ m \in 1..(m - 1 + 1)
            /\ 1 + (n + 1) - 1 = n + 1 /\ 1 + m - 1 = m
        BY <1>1, <1>2, <1>6
      <3>2. SubSeq(SubSeq(contents, 1, m), n + 1, m)
               = SubSeq(contents, 1 + (n + 1) - 1, 1 + m - 1)
        BY <1>1, <3>1, SubSeqOfSubSeq
      <3>3. QED
        BY <1>2, <3>1, <3>2
    <2>4. Landed(part, existing) = existing
      <3>1. Landed(part, existing) = part \o SubSeq(existing, n + 1, m)
        BY <1>1, <1>3 DEF Landed, After
      <3> HIDE DEF part, m
      <3>2. QED
        BY <1>2, <2>2, <2>3, <3>1
    <2>5. QED
      BY <1>1, <2>4
  <1>7. QED
    BY <1>1, <1>5, <1>6

(* Over any file the contents land as its beginning.                         *)
LEMMA LandedBegins ==
    ASSUME NEW contents \in Contents, NEW existing \in Contents
    PROVE  /\ Landed(contents, existing) \in Contents
           /\ IsPrefix(contents, Landed(contents, existing))
  <1>1. contents \in Seq(Chunk) /\ existing \in Seq(Chunk) /\ existing # Absent
    BY AbsentAssumption DEF Contents
  <1>2. Landed(contents, existing) \in Contents \cup {Absent}
    BY LandedType
  <1> DEFINE rest == After(existing, Len(contents))
  <1>3. rest \in Seq(Chunk)
    <2>1. \A j \in (Len(contents) + 1)..Len(existing) : existing[j] \in Chunk
      BY <1>1
    <2>2. Len(contents) + 1 \in Int /\ Len(existing) \in Int
      BY <1>1
    <2>3. QED
      BY <2>1, <2>2, SubSeqProperties DEF After
  <1>4. Landed(contents, existing) = contents \o rest
    BY <1>1 DEF Landed
  <1> HIDE DEF rest
  <1>5. contents \o rest \in Contents
    BY <1>1, <1>3, ConcatProperties DEF Contents
  <1>6. QED
    BY <1>1, <1>3, <1>4, <1>5, PrefixOfConcat

GitignorePosition(b) == Len(b.callers) + 4

(* Whether a run is about to write its gitignore, or another surface.        *)
InHand(r, gitignore) ==
    IF gitignore THEN written[r] + 1 = GitignorePosition(bound[r])
    ELSE written[r] + 1 # GitignorePosition(bound[r])

(* A held file is there, and has the beginning of what is about to land.     *)
HeldInv(gitignore) ==
    \A r \in Runs :
        pc[r] = "writing" =>
            /\ tenant[Current(r).path] # Absent
            /\ InHand(r, gitignore) =>
                  IsPrefix(tenant[Current(r).path], Current(r).contents)

(* Runs that hold a file at once write the same.                             *)
Concurring(gitignore) ==
    \A r, s \in Runs :
        /\ pc[r] = "writing" /\ pc[s] = "writing"
        /\ Current(r).path = Current(s).path /\ InHand(s, gitignore)
        => Current(r).contents = Current(s).contents

(* What a run does to the tree, and that it holds only what it has opened.   *)
LEMMA RunsLand ==
    ASSUME IInv, NEW r \in Runs, RunMoves(r)
    PROVE  /\ \/ tenant' = tenant
              \/ OpenFile(r)
              \/ pc[r] = "writing" /\ (WriteFile(r) \/ PutsPart(r))
           /\ pc'[r] = "writing" => OpenFile(r)
  <1> USE DEF Goto, ExitWith, surroundings, program
  <1>1. /\ pc \in [Runs -> {"idle", "mode", "planned", "prompt", "write", "writing",
                            "exit"} \cup Reading]
    BY DEF IInv, TypeOK
  <1>2. CASE Start(r) \/ Return(r) \/ DecodeTenantBindings(r)
    BY <1>1, <1>2 DEF Start, Return, DecodeTenantBindings
  <1>3. CASE ResolveHomeRoot(r) \/ ChooseMode(r)
    BY <1>1, <1>3 DEF ResolveHomeRoot, ChooseMode
  <1>4. CASE PlanCallers(r) \/ PlanFileTopics(r) \/ PlanGitignore(r)
             \/ PlanCodeowners(r) \/ PlanConventions(r)
    <2>1. ASSUME NEW STATE proven, NEW STATE appended, NEW here, NEW there,
                 there # "writing", PlanStep(r, here, proven, appended, there)
          PROVE  tenant' = tenant /\ pc'[r] # "writing"
      BY <1>1, <2>1 DEF PlanStep
    <2>2. CASE PlanCallers(r) \/ PlanFileTopics(r)
      BY <2>1, <2>2 DEF PlanCallers, PlanFileTopics
    <2>3. CASE PlanGitignore(r)
      <3> DEFINE h == HomeTree[homeRoot[r]]
                 existing == tenant[bound[r].files["gitignore"].path]
                 proven == RegionProven(h, bound[r])
                           /\ GitignoreComposes(h, bound[r], existing)
                 appended == <<GitignoreMaterial(h, bound[r], existing)>>
      <3>1. PlanStep(r, "gitignore", proven, appended, "codeowners")
        BY <2>3 DEF PlanGitignore
      <3> HIDE DEF proven, appended
      <3>2. QED
        BY <2>1, <3>1
    <2>4. CASE PlanCodeowners(r) \/ PlanConventions(r)
      BY <2>1, <2>4 DEF PlanCodeowners, PlanConventions
    <2>5. QED
      BY <1>4, <2>2, <2>3, <2>4
  <1>5. CASE PlanReturns(r) \/ Confirm(r) \/ Decline(r)
    BY <1>1, <1>5 DEF PlanReturns, Confirm, Decline
  <1>6. CASE OpenFile(r)
    BY <1>6
  <1>7. CASE WriteFile(r) \/ Finish(r)
    BY <1>1, <1>7 DEF WriteFile, Finish
  <1>8. CASE FaultStep(r)
    BY <1>1, <1>8 DEF FaultStep, ReadFails, OpenFails, WriteFails, Crash
  <1>9. QED
    BY <1>2, <1>3, <1>4, <1>5, <1>6, <1>7, <1>8 DEF RunMoves, RunStep

LEMMA RunKeepsHeld ==
    ASSUME IInv, NEW gitignore \in BOOLEAN, HeldInv(gitignore), Concurring(gitignore),
           NEW r \in Runs, RunMoves(r)
    PROVE  HeldInv(gitignore)'
  <1> DEFINE path(s) == Current(s).path
             contents(s) == Current(s).contents
             Held(s) == /\ tenant[path(s)] # Absent
                        /\ InHand(s, gitignore) =>
                              IsPrefix(tenant[path(s)], contents(s))
  <1>1. tenant \in [TenantPaths -> Contents \cup {Absent}]
    BY DEF IInv, TypeOK
  <1>2. \A s \in Runs : pc[s] = "writing" =>
           path(s) \in TenantPaths /\ contents(s) \in Contents
    <2>1. \A s \in Runs : pc[s] = "writing" => written[s] < Len(materials[s])
      BY DEF IInv, RunInv
    <2>2. QED
      BY <2>1, CurrentType
  <1>3. <<>> # Absent /\ \A c \in Contents : IsPrefix(<<>>, c) /\ IsPrefix(c, c)
    <2>1. <<>> \in Contents
      BY DEF Contents
    <2>2. ASSUME NEW c \in Contents
          PROVE  IsPrefix(<<>>, c) /\ IsPrefix(c, c)
      <3>1. SubSeq(<<>>, 1, 0) = <<>> /\ SubSeq(c, 1, 0) = <<>>
        BY SubSeqEmpty
      <3>2. Len(c) \in Nat /\ Len(<<>>) = 0
        BY DEF Contents
      <3>3. QED
        BY <3>1, <3>2 DEF IsPrefix
    <2>3. QED
      BY <2>1, <2>2, AbsentAssumption
  <1>4. SUFFICES ASSUME NEW s \in Runs, pc'[s] = "writing"
                 PROVE  Held(s)'
    BY DEF HeldInv
  <1>5. CASE s = r
    <2>1. OpenFile(r)
      BY <1>4, <1>5, RunsLand
    <2>2. /\ path(r)' = path(r) /\ contents(r)' = contents(r)
          /\ tenant' = [tenant EXCEPT ![path(r)] = <<>>]
          /\ written[r] < Len(materials[r])
      BY <2>1 DEF OpenFile, Put, program, Current
    <2>3. path(r) \in TenantPaths /\ contents(r) \in Contents
      BY <2>2, CurrentType
    <2> HIDE DEF path, contents
    <2>4. QED
      BY <1>1, <1>3, <1>5, <2>2, <2>3
  <1>6. CASE s # r
    <2>1. /\ pc[s] = "writing" /\ InHand(s, gitignore)' = InHand(s, gitignore)
          /\ path(s)' = path(s) /\ contents(s)' = contents(s)
      BY <1>4, <1>6, OthersAreKept DEF OthersKeep, SameElsewhere, InHand, Current
    <2>2. Held(s)
      BY <2>1 DEF HeldInv
    <2>3. path(s) \in TenantPaths /\ contents(s) \in Contents
      BY <1>2, <2>1
    <2>4. tenant[path(s)] \in Contents
      BY <1>1, <2>2, <2>3
    <2>5. CASE tenant' = tenant
      BY <2>1, <2>2, <2>5
    <2>6. CASE OpenFile(r)
      <3>1. tenant' = [tenant EXCEPT ![path(r)] = <<>>]
        BY <2>6 DEF OpenFile, Put
      <3> HIDE DEF path, contents
      <3>2. tenant'[path(s)] \in {tenant[path(s)], <<>>}
        BY <1>1, <2>3, <3>1
      <3>3. QED
        BY <1>3, <2>1, <2>2, <2>3, <3>2
    <2>7. CASE pc[r] = "writing" /\ (WriteFile(r) \/ PutsPart(r))
      <3>1. /\ path(r) \in TenantPaths /\ contents(r) \in Contents
            /\ path(r) = path(s) /\ InHand(s, gitignore) =>
                  contents(r) = contents(s)
        BY <1>2, <2>1, <2>7 DEF Concurring
      <3>2. CASE path(r) # path(s)
        <4>1. tenant'[path(s)] = tenant[path(s)]
          BY <1>1, <2>3, <2>7, <3>2 DEF WriteFile, PutsPart, Put
        <4>2. QED
          BY <2>1, <2>2, <4>1
      <3>3. CASE path(r) = path(s) /\ WriteFile(r)
        <4>1. tenant'[path(s)] = Landed(contents(r), tenant[path(s)])
          BY <1>1, <2>3, <3>1, <3>3 DEF WriteFile, Put
        <4> HIDE DEF path, contents
        <4>2. tenant'[path(s)] # Absent
          BY <2>4, <3>1, <4>1, LandedBegins, AbsentAssumption
        <4>3. ASSUME InHand(s, gitignore)
              PROVE  IsPrefix(tenant'[path(s)], contents(s))
          <5>1. tenant'[path(s)] = contents(s)
            BY <2>2, <2>3, <2>4, <3>1, <3>3, <4>1, <4>3, LandedWhole
          <5>2. QED
            BY <1>3, <2>3, <5>1
        <4>4. QED
          BY <2>1, <4>2, <4>3
      <3>4. CASE path(r) = path(s) /\ PutsPart(r)
        <4>1. PICK n \in 0..Len(contents(r)) :
                 tenant'[path(s)] = Landed(SubSeq(contents(r), 1, n), tenant[path(s)])
          BY <1>1, <2>3, <3>1, <3>4 DEF PutsPart, Put
        <4> HIDE DEF path, contents
        <4>2. tenant'[path(s)] # Absent
          <5>1. SubSeq(contents(r), 1, n) \in Contents
            BY <3>1, PartType
          <5>2. QED
            BY <2>4, <4>1, <5>1, LandedBegins, AbsentAssumption
        <4>3. ASSUME InHand(s, gitignore)
              PROVE  IsPrefix(tenant'[path(s)], contents(s))
          BY <2>2, <2>3, <2>4, <3>1, <3>4, <4>1, <4>3, LandedPart
        <4>4. QED
          BY <2>1, <4>2, <4>3
      <3>5. QED
        BY <2>7, <3>2, <3>3, <3>4
    <2>8. QED
      BY <2>5, <2>6, <2>7, RunsLand
  <1>7. QED
    BY <1>5, <1>6

(* Held files stay so while owners wait for runs.                            *)
LEMMA NextKeepsHeld ==
    ASSUME ~ EditsDuringRuns, IInv, NEW gitignore \in BOOLEAN,
           HeldInv(gitignore), Concurring(gitignore), [Next]_vars
    PROVE  HeldInv(gitignore)'
  <1>1. CASE UNCHANGED vars
    BY <1>1 DEF vars, program, HeldInv, InHand, Current
  <1>2. ASSUME NEW r \in Runs, RunMoves(r)
        PROVE  HeldInv(gitignore)'
    BY <1>2, RunKeepsHeld
  <1>3. ASSUME TenantStep
        PROVE  HeldInv(gitignore)'
    <2>1. \A r \in Runs : pc'[r] = "idle"
      BY <1>3 DEF TenantStep, EditProjectBlock, RemoveUnmarked, Rebind, RepinTools,
         Author, CanEdit
    <2>2. QED
      BY <2>1 DEF HeldInv
  <1>4. QED
    BY <1>1, <1>2, <1>3 DEF Next, RunMoves

LEMMA InitHeld ==
    ASSUME NEW gitignore \in BOOLEAN
    PROVE  Init => HeldInv(gitignore)
  BY DEF Init, HeldInv

(* What lands in a file that is held so is what was about to land.           *)
LEMMA HeldLandsWhole ==
    ASSUME IInv, NEW gitignore \in BOOLEAN, HeldInv(gitignore),
           NEW r \in Runs, pc[r] = "writing", InHand(r, gitignore)
    PROVE  Landed(Current(r).contents, tenant[Current(r).path]) = Current(r).contents
  <1>1. written[r] < Len(materials[r])
    BY DEF IInv, RunInv
  <1>2. Current(r).path \in TenantPaths /\ Current(r).contents \in Contents
    BY <1>1, CurrentType
  <1>3. /\ tenant[Current(r).path] \in Contents
        /\ IsPrefix(tenant[Current(r).path], Current(r).contents)
    BY <1>2 DEF HeldInv, IInv, TypeOK
  <1>4. QED
    BY <1>2, <1>3, LandedWhole

-------------------------------------------------------------------------------
(* The project block.  A run carries it from the moment it has read the file *)
(* until it has written it.                                                  *)
Carrying == {"codeowners", "conventions", "planned", "prompt", "write", "writing"}

Carries(plan, b, owned) ==
    /\ GitignorePosition(b) \in 1..Len(plan)
    /\ OwnedBlock(plan[GitignorePosition(b)].contents) = owned

BlockCarried(r) ==
    pc[r] \in Carrying =>
        Carries(materials[r], bound[r],
                OwnedBlock(authored[bound[r].files["gitignore"].path]))

(* The file has the block, or a run has opened it and not written it yet.    *)
BlockStands(path) ==
    \/ OwnedBlock(tenant[path]) = OwnedBlock(authored[path])
    \/ tenant[path] = <<>> /\ \E r \in Runs : Holds(r, path)

BlockInv ==
    /\ \A r \in Runs : BlockCarried(r)
    /\ \A path \in GitignorePaths : BlockStands(path)

(* The composed file has the block of the file that was read, and a file that*)
(* is only opened is not composed at all (planGitignore).                    *)
LEMMA ComposedBlock ==
    ASSUME NEW h, TypedHome(h), NEW b, Decoded(b), RegionProven(h, b),
           NEW existing \in ReadContents, GitignoreComposes(h, b, existing)
    PROVE  /\ existing # <<>> /\ ~ Unmarked(existing)
           /\ OwnedBlock(GitignoreMaterial(h, b, existing).contents)
                 = OwnedBlock(existing)
  <1> DEFINE body == RegionBody(h, b.files["gitignore"].fragments, b.home.sha)
             region == body \o <<Mark, LineFeed>>
  <1>1. /\ body \in Seq(Chunk) /\ ~ HasMark(body)
        /\ BoundRegion(h, b) = region /\ region \in Seq(Chunk)
    BY BoundRegionType DEF Decoded, Contents
  <1> DEFINE composed == GitignoreMaterial(h, b, existing).contents
  <1>2. composed = IF existing = Absent THEN region ELSE Preserved(existing, region)
    BY <1>1 DEF GitignoreMaterial, Material
  <1>3. Mark \in Chunk /\ LineFeed \in Chunk
    BY MarksAreChunks
  <1> HIDE DEF body, composed
  <1>4. CASE existing = Absent
    <2>1. composed = region
      BY <1>2, <1>4
    <2>2. <<>> \in Seq(Chunk) /\ region \o <<>> = region
      BY <1>1, ConcatEmptySeq
    <2>3. HasMark(region) /\ ProjectBlock(region) = <<>>
      <3>1. HasMark(region \o <<>>) /\ ProjectBlock(region \o <<>>) = <<>>
        BY <1>1, <1>3, <2>2, ProjectBlockBelowRegion
      <3>2. QED
        BY <2>2, <3>1
    <2>4. region # Absent /\ <<>> # Absent
      BY <1>1, <2>2, AbsentAssumption DEF Contents
    <2> HIDE DEF region
    <2>5. QED
      BY <1>4, <2>1, <2>3, <2>4 DEF OwnedBlock, Unmarked, composed
  <1>5. CASE existing # Absent
    <2>1. existing \in Seq(Chunk)
      BY <1>5 DEF ReadContents, Contents
    <2>2. Preservable(existing, region)
      BY <1>1, <1>5 DEF GitignoreComposes
    <2>3. composed = Preserved(existing, region)
      BY <1>2, <1>5
    <2>4. /\ HasMark(existing) /\ HasMark(composed)
          /\ ProjectBlock(composed) = ProjectBlock(existing)
      BY <1>1, <1>3, <2>1, <2>2, <2>3, ProjectBlockSurvives
    <2>5. composed # Absent
      <3>1. PICK kept \in Seq(Chunk) : composed = region \o kept
        BY <1>1, <2>1, <2>2, <2>3, PreservedType
      <3>2. composed \in Seq(Chunk)
        BY <1>1, <3>1, ConcatProperties
      <3>3. QED
        BY <3>2, AbsentAssumption DEF Contents
    <2>6. existing # <<>>
      BY <2>4 DEF HasMark
    <2>7. QED
      BY <1>5, <2>4, <2>5, <2>6 DEF OwnedBlock, Unmarked, composed
  <1>6. QED
    BY <1>4, <1>5

(* The steps of a run that neither write nor plan behind the gitignore.      *)
Elsewhere(r) ==
    \/ Start(r) \/ Return(r) \/ DecodeTenantBindings(r) \/ ResolveHomeRoot(r)
    \/ ChooseMode(r) \/ PlanCallers(r) \/ PlanFileTopics(r) \/ PlanReturns(r)
    \/ Confirm(r) \/ Decline(r) \/ Finish(r) \/ ReadFails(r)

LEMMA ElsewhereKeeps ==
    ASSUME IInv, NEW r \in Runs, Elsewhere(r)
    PROVE  /\ tenant' = tenant /\ authored' = authored /\ SameElsewhere(r)
           /\ pc[r] # "writing"
           /\ pc'[r] \in Carrying =>
                 /\ pc[r] \in Carrying
                 /\ materials'[r] = materials[r] /\ bound'[r] = bound[r]
                 /\ homeRoot'[r] = homeRoot[r] /\ written'[r] = written[r]
  <1> USE DEF Goto, ExitWith, surroundings, program, SameElsewhere, Carrying
  <1>1. /\ pc \in [Runs -> {"idle", "mode", "planned", "prompt", "write", "writing",
                            "exit"} \cup Reading]
        /\ flags \in [Runs -> Invocations \cup {None}]
        /\ bound \in [Runs -> Manifests \cup {None}]
        /\ homeRoot \in [Runs -> Releases \cup {None}]
        /\ applying \in [Runs -> BOOLEAN] /\ written \in [Runs -> Nat]
        /\ materials \in [Runs -> Seq([path : TenantPaths, contents : Contents])]
        /\ shown \in [Runs -> Seq(TenantPaths)]
    BY DEF IInv, TypeOK
  <1>2. CASE Start(r)
    BY <1>1, <1>2 DEF Start
  <1>3. CASE Return(r)
    BY <1>1, <1>3 DEF Return
  <1>4. CASE DecodeTenantBindings(r)
    BY <1>1, <1>4 DEF DecodeTenantBindings
  <1>5. CASE ResolveHomeRoot(r)
    BY <1>1, <1>5 DEF ResolveHomeRoot
  <1>6. CASE ChooseMode(r)
    BY <1>1, <1>6 DEF ChooseMode
  <1>7. CASE PlanCallers(r) \/ PlanFileTopics(r)
    BY <1>1, <1>7 DEF PlanCallers, PlanFileTopics, PlanStep
  <1>8. CASE PlanReturns(r)
    BY <1>1, <1>8 DEF PlanReturns
  <1>9. CASE Confirm(r)
    BY <1>1, <1>9 DEF Confirm
  <1>10. CASE Decline(r) \/ Finish(r) \/ ReadFails(r)
    BY <1>1, <1>10 DEF Decline, Finish, ReadFails, Reading
  <1>11. QED
    BY <1>2, <1>3, <1>4, <1>5, <1>6, <1>7, <1>8, <1>9, <1>10 DEF Elsewhere

(* While no run touches the tree, it suffices what the run that moves carries.*)
LEMMA UntouchedTree ==
    ASSUME BlockInv, NEW r \in Runs, SameElsewhere(r),
           tenant' = tenant, authored' = authored, pc[r] # "writing",
           BlockCarried(r)'
    PROVE  BlockInv'
  <1>1. ASSUME NEW s \in Runs
        PROVE  BlockCarried(s)'
    <2>1. BlockCarried(s)
      BY DEF BlockInv
    <2>2. QED
      BY <2>1 DEF SameElsewhere, BlockCarried
  <1>2. ASSUME NEW path \in GitignorePaths
        PROVE  BlockStands(path)'
    <2>1. BlockStands(path)
      BY DEF BlockInv
    <2>2. \A s \in Runs : Holds(s, path) => Holds(s, path)'
      BY DEF Holds, Current, SameElsewhere
    <2>3. QED
      BY <2>1, <2>2 DEF BlockStands
  <1>3. QED
    BY <1>1, <1>2 DEF BlockInv

LEMMA ElsewhereKeepsBlock ==
    ASSUME IInv, BlockInv, NEW r \in Runs, Elsewhere(r)
    PROVE  BlockInv'
  <1>1. BlockCarried(r)
    BY DEF BlockInv
  <1>2. BlockCarried(r)'
    BY <1>1, ElsewhereKeeps DEF BlockCarried
  <1>3. QED
    BY <1>2, ElsewhereKeeps, UntouchedTree

(* A step of Plan leaves the tree and the other runs.                        *)
LEMMA PlanStepKeeps ==
    ASSUME IInv, NEW r \in Runs, NEW STATE proven, NEW STATE appended,
           NEW here, NEW there, here # "writing",
           PlanStep(r, here, proven, appended, there)
    PROVE  /\ tenant' = tenant /\ authored' = authored /\ SameElsewhere(r)
           /\ pc[r] = here /\ UNCHANGED <<bound, homeRoot, written>>
           /\ proven \/ pc'[r] \notin Carrying
           /\ proven => materials'[r] = materials[r] \o appended
  <1> USE DEF PlanStep, Goto, ExitWith, surroundings, SameElsewhere, Carrying
  <1>1. pc \in [Runs -> {"idle", "mode", "planned", "prompt", "write", "writing",
                            "exit"} \cup Reading]
        /\ materials \in [Runs -> Seq([path : TenantPaths, contents : Contents])]
    BY DEF IInv, TypeOK
  <1>2. QED
    BY <1>1

(* The gitignore is planned in its position (planGitignore).                 *)
LEMMA GitignoreIsPlanned ==
    ASSUME IInv, NEW r \in Runs, PlanGitignore(r)
    PROVE  LET h == HomeTree[homeRoot[r]]
               b == bound[r]
               existing == tenant[b.files["gitignore"].path]
           IN  /\ tenant' = tenant /\ authored' = authored /\ SameElsewhere(r)
               /\ pc[r] = "gitignore" /\ UNCHANGED <<bound, homeRoot, written>>
               /\ Decoded(b) /\ TypedHome(h) /\ existing \in ReadContents
               /\ b.files["gitignore"].path \in GitignorePaths
               /\ pc'[r] \in Carrying =>
                     /\ RegionProven(h, b) /\ GitignoreComposes(h, b, existing)
                     /\ GitignorePosition(b) \in 1..Len(materials'[r])
                     /\ materials'[r][GitignorePosition(b)]
                           = GitignoreMaterial(h, b, existing)
  <1> DEFINE h == HomeTree[homeRoot[r]]
             b == bound[r]
             existing == tenant[b.files["gitignore"].path]
             proven == RegionProven(h, b) /\ GitignoreComposes(h, b, existing)
             material == GitignoreMaterial(h, b, existing)
             one == <<material>>
             M == PlannedMaterial
  <1>1. PlanStep(r, "gitignore", proven, one, "codeowners")
    BY DEF PlanGitignore
  <1>2. RunInv(r) /\ pc[r] = "gitignore"
    BY <1>1 DEF IInv, PlanStep
  <1>3. /\ Decoded(b) /\ TypedHome(h)
        /\ CallersProven(h, b) /\ FileTopicsProven(h, b) /\ materials[r] = Plan2(h, b)
    BY <1>2, HomeIsTyped DEF RunInv, Progress, Planned, Proven2
  <1>4. existing \in ReadContents /\ b.files["gitignore"].path \in GitignorePaths
    BY <1>3, PathsAreTenantPaths
       DEF IInv, TypeOK, ReadContents, Decoded, GitignorePaths
  <1>5. /\ tenant' = tenant /\ authored' = authored /\ SameElsewhere(r)
        /\ UNCHANGED <<bound, homeRoot, written>>
        /\ proven \/ pc'[r] \notin Carrying
        /\ proven => materials'[r] = materials[r] \o one
    <2> HIDE DEF proven, one
    <2>1. QED
      BY <1>1, PlanStepKeeps
  <1>6. ASSUME proven
        PROVE  /\ GitignorePosition(b) \in 1..Len(materials'[r])
               /\ materials'[r][GitignorePosition(b)] = material
    <2>1. /\ CallerMaterials(h, b) \in Seq(M) /\ Len(CallerMaterials(h, b)) = Len(b.callers)
          /\ FileTopicMaterials(h, b) \in Seq(M) /\ Len(FileTopicMaterials(h, b)) = 3
      BY <1>3, CallerMaterialsType, FileTopicMaterialsType DEF Decoded
    <2> DEFINE callers == CallerMaterials(h, b)
               topics == FileTopicMaterials(h, b)
               plan == materials[r]
    <2>2. plan = callers \o topics
      BY <1>3 DEF Plan1, Plan2
    <2>3. material \in M
      BY <1>3, <1>4, <1>6, GitignoreMaterialType DEF Decoded, ReadContents
    <2> HIDE DEF material, proven, M, h, b, callers, topics, plan
    <2>4. one \in Seq(M) /\ Len(one) = 1 /\ one[1] = material
      BY <2>3
    <2> HIDE DEF one
    <2>5. plan \in Seq(M) /\ Len(plan) = Len(b.callers) + 3 /\ Len(b.callers) \in Nat
      <3>1. callers \in Seq(M) /\ Len(callers) = Len(b.callers)
            /\ topics \in Seq(M) /\ Len(topics) = 3
        BY <2>1 DEF callers, topics, b
      <3>2. plan \in Seq(M) /\ Len(plan) = Len(callers) + Len(topics)
        BY <2>2, <3>1, ConcatLength
      <3>3. QED
        BY <3>1, <3>2
    <2>6. plan \in Seq(M) /\ one \in Seq(M)
      BY <2>4, <2>5
    <2>7. Len(plan \o one) = Len(b.callers) + 4
      <3>1. Len(plan \o one) = Len(plan) + Len(one)
        BY <2>6, ConcatLength
      <3>2. QED
        BY <2>4, <2>5, <3>1
    <2>8. (plan \o one)[Len(plan) + 1] = material
      <3>1. 1 \in 1..Len(one)
        BY <2>4
      <3>2. (plan \o one)[Len(plan) + 1] = one[1]
        BY <2>6, <3>1, ConcatRight
      <3>3. QED
        BY <2>4, <3>2
    <2>9. materials'[r] = plan \o one
      BY <1>5, <1>6 DEF plan
    <2>10. GitignorePosition(b) = Len(plan) + 1 /\ GitignorePosition(b) \in Nat \ {0}
      BY <2>5 DEF GitignorePosition
    <2>11. GitignorePosition(b) \in 1..Len(plan \o one)
      BY <2>5, <2>7, <2>10
    <2>12. QED
      BY <2>8, <2>9, <2>10, <2>11
  <1>7. QED
    BY <1>2, <1>3, <1>4, <1>5, <1>6

(* What is planned behind it leaves it where it is.                          *)
LEMMA PlannedBehind ==
    ASSUME IInv, NEW r \in Runs, PlanCodeowners(r) \/ PlanConventions(r)
    PROVE  /\ tenant' = tenant /\ authored' = authored /\ SameElsewhere(r)
           /\ pc[r] \in {"codeowners", "conventions"}
           /\ UNCHANGED <<bound, homeRoot, written>>
           /\ pc'[r] \in Carrying =>
                 \A k \in 1..Len(materials[r]) :
                     /\ k \in 1..Len(materials'[r])
                     /\ materials'[r][k] = materials[r][k]
  <1> DEFINE h == HomeTree[homeRoot[r]]
             b == bound[r]
             M == PlannedMaterial
  <1>1. pc[r] \in {"codeowners", "conventions"}
    BY DEF PlanCodeowners, PlanConventions, PlanStep
  <1>2. RunInv(r)
    BY DEF IInv
  <1>3. Decoded(b) /\ TypedHome(h) /\ materials[r] \in Seq(M)
    <2>1. Decoded(b) /\ TypedHome(h)
      BY <1>1, <1>2, HomeIsTyped DEF RunInv, Progress
    <2>2. \E existing \in ReadContents :
             \/ Proven3(h, b, existing) /\ materials[r] = Plan3(h, b, existing)
             \/ Proven4(h, b, existing) /\ materials[r] = Plan4(h, b, existing)
      BY <1>1, <1>2 DEF RunInv, Planned
    <2>3. QED
      BY <2>1, <2>2, PlanTypes
  <1>4. /\ tenant' = tenant /\ authored' = authored /\ SameElsewhere(r)
        /\ UNCHANGED <<bound, homeRoot, written>>
        /\ \/ pc'[r] \notin Carrying
           \/ \E appended \in Seq(M) : materials'[r] = materials[r] \o appended
    <2>1. CASE PlanCodeowners(r)
      <3> DEFINE proven == CodeownersRenders(h)
                 appended == <<CodeownersMaterial(h, b)>>
      <3>1. PlanStep(r, "codeowners", proven, appended, "conventions")
        BY <2>1 DEF PlanCodeowners
      <3>2. proven => appended \in Seq(M)
        BY <1>3, CodeownersMaterialType DEF Decoded
      <3> HIDE DEF proven, appended
      <3>3. QED
        BY <3>1, <3>2, PlanStepKeeps
    <2>2. CASE PlanConventions(r)
      <3> DEFINE proven == ConventionsProven(h, b)
                 appended == ConventionsMaterials(h, b)
      <3>1. PlanStep(r, "conventions", proven, appended, "planned")
        BY <2>2 DEF PlanConventions
      <3>2. proven => appended \in Seq(M)
        BY <1>3, ConventionsMaterialsType DEF Decoded
      <3> HIDE DEF proven, appended
      <3>3. QED
        BY <3>1, <3>2, PlanStepKeeps
    <2>3. QED
      BY <2>1, <2>2
  <1>5. ASSUME NEW appended \in Seq(M), materials'[r] = materials[r] \o appended,
               NEW k \in 1..Len(materials[r])
        PROVE  k \in 1..Len(materials'[r]) /\ materials'[r][k] = materials[r][k]
    <2> DEFINE plan == materials[r]
    <2>1. plan \in Seq(M) /\ k \in 1..Len(plan)
      BY <1>3
    <2> HIDE DEF plan, M
    <2>2. (plan \o appended)[k] = plan[k] /\ k \in 1..Len(plan \o appended)
      BY <1>5, <2>1, ConcatLeft, ConcatLength
    <2>3. QED
      BY <1>5, <2>2 DEF plan
  <1>6. QED
    BY <1>1, <1>4, <1>5

(* The planned gitignore carries the block that is in the tree when it is    *)
(* read, although another run may hold the file.                             *)
LEMMA PlanGitignoreKeepsBlock ==
    ASSUME IInv, BlockInv, NEW r \in Runs, PlanGitignore(r)
    PROVE  BlockInv'
  <1> DEFINE h == HomeTree[homeRoot[r]]
             b == bound[r]
             path == b.files["gitignore"].path
             existing == tenant[path]
             material == GitignoreMaterial(h, b, existing)
  <1>1. /\ tenant' = tenant /\ authored' = authored /\ SameElsewhere(r)
        /\ pc[r] = "gitignore" /\ bound' = bound
        /\ Decoded(b) /\ TypedHome(h) /\ existing \in ReadContents
        /\ path \in GitignorePaths
        /\ pc'[r] \in Carrying =>
              /\ RegionProven(h, b) /\ GitignoreComposes(h, b, existing)
              /\ GitignorePosition(b) \in 1..Len(materials'[r])
              /\ materials'[r][GitignorePosition(b)] = material
    BY GitignoreIsPlanned
  <1>2. ASSUME pc'[r] \in Carrying
        PROVE  Carries(materials'[r], b, OwnedBlock(authored[path]))
    <2>1. existing # <<>> /\ OwnedBlock(material.contents) = OwnedBlock(existing)
      BY <1>1, <1>2, ComposedBlock
    <2>2. OwnedBlock(existing) = OwnedBlock(authored[path])
      BY <1>1, <2>1 DEF BlockInv, BlockStands
    <2>3. QED
      BY <1>1, <1>2, <2>1, <2>2 DEF Carries
  <1>3. BlockCarried(r)'
    BY <1>1, <1>2 DEF BlockCarried
  <1>4. QED
    BY <1>1, <1>3, UntouchedTree

LEMMA PlanBehindKeepsBlock ==
    ASSUME IInv, BlockInv, NEW r \in Runs, PlanCodeowners(r) \/ PlanConventions(r)
    PROVE  BlockInv'
  <1>1. /\ tenant' = tenant /\ authored' = authored /\ SameElsewhere(r)
        /\ pc[r] \in {"codeowners", "conventions"} /\ bound' = bound
        /\ pc'[r] \in Carrying =>
              \A k \in 1..Len(materials[r]) :
                  k \in 1..Len(materials'[r]) /\ materials'[r][k] = materials[r][k]
    BY PlannedBehind
  <1>2. BlockCarried(r)
    BY DEF BlockInv
  <1>3. BlockCarried(r)'
    BY <1>1, <1>2 DEF BlockCarried, Carrying, Carries
  <1>4. QED
    BY <1>1, <1>3, UntouchedTree

(* A write to the path of a gitignore is the write of the run's gitignore.   *)
LEMMA GitignoreWrite ==
    ASSUME GitignoresApart, IInv, NEW r \in Runs, pc[r] \in {"write", "writing"},
           written[r] < Len(materials[r]), Current(r).path \in GitignorePaths
    PROVE  /\ written[r] + 1 = GitignorePosition(bound[r])
           /\ Current(r) = materials[r][GitignorePosition(bound[r])]
           /\ Current(r).path = bound[r].files["gitignore"].path
  <1> DEFINE h == HomeTree[homeRoot[r]]
             b == bound[r]
  <1>1. /\ Decoded(b) /\ Current(r).path = SurfaceOrder(b)[written[r] + 1]
        /\ written[r] + 1 \in 1..Len(SurfaceOrder(b))
    BY CurrentIsASurface
  <1>2. written[r] + 1 = GitignorePosition(b)
    BY <1>1 DEF GitignoresApart, Decoded, GitignorePosition
  <1>3. RunInv(r)
    BY DEF IInv
  <1>4. TypedHome(h)
    BY <1>3, HomeIsTyped DEF RunInv, Progress
  <1>5. PICK existing \in ReadContents :
           Proven5(h, b, existing) /\ materials[r] = Plan5(h, b, existing)
    BY <1>3 DEF RunInv, Planned
  <1>6. materials[r][GitignorePosition(b)] = GitignoreMaterial(h, b, existing)
    <2>1. LaidOut(h, b, existing, Plan5(h, b, existing))
      BY <1>1, <1>4, <1>5, PlanContents
    <2> HIDE DEF h, b
    <2>2. QED
      BY <1>5, <2>1 DEF LaidOut, GitignorePosition
  <1>7. Current(r) = materials[r][GitignorePosition(b)]
    BY <1>2 DEF Current
  <1>8. QED
    BY <1>2, <1>6, <1>7 DEF GitignoreMaterial, Material

(* It is the proven region and, below it, the block of the owners.           *)
LEMMA GitignoreToWrite ==
    ASSUME GitignoresApart, IInv, BlockInv, NEW r \in Runs,
           pc[r] \in {"write", "writing"}, written[r] < Len(materials[r]),
           Current(r).path \in GitignorePaths
    PROVE  LET b == bound[r]
               region == BoundRegion(HomeTree[homeRoot[r]], b)
           IN  /\ Sum256Hex(region) = b.files["gitignore"].sha256
               /\ Current(r).contents
                     = region \o OwnedBlock(authored[Current(r).path])
  <1> DEFINE h == HomeTree[homeRoot[r]]
             b == bound[r]
             position == GitignorePosition(b)
             contents == Current(r).contents
             body == RegionBody(h, b.files["gitignore"].fragments, b.home.sha)
             region == BoundRegion(h, b)
             kept == After(contents, Len(region))
  <1>1. /\ Current(r) = materials[r][position]
        /\ Current(r).path = b.files["gitignore"].path
    BY GitignoreWrite
  <1>2. /\ Decoded(b) /\ homeRoot[r] \in Releases /\ HomeProves(h, b)
        /\ ProvenPlan(materials[r], h, b)
    BY PlanOfRunIsProven
  <1>3. /\ position \in 1..Len(materials[r])
        /\ OwnedBlock(contents) = OwnedBlock(authored[Current(r).path])
    BY <1>1 DEF BlockInv, BlockCarried, Carries, Carrying
  <1>4. materials[r] \in Seq(PlannedMaterial)
    BY CompletePlanPaths
  <1>5. /\ IsPrefix(region, contents) /\ RegionProven(h, b)
        /\ Sum256Hex(region) = b.files["gitignore"].sha256
    <2>1. position \in DOMAIN materials[r]
      BY <1>3, <1>4
    <2>2. QED
      BY <1>1, <1>2, <2>1 DEF ProvenPlan, RegionProven, GitignorePosition
  <1>6. /\ body \in Seq(Chunk) /\ ~ HasMark(body) /\ region \in Seq(Chunk)
        /\ region = body \o <<Mark, LineFeed>>
    BY <1>2, <1>5, BoundRegionType, TreesAssumption DEF Decoded, Contents
  <1>7. contents \in Seq(Chunk) /\ contents # Absent
    BY CurrentType, AbsentAssumption DEF Contents
  <1>8. Mark \in Chunk /\ LineFeed \in Chunk
    BY MarksAreChunks
  <1> HIDE DEF h, b, position, contents, body, region
  <1>9. kept \in Seq(Chunk) /\ contents = region \o kept
    <2>1. Len(region) \in 0..Len(contents)
      BY <1>5, <1>6, <1>7 DEF IsPrefix
    <2>2. kept \in Seq(Chunk)
      BY <1>7, <2>1, AfterProperties
    <2>3. QED
      BY <1>5, <1>6, <1>7, <2>2, PrefixAndAfter
  <1> HIDE DEF kept
  <1>10. HasMark(contents) /\ ProjectBlock(contents) = kept
    <2>1. /\ HasMark((body \o <<Mark, LineFeed>>) \o kept)
          /\ ProjectBlock((body \o <<Mark, LineFeed>>) \o kept) = kept
      BY <1>6, <1>8, <1>9, ProjectBlockBelowRegion
    <2>2. QED
      BY <1>6, <1>9, <2>1
  <1>11. OwnedBlock(contents) = kept
    BY <1>7, <1>10 DEF OwnedBlock
  <1>12. QED
    BY <1>3, <1>5, <1>9, <1>11 DEF b, region, contents, h

(* So runs that hold a gitignore at once, bound by one manifest, write the   *)
(* same.                                                                     *)
LEMMA GitignoresConcur ==
    ASSUME GitignoresApart, IInv, BoundInv, BlockInv
    PROVE  Concurring(TRUE)
  <1>1. SUFFICES ASSUME NEW r \in Runs, NEW s \in Runs,
                        pc[r] = "writing", pc[s] = "writing",
                        Current(r).path = Current(s).path, InHand(s, TRUE)
                 PROVE  Current(r).contents = Current(s).contents
    BY DEF Concurring
  <1>2. written[r] < Len(materials[r]) /\ written[s] < Len(materials[s])
    BY <1>1 DEF IInv, RunInv
  <1>3. bound[r] = bound[s]
    BY <1>1 DEF BoundInv
  <1>4. Current(s).path \in GitignorePaths
    <2>1. /\ Decoded(bound[s])
          /\ Current(s).path = SurfaceOrder(bound[s])[written[s] + 1]
      BY <1>1, <1>2, CurrentIsASurface
    <2>2. RunInv(s) /\ TypedHome(HomeTree[homeRoot[s]])
      BY <1>1, HomeIsTyped DEF IInv, RunInv, Progress
    <2>3. PICK existing \in ReadContents :
             materials[s] = Plan5(HomeTree[homeRoot[s]], bound[s], existing)
             /\ Proven5(HomeTree[homeRoot[s]], bound[s], existing)
      BY <1>1, <2>2 DEF RunInv, Planned
    <2>4. LaidOut(HomeTree[homeRoot[s]], bound[s], existing, materials[s])
      BY <2>1, <2>2, <2>3, PlanContents
    <2>5. Current(s).path = bound[s].files["gitignore"].path
      BY <1>1, <2>4 DEF LaidOut, InHand, GitignorePosition, Current,
         GitignoreMaterial, Material
    <2>6. QED
      BY <2>1, <2>5 DEF GitignorePaths, Decoded
  <1> DEFINE region(t) == BoundRegion(HomeTree[homeRoot[t]], bound[t])
             owned == OwnedBlock(authored[Current(s).path])
  <1>5. /\ Sum256Hex(region(r)) = bound[r].files["gitignore"].sha256
        /\ Current(r).contents = region(r) \o owned
        /\ Sum256Hex(region(s)) = bound[s].files["gitignore"].sha256
        /\ Current(s).contents = region(s) \o owned
    BY <1>1, <1>2, <1>4, GitignoreToWrite
  <1>6. region(r) = region(s)
    BY <1>3, <1>5, DigestsName
  <1> HIDE DEF region, owned
  <1>7. QED
    BY <1>5, <1>6

(* Opening a gitignore empties it, and the run holds it from then on.        *)
LEMMA OpenFileKeepsBlock ==
    ASSUME IInv, BlockInv, NEW r \in Runs, OpenFile(r)
    PROVE  BlockInv'
  <1>1. /\ pc[r] = "write" /\ pc' = [pc EXCEPT ![r] = "writing"]
        /\ written[r] < Len(materials[r])
        /\ tenant' = [tenant EXCEPT ![Current(r).path] = <<>>]
        /\ UNCHANGED <<bound, materials, written, authored>>
    BY DEF OpenFile, Goto, Put, program, surroundings
  <1>2. /\ Current(r).path \in TenantPaths
        /\ tenant \in [TenantPaths -> Contents \cup {Absent}]
        /\ pc'[r] = "writing" /\ \A s \in Runs \ {r} : pc'[s] = pc[s]
    BY <1>1, CurrentType DEF IInv, TypeOK
  <1>3. ASSUME NEW s \in Runs
        PROVE  BlockCarried(s)'
    <2>1. BlockCarried(s)
      BY DEF BlockInv
    <2>2. QED
      BY <1>1, <1>2, <2>1 DEF BlockCarried, Carrying
  <1>4. ASSUME NEW path \in GitignorePaths
        PROVE  BlockStands(path)'
    <2>1. \A s \in Runs : Holds(s, path) => Holds(s, path)'
      BY <1>1, <1>2 DEF Holds, Current
    <2>2. CASE path = Current(r).path
      <3>1. Holds(r, path)' /\ tenant'[path] = <<>>
        BY <1>1, <1>2, <2>2 DEF Holds, Current
      <3>2. QED
        BY <3>1 DEF BlockStands
    <2>3. CASE path # Current(r).path
      <3>1. tenant'[path] = tenant[path]
        BY <1>1, <1>2, <2>3
      <3>2. BlockStands(path)
        BY DEF BlockInv
      <3>3. QED
        BY <1>1, <2>1, <3>1, <3>2 DEF BlockStands
    <2>4. QED
      BY <2>2, <2>3
  <1>5. QED
    BY <1>3, <1>4 DEF BlockInv

(* What lands in a held gitignore is what was planned, with the block of its *)
(* owners.                                                                   *)
LEMMA WriteFileKeepsBlock ==
    ASSUME GitignoresApart, IInv, BlockInv, HeldInv(TRUE), NEW r \in Runs, WriteFile(r)
    PROVE  BlockInv'
  <1>1. /\ pc[r] = "writing" /\ pc' = [pc EXCEPT ![r] = "write"]
        /\ written' = [written EXCEPT ![r] = @ + 1]
        /\ tenant' = [tenant EXCEPT ![Current(r).path] =
                          Landed(Current(r).contents, tenant[Current(r).path])]
        /\ UNCHANGED <<bound, materials, authored>>
    BY DEF WriteFile, Goto, Put, surroundings
  <1>2. written[r] < Len(materials[r])
    BY <1>1 DEF IInv, RunInv
  <1>3. /\ Current(r).path \in TenantPaths
        /\ tenant \in [TenantPaths -> Contents \cup {Absent}]
        /\ pc'[r] = "write"
        /\ \A s \in Runs \ {r} : pc'[s] = pc[s] /\ written'[s] = written[s]
    BY <1>1, <1>2, CurrentType DEF IInv, TypeOK
  <1>4. ASSUME NEW s \in Runs
        PROVE  BlockCarried(s)'
    <2>1. BlockCarried(s)
      BY DEF BlockInv
    <2>2. QED
      BY <1>1, <1>3, <2>1 DEF BlockCarried, Carrying
  <1>5. ASSUME NEW path \in GitignorePaths
        PROVE  BlockStands(path)'
    <2>1. CASE path = Current(r).path
      <3>1. /\ path = bound[r].files["gitignore"].path
            /\ Current(r) = materials[r][GitignorePosition(bound[r])]
            /\ InHand(r, TRUE)
        BY <1>1, <1>2, <2>1, GitignoreWrite DEF InHand
      <3>2. OwnedBlock(Current(r).contents) = OwnedBlock(authored[path])
        BY <1>1, <3>1 DEF BlockInv, BlockCarried, Carrying, Carries
      <3>3. tenant'[path] = Current(r).contents
        BY <1>1, <1>3, <2>1, <3>1, HeldLandsWhole
      <3>4. QED
        BY <1>1, <3>2, <3>3 DEF BlockStands
    <2>2. CASE path # Current(r).path
      <3>1. tenant'[path] = tenant[path]
        BY <1>1, <1>3, <2>2
      <3>2. \A s \in Runs : Holds(s, path) => s # r /\ Holds(s, path)'
        BY <1>1, <1>3, <2>2 DEF Holds, Current
      <3>3. BlockStands(path)
        BY DEF BlockInv
      <3>4. QED
        BY <1>1, <3>1, <3>2, <3>3 DEF BlockStands
    <2>3. QED
      BY <2>1, <2>2
  <1>6. QED
    BY <1>4, <1>5 DEF BlockInv

(* Owners edit while no run carries anything.                                *)
LEMMA AuthorKeepsBlock ==
    ASSUME ~ EditsDuringRuns, IInv, BlockInv,
           NEW there \in TenantPaths, NEW contents, Author(there, contents)
    PROVE  BlockInv'
  <1>1. /\ \A r \in Runs : pc[r] = "idle" /\ pc'[r] = "idle"
        /\ tenant' = [tenant EXCEPT ![there] = contents]
        /\ authored' = [authored EXCEPT ![there] = contents]
    BY DEF Author, CanEdit, Put
  <1>2. /\ tenant \in [TenantPaths -> Contents \cup {Absent}]
        /\ authored \in [TenantPaths -> Contents \cup {Absent}]
    BY DEF IInv, TypeOK
  <1>3. \A r \in Runs : BlockCarried(r)'
    BY <1>1 DEF BlockCarried, Carrying
  <1>4. ASSUME NEW path \in GitignorePaths
        PROVE  BlockStands(path)'
    <2>1. OwnedBlock(tenant[path]) = OwnedBlock(authored[path])
      BY <1>1 DEF BlockInv, BlockStands, Holds
    <2>2. path \in TenantPaths
      BY PathsAreTenantPaths
    <2>3. \/ tenant'[path] = tenant[path] /\ authored'[path] = authored[path]
          \/ tenant'[path] = authored'[path]
      BY <1>1, <1>2, <2>2
    <2>4. QED
      BY <2>1, <2>3 DEF BlockStands
  <1>5. QED
    BY <1>3, <1>4 DEF BlockInv

LEMMA NextKeepsBlock ==
    ASSUME GitignoresApart, ~ EditsDuringRuns, Faults \subseteq {"read"},
           IInv, BlockInv, HeldInv(TRUE), [Next]_vars
    PROVE  BlockInv'
  <1>1. CASE UNCHANGED vars
    <2>1. UNCHANGED <<tenant, authored, pc, bound, materials, written>>
      BY <1>1 DEF vars, program, surroundings
    <2>2. QED
      BY <2>1 DEF BlockInv, BlockCarried, BlockStands, Holds, Current
  <1>2. ASSUME NEW r \in Runs, Start(r) \/ RunStep(r) \/ Return(r) \/ FaultStep(r)
        PROVE  BlockInv'
    <2>1. FaultStep(r) => ReadFails(r)
      BY DEF FaultStep, OpenFails, WriteFails, Crash, Fault
    <2>2. \/ Elsewhere(r) \/ PlanGitignore(r)
          \/ PlanCodeowners(r) \/ PlanConventions(r)
          \/ OpenFile(r) \/ WriteFile(r)
      BY <1>2, <2>1 DEF RunStep, Elsewhere
    <2>3. QED
      BY <2>2, ElsewhereKeepsBlock, PlanGitignoreKeepsBlock, PlanBehindKeepsBlock,
         OpenFileKeepsBlock, WriteFileKeepsBlock
  <1>3. ASSUME TenantStep
        PROVE  BlockInv'
    <2>1. PICK there \in TenantPaths : \E contents : Author(there, contents)
      BY <1>3, PathsAreTenantPaths
         DEF TenantStep, EditProjectBlock, RemoveUnmarked, Rebind, RepinTools
    <2>2. QED
      BY <2>1, AuthorKeepsBlock
  <1>4. QED
    BY <1>1, <1>2, <1>3 DEF Next

(* The project block in the tree is the one its owners last wrote, whatever  *)
(* was planned, re-planned, re-bound or written over, and however runs       *)
(* overlap, two that write the gitignore into each other included - as long  *)
(* as opened files are written, owners wait for runs to end, no other surface*)
(* is bound to a gitignore and none to tenant data, so that the runs at work *)
(* go by one manifest (provision.go:116-163).                                *)
THEOREM ProjectBlockIsTheOwners ==
    ASSUME GitignoresApart, TenantDataApart, ~ EditsDuringRuns,
           Faults \subseteq {"read"}
    PROVE  Spec => []ProjectBlockKept
  <1> DEFINE Carried == BoundInv /\ BlockInv /\ HeldInv(TRUE)
  <1>1. Init => Carried
    <2>1. Init => BlockInv
      BY DEF Init, BlockInv, BlockCarried, Carrying, BlockStands
    <2>2. QED
      BY <2>1, InitBound, InitHeld
  <1>2. IInv /\ Carried /\ [Next]_vars => Carried'
    BY NextKeepsBound, NextKeepsBlock, NextKeepsHeld, GitignoresConcur
  <1>3. Carried => ProjectBlockKept
    BY DEF BlockInv, BlockStands, ProjectBlockKept
  <1> HIDE DEF Carried
  <1>4. QED
    BY <1>1, <1>2, <1>3, InductiveInvariant, PTL DEF Spec

-------------------------------------------------------------------------------
(* One run alone, whose owners wait for it: what it read is still there when *)
(* it writes.                                                                *)
Alone == (\A r, s \in Runs : r = s) /\ ~ EditsDuringRuns

ToCompose(r) ==
    /\ pc[r] \in Carrying /\ written[r] < GitignorePosition(bound[r])
    /\ ~ Holds(r, bound[r].files["gitignore"].path)

AsRead(r, existing) ==
    LET h == HomeTree[homeRoot[r]]
        b == bound[r]
    IN  /\ RegionProven(h, b) /\ GitignoreComposes(h, b, existing)
        /\ GitignorePosition(b) \in 1..Len(materials[r])
        /\ materials[r][GitignorePosition(b)] = GitignoreMaterial(h, b, existing)

ReadInv ==
    \A r \in Runs :
        ToCompose(r) => AsRead(r, tenant[bound[r].files["gitignore"].path])

(* A write before the gitignore's goes elsewhere.                            *)
LEMMA WriteBefore ==
    ASSUME GitignoresApart, IInv, NEW r \in Runs, pc[r] \in {"write", "writing"},
           written[r] < Len(materials[r]),
           Current(r).path # bound[r].files["gitignore"].path,
           NEW contents, Put(Current(r).path, contents)
    PROVE  LET path == bound[r].files["gitignore"].path
           IN  tenant'[path] = tenant[path]
  <1>1. Decoded(bound[r])
    BY CurrentIsASurface
  <1>2. bound[r].files["gitignore"].path \in TenantPaths
    BY <1>1, PathsAreTenantPaths DEF Decoded, GitignorePaths
  <1>3. tenant \in [TenantPaths -> Contents \cup {Absent}]
    BY DEF IInv, TypeOK
  <1>4. QED
    BY <1>2, <1>3 DEF Put

LEMMA NextKeepsRead ==
    ASSUME GitignoresApart, Alone, IInv, ReadInv, [Next]_vars
    PROVE  ReadInv'
  <1>1. CASE UNCHANGED vars
    <2>1. UNCHANGED <<tenant, pc, bound, homeRoot, materials, written>>
      BY <1>1 DEF vars, program
    <2>2. QED
      BY <2>1 DEF ReadInv, ToCompose, AsRead, Holds, Current
  <1>2. ASSUME NEW r \in Runs, Start(r) \/ RunStep(r) \/ Return(r) \/ FaultStep(r)
        PROVE  ReadInv'
    <2> DEFINE path == bound[r].files["gitignore"].path
    <2>1. SUFFICES ASSUME ToCompose(r)'
                   PROVE  AsRead(r, tenant[path])'
      BY DEF ReadInv, Alone
    <2>2. ToCompose(r) => AsRead(r, tenant[path])
      BY DEF ReadInv
    <2>3. pc'[r] \in Carrying
      BY <2>1 DEF ToCompose
    <2>4. CASE Elsewhere(r)
      <3>1. /\ pc[r] # "writing" /\ tenant' = tenant /\ pc[r] \in Carrying
            /\ bound'[r] = bound[r] /\ homeRoot'[r] = homeRoot[r]
            /\ materials'[r] = materials[r] /\ written'[r] = written[r]
        BY <2>3, <2>4, ElsewhereKeeps
      <3>2. ToCompose(r)
        BY <2>1, <3>1 DEF ToCompose, Holds
      <3>3. QED
        BY <2>2, <3>1, <3>2 DEF AsRead
    <2>5. CASE PlanGitignore(r)
      BY <2>3, <2>5, GitignoreIsPlanned DEF AsRead
    <2>6. CASE PlanCodeowners(r) \/ PlanConventions(r)
      <3>1. /\ tenant' = tenant /\ pc[r] \in {"codeowners", "conventions"}
            /\ UNCHANGED <<bound, homeRoot, written>>
            /\ \A k \in 1..Len(materials[r]) :
                  k \in 1..Len(materials'[r]) /\ materials'[r][k] = materials[r][k]
        BY <2>3, <2>6, PlannedBehind
      <3>2. ToCompose(r)
        BY <2>1, <3>1 DEF ToCompose, Holds, Carrying
      <3>3. QED
        BY <2>2, <3>1, <3>2 DEF AsRead
    <2>7. CASE OpenFile(r)
      <3>1. /\ pc[r] = "write" /\ written[r] < Len(materials[r]) /\ pc'[r] = "writing"
            /\ Put(Current(r).path, <<>>)
            /\ UNCHANGED <<bound, homeRoot, materials, written>>
        BY <2>7 DEF OpenFile, Goto, program, IInv, TypeOK
      <3>2. ToCompose(r) /\ Current(r).path # path
        BY <2>1, <3>1 DEF ToCompose, Holds, Current, Carrying
      <3>3. tenant'[path] = tenant[path]
        BY <3>1, <3>2, WriteBefore
      <3>4. QED
        BY <2>2, <3>1, <3>2, <3>3 DEF AsRead
    <2>8. CASE WriteFile(r)
      <3>1. /\ pc[r] = "writing" /\ written[r] < Len(materials[r])
            /\ Put(Current(r).path, Landed(Current(r).contents, tenant[Current(r).path]))
            /\ written'[r] = written[r] + 1 /\ written[r] \in Nat
            /\ UNCHANGED <<bound, homeRoot, materials>>
        BY <2>8 DEF WriteFile, IInv, RunInv, TypeOK
      <3>2. Decoded(bound[r]) /\ GitignorePosition(bound[r]) \in Nat
        <4>1. Decoded(bound[r])
          BY <3>1, CurrentIsASurface
        <4>2. QED
          BY <4>1, ManifestsAssumption
             DEF Decoded, TypedManifest, IsSequence, GitignorePosition
      <3>3. written[r] + 1 < GitignorePosition(bound[r])
        BY <2>1, <3>1 DEF ToCompose
      <3>4. Current(r).path # path
        <4>1. path \in GitignorePaths
          BY <3>2 DEF Decoded, GitignorePaths
        <4>2. Current(r).path \notin GitignorePaths
          BY <3>1, <3>2, <3>3, GitignoreWrite
        <4>3. QED
          BY <4>1, <4>2
      <3>5. ToCompose(r)
        BY <3>1, <3>2, <3>3, <3>4 DEF ToCompose, Holds, Carrying
      <3>6. tenant'[path] = tenant[path]
        BY <3>1, <3>4, WriteBefore
      <3>7. QED
        BY <2>2, <3>1, <3>5, <3>6 DEF AsRead
    <2>9. CASE FaultStep(r)
      <3>1. pc'[r] = "exit"
        BY <2>9 DEF FaultStep, ReadFails, OpenFails, WriteFails, Crash, ExitWith,
           IInv, TypeOK
      <3>2. QED
        BY <2>3, <3>1 DEF Carrying
    <2>10. QED
      BY <1>2, <2>4, <2>5, <2>6, <2>7, <2>8, <2>9 DEF RunStep, Elsewhere
  <1>3. ASSUME TenantStep
        PROVE  ReadInv'
    <2>1. \A r \in Runs : pc'[r] = "idle"
      BY <1>3 DEF TenantStep, EditProjectBlock, RemoveUnmarked, Rebind, RepinTools,
         Author, CanEdit, Alone
    <2>2. QED
      BY <2>1 DEF ReadInv, ToCompose, Carrying
  <1>4. QED
    BY <1>1, <1>2, <1>3 DEF Next

LEMMA InitReadInv == Init => ReadInv
  BY DEF Init, ReadInv, ToCompose, Carrying

(* Who is about to open the gitignore read it as it is, composed it, and so  *)
(* found the mark in it.                                                     *)
LEMMA UnmarkedStays ==
    ASSUME GitignoresApart, Alone, IInv, ReadInv, [Next]_vars,
           NEW path \in GitignorePaths,
           Unmarked(tenant[path]), tenant'[path] # tenant[path]
    PROVE  (\E r \in Runs : Holds(r, path)) \/ authored'[path] = tenant'[path]
  <1>1. /\ path \in TenantPaths
        /\ tenant \in [TenantPaths -> Contents \cup {Absent}]
        /\ authored \in [TenantPaths -> Contents \cup {Absent}]
    BY PathsAreTenantPaths DEF IInv, TypeOK
  <1>2. ASSUME NEW r \in Runs, Written(r)
        PROVE  Holds(r, path)
    <2>1. Current(r).path = path
      BY <1>1, <1>2 DEF Written, Put
    <2>2. CASE pc[r] = "writing"
      BY <2>1, <2>2 DEF Holds
    <2>3. CASE pc[r] = "write"
      <3>1. /\ written[r] + 1 = GitignorePosition(bound[r])
            /\ path = bound[r].files["gitignore"].path
            /\ Decoded(bound[r]) /\ written[r] \in Nat
        BY <1>2, <2>1, GitignoreWrite, CurrentIsASurface DEF Written, IInv, TypeOK
      <3>2. ToCompose(r)
        BY <2>3, <3>1 DEF ToCompose, Carrying, Holds
      <3>3. /\ RegionProven(HomeTree[homeRoot[r]], bound[r])
            /\ GitignoreComposes(HomeTree[homeRoot[r]], bound[r], tenant[path])
        BY <3>1, <3>2 DEF ReadInv, AsRead
      <3>4. TypedHome(HomeTree[homeRoot[r]])
        BY <2>3, HomeIsTyped DEF IInv, RunInv, Progress
      <3>5. tenant[path] \in ReadContents
        BY <1>1 DEF ReadContents
      <3>6. ~ Unmarked(tenant[path])
        BY <3>1, <3>3, <3>4, <3>5, ComposedBlock
      <3>7. QED
        BY <3>6
    <2>4. QED
      BY <1>2, <2>2, <2>3 DEF Written
  <1>3. ASSUME NEW there \in TenantPaths, NEW contents, Author(there, contents)
        PROVE  authored'[path] = tenant'[path]
    <2>1. /\ tenant' = [tenant EXCEPT ![there] = contents]
          /\ authored' = [authored EXCEPT ![there] = contents]
      BY <1>3 DEF Author, Put
    <2>2. QED
      BY <1>1, <2>1
  <1>4. QED
    BY <1>2, <1>3, FilesWritten

(* A gitignore without the mark is never truncated by a run that works alone:*)
(* the only files a run replaces are the ones it found in shape              *)
(* (preserveGitignoreProjectBlock, provision.go:147-163).                    *)
THEOREM UnmarkedIsKept ==
    ASSUME GitignoresApart, Alone
    PROVE  Spec => UnmarkedNeverOverwritten
  <1> DEFINE Kept == \A path \in GitignorePaths :
                        Unmarked(tenant[path]) /\ tenant'[path] # tenant[path] =>
                            \/ \E r \in Runs : Holds(r, path)
                            \/ authored'[path] = tenant'[path]
  <1>1. IInv /\ ReadInv /\ [Next]_vars => ReadInv'
    BY NextKeepsRead
  <1>2. IInv /\ ReadInv /\ [Next]_vars => [Kept]_vars
    BY UnmarkedStays
  <1>3. UnmarkedNeverOverwritten <=> [][Kept]_vars
    BY DEF UnmarkedNeverOverwritten
  <1> HIDE DEF Kept
  <1>4. QED
    BY <1>1, <1>2, <1>3, InitReadInv, InductiveInvariant, PTL DEF Spec

-------------------------------------------------------------------------------
(* Provisioning again what conforms.                                         *)

(* Composing a conforming gitignore gives back the file.                     *)
LEMMA ConformingGitignore ==
    ASSUME NEW h, TypedHome(h), NEW b, Decoded(b), GitignoreConforms(tenant, h, b),
           tenant[b.files["gitignore"].path] \in ReadContents
    PROVE  LET existing == tenant[b.files["gitignore"].path]
           IN  GitignoreMaterial(h, b, existing).contents = existing
  <1> DEFINE existing == tenant[b.files["gitignore"].path]
             region == BoundRegion(h, b)
  <1>1. existing # Absent /\ RegionProven(h, b) /\ IsPrefix(region, existing)
    BY DEF GitignoreConforms
  <1>2. region \in Seq(Chunk) /\ existing \in Seq(Chunk)
    BY <1>1, BoundRegionType DEF Decoded, ReadContents, Contents
  <1>3. GitignoreMaterial(h, b, existing).contents
           = region \o After(existing, Len(region))
    BY <1>1 DEF GitignoreMaterial, Material, Preserved
  <1> HIDE DEF existing, region
  <1>4. region \o After(existing, Len(region)) = existing
    BY <1>1, <1>2, PrefixAndAfter
  <1>5. QED
    BY <1>3, <1>4 DEF existing

LEMMA ReapplyStep ==
    ASSUME GitignoresApart, IInv, ReadInv
    PROVE  ReapplyIsStable
  <1>1. SUFFICES ASSUME NEW r \in Runs, pc[r] = "write", written[r] = 0,
                        SurfacesConform(tenant, HomeTree[homeRoot[r]], bound[r]),
                        NEW i \in DOMAIN materials[r]
                 PROVE  tenant[materials[r][i].path] = materials[r][i].contents
    BY DEF ReapplyIsStable
  <1> DEFINE h == HomeTree[homeRoot[r]]
             b == bound[r]
             plan == materials[r]
             callers == Len(b.callers)
             path == b.files["gitignore"].path
             Same(m) == tenant[m.path] = m.contents
  <1>2. Decoded(b) /\ TypedHome(h) /\ RunInv(r)
    BY <1>1, HomeIsTyped DEF IInv, RunInv, Progress
  <1>3. PICK existing \in ReadContents :
           Proven5(h, b, existing) /\ plan = Plan5(h, b, existing)
    BY <1>1, <1>2 DEF RunInv, Planned
  <1>4. LaidOut(h, b, existing, plan)
    <2>1. LaidOut(h, b, existing, Plan5(h, b, existing))
      <3> HIDE DEF h, b
      <3>1. QED
        BY <1>2, <1>3, PlanContents
    <2> HIDE DEF plan, h, b
    <2>2. QED
      BY <1>3, <2>1
  <1>5. /\ callers \in Nat
        /\ Len(plan) = callers + 5 + (IF b.conventions = Unbound THEN 0 ELSE 1)
        /\ \A k \in 1..callers : plan[k] = CallerMaterials(h, b)[k]
        /\ \A k \in 1..3 : plan[callers + k] = FileTopicMaterials(h, b)[k]
        /\ plan[callers + 4] = GitignoreMaterial(h, b, existing)
        /\ plan[callers + 5] = CodeownersMaterial(h, b)
        /\ b.conventions # Unbound =>
              plan[callers + 6] = ConventionsMaterials(h, b)[1]
    <2> HIDE DEF plan, h, b
    <2>1. QED
      BY <1>4 DEF LaidOut, callers
  <1>6. i \in 1..Len(plan)
    <2>1. plan \in Seq(PlannedMaterial)
      BY <1>1, CompletePlanPaths
    <2>2. QED
      BY <2>1
  <1>7. /\ CallersProven(h, b) /\ FileTopicsProven(h, b) /\ RegionProven(h, b)
        /\ CallersConform(tenant, h, b) /\ GitignoreConforms(tenant, h, b)
        /\ \A k \in DOMAIN FileTopics :
              FileTopicConforms(tenant, h, b, FileTopics[k])
        /\ CodeownersConforms(tenant, h, b) /\ ConventionsConform(tenant, h, b)
    BY <1>1, <1>3 DEF Proven2, Proven3, Proven4, Proven5, SurfacesConform
  <1>8. ASSUME NEW k \in 1..callers
        PROVE  Same(plan[k])
    <2>1. k \in DOMAIN b.callers
      BY <1>2, ManifestsAssumption DEF Decoded, TypedManifest, IsSequence
    <2>2. /\ Sum256Hex(h[b.callers[k].master]) = b.callers[k].sha256
          /\ Sum256Hex(tenant[b.callers[k].file]) = b.callers[k].sha256
      BY <1>7, <2>1
         DEF CallersProven, MasterProven, CallersConform, CallerConforms
    <2>3. tenant[b.callers[k].file] = h[b.callers[k].master]
      BY <2>2, DigestsName
    <2>4. plan[k] = Material(b.callers[k].file, h[b.callers[k].master])
      BY <1>5 DEF CallerMaterials
    <2>5. QED
      BY <2>3, <2>4 DEF Material
  <1>9. ASSUME NEW k \in 1..3
        PROVE  Same(plan[callers + k])
    <2> DEFINE topic == FileTopics[k]
    <2>1. Len(FileTopics) = 3 /\ DOMAIN FileTopics = 1..3
      BY DEF FileTopics
    <2>2. /\ Sum256Hex(h[TopicPath(topic)]) = b.files[topic].sha256
          /\ Sum256Hex(tenant[b.files[topic].path]) = b.files[topic].sha256
      BY <1>7, <2>1 DEF FileTopicsProven, MasterProven, FileTopicConforms
    <2>3. tenant[b.files[topic].path] = h[TopicPath(topic)]
      BY <2>2, DigestsName
    <2>4. plan[callers + k] = Material(b.files[topic].path, h[TopicPath(topic)])
      BY <1>5, <2>1 DEF FileTopicMaterials
    <2>5. QED
      BY <2>3, <2>4 DEF Material
  <1>10. Same(plan[callers + 4])
    <2>1. GitignorePosition(b) = callers + 4 /\ path \in TenantPaths
      BY <1>2, PathsAreTenantPaths DEF GitignorePosition, Decoded, GitignorePaths
    <2>2. written[r] < GitignorePosition(b)
      BY <1>1, <1>5, <2>1
    <2>3. ToCompose(r)
      BY <1>1, <2>2 DEF ToCompose, Carrying, Holds
    <2>4. plan[callers + 4] = GitignoreMaterial(h, b, tenant[path])
      BY <2>1, <2>3 DEF ReadInv, AsRead
    <2>5. tenant[path] \in ReadContents
      BY <2>1 DEF IInv, TypeOK, ReadContents
    <2>6. GitignoreMaterial(h, b, tenant[path]).contents = tenant[path]
      BY <1>2, <1>7, <2>5, ConformingGitignore
    <2>7. GitignoreMaterial(h, b, tenant[path]).path = path
      BY DEF GitignoreMaterial, Material
    <2>8. QED
      BY <2>4, <2>6, <2>7
  <1>11. Same(plan[callers + 5])
    BY <1>5, <1>7 DEF CodeownersMaterial, Material, CodeownersConforms
  <1>12. ASSUME b.conventions # Unbound
         PROVE  Same(plan[callers + 6])
    <2>1. tenant[b.conventions.path] = RenderedConventions(h, b)
      BY <1>7, <1>12 DEF ConventionsConform
    <2>2. plan[callers + 6] = ConventionsMaterials(h, b)[1]
      BY <1>5, <1>12
    <2>3. ConventionsMaterials(h, b)[1]
             = Material(b.conventions.path, RenderedConventions(h, b))
      BY <1>12 DEF ConventionsMaterials
    <2>4. QED
      BY <2>1, <2>2, <2>3 DEF Material
  <1>13. Same(plan[i])
    <2> DEFINE Fine(k) == Same(plan[k])
    <2>1. /\ \A k \in 1..callers : Fine(k)
          /\ \A k \in 1..3 : Fine(callers + k)
          /\ Fine(callers + 4) /\ Fine(callers + 5)
          /\ b.conventions # Unbound => Fine(callers + 6)
      BY <1>8, <1>9, <1>10, <1>11, <1>12
    <2>2. i \in 1..(callers + 5 + (IF b.conventions = Unbound THEN 0 ELSE 1))
      BY <1>5, <1>6
    <2> HIDE DEF Fine, callers, b, plan
    <2>3. \/ i \in 1..callers
          \/ \E k \in 1..3 : i = callers + k
          \/ i = callers + 4 \/ i = callers + 5
          \/ b.conventions # Unbound /\ i = callers + 6
      BY <1>5, <2>2
    <2>4. Fine(i)
      BY <2>1, <2>3
    <2>5. QED
      BY <2>4 DEF Fine
  <1>14. QED
    BY <1>13

(* A run that works alone over a tenant that conforms rewrites every surface *)
(* with the bytes it has: applying is idempotent (provision.go:104-112).     *)
THEOREM ReapplyChangesNothing ==
    ASSUME GitignoresApart, Alone
    PROVE  Spec => []ReapplyIsStable
  <1>1. IInv /\ ReadInv /\ [Next]_vars => ReadInv'
    BY NextKeepsRead
  <1>2. IInv /\ ReadInv => ReapplyIsStable
    BY ReapplyStep
  <1>3. QED
    BY <1>1, <1>2, InitReadInv, InductiveInvariant, PTL DEF Spec

===============================================================================
