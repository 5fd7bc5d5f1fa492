---------------------------- MODULE VerifierProofs -----------------------------
(***************************************************************************)
(* What a pass of the verifier proves, for every checkout, home, registry  *)
(* and pattern of failing calls.                                           *)
(***************************************************************************)
EXTENDS Verifier, GovernedRegionProofs

(* The families that were judged before a place of the process is reached.   *)
Behind ==
    [decode |-> {}, home |-> {}, callers |-> {},
     files |-> {"callers"},
     codeowners |-> {"callers", "files"},
     conventions |-> {"callers", "files", "codeowners"},
     quality |-> {"callers", "files", "codeowners", "conventions"},
     extends |-> {"callers", "files", "codeowners", "conventions", "quality"},
     tooling |-> {"callers", "files", "codeowners", "conventions", "quality"},
     identity |-> {"callers", "files", "codeowners", "conventions", "quality"},
     locate |-> {"callers", "files", "codeowners", "conventions", "quality"},
     packs |-> {"callers", "files", "codeowners", "conventions", "quality"},
     toolchain |-> {"callers", "files", "codeowners", "conventions", "quality"},
     tools |-> {"callers", "files", "codeowners", "conventions", "quality",
                "toolchain"},
     license |-> {"callers", "files", "codeowners", "conventions", "quality",
                  "toolchain", "tools"},
     report |-> {"callers", "files", "codeowners", "conventions", "quality",
                 "toolchain", "tools", "license"}]

FilesConform(t, h, b) ==
    /\ \A i \in DOMAIN FileTopics : FileTopicConforms(t, h, b, FileTopics[i])
    /\ GitignoreConforms(t, h, b)

(* What a family that has no finding has proven of the tree.                 *)
Holds(family) ==
    /\ family = "callers" => CallersConform(tenant, home, bound)
    /\ family = "files" => FilesConform(tenant, home, bound)
    /\ family = "codeowners" => CodeownersConforms(tenant, home, bound)
    /\ family = "conventions" => ConventionsConform(tenant, home, bound)
    /\ family = "quality" => QualityConforms(tenant, bound)
    /\ family = "toolchain" => /\ tenant[GoModPath] # Absent
                               /\ ToolchainConforms(tenant[GoModPath])
    /\ family = "tools" =>
          ToolsConform(tenant, home, bound, Resolved(tooling, Authority))
    /\ family = "license" => LicenseConforms(tenant, bound)

IsDecoded == Decodes(tenant[BindingsFileName])

(* Every family behind the process has a finding or holds.                   *)
Judged(place) == \A family \in Behind[place] : family \in findings \/ Holds(family)

PassInv ==
    /\ pc \in DOMAIN Behind \cup {"done"}
    /\ pc # "done" => exit = -1 /\ Judged(pc)
    /\ pc \notin {"decode", "done"} => IsDecoded
    /\ exit = 0 => IsDecoded /\ \A family \in Behind["report"] : Holds(family)

-------------------------------------------------------------------------------
(* Nothing a family proves depends on more than the checkout, the manifest   *)
(* and the home, which no step changes once they are read.                   *)
LEMMA HoldsIsStable ==
    ASSUME UNCHANGED <<world, program>>, NEW family, Holds(family)
    PROVE  Holds(family)'
PROOF
  <1>1. tenant' = tenant /\ bound' = bound /\ homeRoot' = homeRoot
    BY DEF world, program
  <1>2. home' = home /\ tooling' = tooling
    BY <1>1 DEF home, tooling
  <1> QED
    BY <1>1, <1>2 DEF Holds, tooling, home, Resolved

(* A family's verdict: a step that only adds its finding, or proves it,      *)
(* carries everything judged so far to the next place.                       *)
LEMMA JudgedGrows ==
    ASSUME UNCHANGED <<world, program>>,
           Judged(pc), findings \subseteq findings',
           \A family \in Behind[pc'] :
              \/ family \in Behind[pc]
              \/ family \in findings' \/ Holds(family)
    PROVE  Judged(pc)'
PROOF
  <1> SUFFICES ASSUME NEW family \in Behind[pc']
               PROVE  family \in findings' \/ Holds(family)'
    BY DEF Judged, Behind
  <1>1. family \in findings' \/ Holds(family)
    BY DEF Judged
  <1> QED
    BY <1>1, HoldsIsStable

(* A family's step leaves its finding, or what it proves holds.              *)
LEMMA FamilyStepKeepsInv ==
    ASSUME PassInv, NEW family \in DOMAIN FamilyAfter,
           pc = family, pc' = FamilyAfter[family],
           UNCHANGED <<world, program, exit>>,
           findings \subseteq findings', family \in findings' \/ Holds(family)
    PROVE  PassInv'
PROOF
  <1>1. /\ pc' \in DOMAIN Behind \ {"decode", "done"}
        /\ pc \in DOMAIN Behind \ {"decode", "done"}
        /\ \A f \in Behind[pc'] : f \in Behind[pc] \/ f = family
    BY DEF FamilyAfter, Behind
  <1>2. Judged(pc) /\ exit = -1 /\ IsDecoded
    BY <1>1 DEF PassInv
  <1>3. Judged(pc)'
    BY <1>1, <1>2, JudgedGrows
  <1>4. IsDecoded'
    BY <1>2 DEF IsDecoded, world
  <1> QED
    BY <1>1, <1>2, <1>3, <1>4 DEF PassInv

(* A step of the capability packs, before or within them: no family comes    *)
(* behind, and no finding is taken back.                                     *)
LEMMA OtherStepKeepsInv ==
    ASSUME PassInv, UNCHANGED <<world, program, exit>>,
           pc \in DOMAIN Behind \ {"decode"},
           pc' \in DOMAIN Behind \ {"decode"},
           Behind[pc'] = Behind[pc], findings \subseteq findings'
    PROVE  PassInv'
PROOF
  <1>1. pc # "done" /\ pc' # "done" /\ exit' = exit
    BY DEF Behind
  <1>2. Judged(pc) /\ exit = -1 /\ IsDecoded
    BY <1>1 DEF PassInv
  <1>3. Judged(pc)'
    BY <1>2, JudgedGrows
  <1>4. IsDecoded'
    BY <1>2 DEF IsDecoded, world
  <1> QED
    BY <1>1, <1>2, <1>3, <1>4 DEF PassInv

(* A run that is given up exits with 1.                                      *)
LEMMA AbortKeepsInv ==
    ASSUME Abort PROVE PassInv'
PROOF
  BY DEF Abort, PassInv

(* Init and every step keep the invariant.                                   *)
LEMMA InitPassInv == Init => PassInv
PROOF
  BY DEF Init, PassInv, Judged, Behind

LEMMA DecodeKeepsInv ==
    ASSUME PassInv, DecodeTenantBindings PROVE PassInv'
PROOF
  <1>1. CASE IsDecoded
    <2>1. /\ pc' = "home" /\ exit' = exit /\ exit = -1 /\ IsDecoded'
      BY <1>1 DEF DecodeTenantBindings, IsDecoded, PassInv, world
    <2> QED
      BY <2>1 DEF PassInv, Judged, Behind
  <1>2. CASE ~ IsDecoded
    BY <1>2, AbortKeepsInv DEF DecodeTenantBindings, IsDecoded
  <1> QED
    BY <1>1, <1>2

LEMMA ResolveHomeKeepsInv ==
    ASSUME PassInv, ResolveHomeRoot PROVE PassInv'
PROOF
  <1>1. CASE Abort
    BY <1>1, AbortKeepsInv
  <1>2. CASE pc' = "callers" /\ UNCHANGED exit
    <2>1. exit' = -1 /\ IsDecoded /\ IsDecoded'
      BY <1>2 DEF ResolveHomeRoot, PassInv, IsDecoded, world
    <2> QED
      BY <1>2, <2>1 DEF PassInv, Judged, Behind
  <1> QED
    BY <1>1, <1>2 DEF ResolveHomeRoot

LEMMA PacksKeepInv ==
    ASSUME PassInv,
           \/ VerifyExtends
           \/ ToolingReadFails \/ RegistryReadFails \/ RegistryVanishes
           \/ RegistryResolutionFails
           \/ ReferencesReadFails \/ IdentityReadFails
    PROVE  PassInv'
PROOF
  <1> DEFINE Extending == {"extends", "tooling", "identity", "locate", "packs"}
  <1>1. /\ UNCHANGED <<world, program, exit>>
        /\ pc \in Extending
        /\ pc' \in Extending \cup {"toolchain"}
        /\ findings \subseteq findings'
    <2>1. CASE ReadReferences \/ RequireTooling \/ ReadIdentity
      BY <2>1 DEF ReadReferences, RequireTooling, ReadIdentity, Judge
    <2>2. CASE LocateRegistry \/ RegistryResolutionFails
      BY <2>2 DEF LocateRegistry, RegistryResolutionFails, Locate
    <2>3. CASE ResolvePack \/ RegistryReadFails \/ RegistryVanishes
      BY <2>3 DEF ResolvePack, RegistryReadFails, RegistryVanishes, PackDone, Judge
    <2>4. CASE ToolingReadFails \/ ReferencesReadFails \/ IdentityReadFails
      BY <2>4 DEF ToolingReadFails, ReferencesReadFails, IdentityReadFails, Judge
    <2> QED
      BY <2>1, <2>2, <2>3, <2>4 DEF VerifyExtends
  <1>2. /\ pc \in DOMAIN Behind \ {"decode"}
        /\ pc' \in DOMAIN Behind \ {"decode"}
        /\ Behind[pc'] = Behind[pc]
    BY <1>1 DEF Behind
  <1> QED
    BY <1>1, <1>2, OtherStepKeepsInv

LEMMA ReportKeepsInv ==
    ASSUME PassInv, Report PROVE PassInv'
PROOF
  <1>1. pc = "report" /\ pc' = "done" /\ UNCHANGED <<world, program, findings>>
    BY DEF Report
  <1>2. IsDecoded /\ \A family \in Behind["report"] :
                        family \in findings \/ Holds(family)
    BY <1>1 DEF PassInv, Judged, Behind
  <1>3. IsDecoded'
    BY <1>1, <1>2 DEF IsDecoded, world
  <1>4. exit' = 0 => \A family \in Behind["report"] : Holds(family)'
    <2> SUFFICES ASSUME exit' = 0, NEW family \in Behind["report"]
                 PROVE  Holds(family)'
      OBVIOUS
    <2>1. findings = {}
      BY DEF Report
    <2>2. Holds(family)
      BY <2>1, <1>2
    <2> QED
      BY <2>2, <1>1, HoldsIsStable
  <1> QED
    BY <1>1, <1>3, <1>4 DEF PassInv

(* One step per family, callers, files, ..., license, and its failing calls. *)
LEMMA FamiliesKeepInv ==
    ASSUME PassInv,
           \/ VerifyCallers \/ VerifyFiles \/ VerifyCodeowners
           \/ VerifyConventions \/ VerifyQuality \/ VerifyToolchain
           \/ VerifyTools \/ VerifyLicense \/ FamilyFails
    PROVE  PassInv'
PROOF
  <1> SUFFICES ASSUME NEW family \in DOMAIN FamilyAfter, pc = family
               PROVE  /\ pc' = FamilyAfter[family]
                      /\ UNCHANGED <<world, program, exit>>
                      /\ findings \subseteq findings'
                      /\ family \in findings' \/ Holds(family)
    <2>1. pc \in DOMAIN FamilyAfter
      BY DEF VerifyCallers, VerifyFiles, VerifyCodeowners, VerifyConventions,
             VerifyQuality, VerifyToolchain, VerifyTools, VerifyLicense,
             FamilyFails, Prove, FamilyAfter
    <2> QED
      BY <2>1, FamilyStepKeepsInv
  <1>1. CASE VerifyCallers
    BY <1>1 DEF VerifyCallers, Prove, Judge, Holds, FamilyAfter
  <1>2. CASE VerifyFiles
    BY <1>2 DEF VerifyFiles, Prove, Judge, Holds, FamilyAfter, FilesConform
  <1>3. CASE VerifyCodeowners
    BY <1>3 DEF VerifyCodeowners, Prove, Judge, Holds, FamilyAfter
  <1>4. CASE VerifyConventions
    BY <1>4 DEF VerifyConventions, Prove, Judge, Holds, FamilyAfter
  <1>5. CASE VerifyQuality
    BY <1>5 DEF VerifyQuality, Prove, Judge, Holds, FamilyAfter
  <1>6. CASE VerifyToolchain
    BY <1>6 DEF VerifyToolchain, Prove, Judge, Holds, FamilyAfter
  <1>7. CASE VerifyTools
    BY <1>7 DEF VerifyTools, Prove, Judge, Holds, FamilyAfter
  <1>8. CASE VerifyLicense
    BY <1>8 DEF VerifyLicense, Prove, Judge, Holds, FamilyAfter
  <1>9. CASE FamilyFails
    BY <1>9 DEF FamilyFails, Judge
  <1> QED
    BY <1>1, <1>2, <1>3, <1>4, <1>5, <1>6, <1>7, <1>8, <1>9

LEMMA NextKeepsInv ==
    ASSUME PassInv, [Next]_vars PROVE PassInv'
PROOF
  <1>1. CASE DecodeTenantBindings
    BY <1>1, DecodeKeepsInv
  <1>2. CASE ResolveHomeRoot
    BY <1>2, ResolveHomeKeepsInv
  <1>3. CASE \/ VerifyCallers \/ VerifyFiles \/ VerifyCodeowners
             \/ VerifyConventions \/ VerifyQuality \/ VerifyToolchain
             \/ VerifyTools \/ VerifyLicense \/ FamilyFails
    BY <1>3, FamiliesKeepInv
  <1>4. CASE \/ VerifyExtends
             \/ ToolingReadFails \/ RegistryReadFails \/ RegistryVanishes
           \/ RegistryResolutionFails
             \/ ReferencesReadFails \/ IdentityReadFails
    BY <1>4, PacksKeepInv
  <1>5. CASE Report
    BY <1>5, ReportKeepsInv
  <1>6. CASE ManifestReadFails \/ HomeResolutionFails
    BY <1>6, AbortKeepsInv DEF ManifestReadFails, HomeResolutionFails
  <1>7. CASE UNCHANGED vars
    <2>1. /\ UNCHANGED <<world, program>>
          /\ pc' = pc /\ exit' = exit /\ findings' = findings
      BY <1>7 DEF vars
    <2>2. IsDecoded' = IsDecoded
      BY <2>1 DEF IsDecoded, world
    <2>3. pc # "done" => Judged(pc)'
      BY <2>1, JudgedGrows DEF PassInv
    <2>4. exit = 0 => \A family \in Behind["report"] : Holds(family)'
      BY <2>1, HoldsIsStable DEF PassInv
    <2> QED
      BY <2>1, <2>2, <2>3, <2>4 DEF PassInv
  <1> QED
    BY <1>1, <1>2, <1>3, <1>4, <1>5, <1>6, <1>7 DEF Next, Step, Failure

LEMMA PassInvSuffices == PassInv => OnlyPacksCanBeSkipped
PROOF
  <1> SUFFICES ASSUME PassInv, exit = 0
               PROVE  IsDecoded /\ ConformsButForPacks(tenant, home, bound)
    BY DEF OnlyPacksCanBeSkipped, IsDecoded
  <1>1. IsDecoded /\ \A family \in {"callers", "files", "codeowners", "conventions",
                                    "quality", "toolchain", "tools", "license"} :
                        Holds(family)
    BY DEF PassInv, Behind
  <1>2. /\ CallersConform(tenant, home, bound) /\ FilesConform(tenant, home, bound)
        /\ CodeownersConforms(tenant, home, bound)
        /\ ConventionsConform(tenant, home, bound)
    BY <1>1 DEF Holds
  <1>3. /\ QualityConforms(tenant, bound)
        /\ tenant[GoModPath] # Absent /\ ToolchainConforms(tenant[GoModPath])
        /\ ToolsConform(tenant, home, bound, Resolved(tooling, Authority))
        /\ LicenseConforms(tenant, bound)
    BY <1>1 DEF Holds
  <1> QED
    BY <1>1, <1>2, <1>3
       DEF ConformsButForPacks, SurfacesConform, FilesConform, tooling

(* For every checkout, home, manifest, module tree and pattern of failing    *)
(* calls, also those whose failure the code passes over: a run that exits 0  *)
(* proved every family but the capability packs of the tree it read          *)
(* (Verify and Report, verify.go:43-78).                                     *)
THEOREM PassProvesTheFamilies == Spec => []OnlyPacksCanBeSkipped
PROOF
  <1>1. Init => PassInv
    BY InitPassInv
  <1>2. PassInv /\ [Next]_vars => PassInv'
    BY NextKeepsInv
  <1>3. PassInv => OnlyPacksCanBeSkipped
    BY PassInvSuffices
  <1> QED
    BY <1>1, <1>2, <1>3, PTL DEF Spec
-------------------------------------------------------------------------------
(* The loop that keeps the pinned declarations, and what it has kept after   *)
(* n of them.                                                                *)
IsLoop(kept, declared, n) ==
    kept = [i \in 0..n |->
               IF i = 0 THEN <<>>
               ELSE IF declared[i].pinned THEN Append(kept[i - 1], declared[i])
               ELSE kept[i - 1]]

(* What the loop keeps: declarations, pinned ones, and all of them exactly   *)
(* if all are pinned (verifyExtends, extends.go:142-154).                    *)
LEMMA ParsedKeepsThePinned ==
    ASSUME NEW declared, IsSequence(declared)
    PROVE  /\ Parsed(declared) \in Seq({declared[j] : j \in DOMAIN declared})
           /\ \A i \in DOMAIN Parsed(declared) : Parsed(declared)[i].pinned
           /\ (\A j \in DOMAIN declared : declared[j].pinned)
                 => Parsed(declared) = declared
           /\ Len(Parsed(declared)) = Len(declared)
                 => \A j \in DOMAIN declared : declared[j].pinned
PROOF
  <1> DEFINE n == Len(declared)
             Kept == {declared[j] : j \in DOMAIN declared}
  <1>1. n \in Nat /\ DOMAIN declared = 1..n
    BY DEF IsSequence
  <1>2. \E kept : IsLoop(kept, declared, n)
    <2> DEFINE step == [i \in 1..n |-> [kept \in Seq(Kept) |->
                          IF declared[i].pinned THEN Append(kept, declared[i]) ELSE kept]]
    <2>1. step \in [1..n -> [Seq(Kept) -> Seq(Kept)]]
      BY <1>1
    <2>2. <<>> \in Seq(Kept)
      OBVIOUS
    <2>3. PICK kept \in [0..n -> Seq(Kept)] :
             kept[0] = <<>> /\ \A i \in 1..n : kept[i] = step[i][kept[i - 1]]
      <3> DEFINE start == <<>>
                 S == Seq(Kept)
      <3>1. start \in S /\ n \in Nat /\ step \in [1..n -> [S -> S]]
        BY <1>1, <2>1, <2>2
      <3> HIDE DEF step, n, start, S
      <3>2. \E kept \in [0..n -> S] :
               kept[0] = start /\ \A i \in 1..n : kept[i] = step[i][kept[i - 1]]
        BY <3>1, LoopRuns
      <3> QED
        BY <3>2 DEF start, S
    <2> HIDE DEF step
    <2>4. \A i \in 1..n :
             kept[i] = IF declared[i].pinned
                       THEN Append(kept[i - 1], declared[i]) ELSE kept[i - 1]
      <3>1. \A i \in 1..n : i - 1 \in 0..n
        BY <1>1
      <3> QED
        BY <2>3, <3>1 DEF step
    <2>5. kept = [i \in 0..n |-> kept[i]]
      OBVIOUS
    <2>6. \A i \in 0..n : i = 0 \/ i \in 1..n
      BY <1>1
    <2>7. kept = [i \in 0..n |->
                    IF i = 0 THEN <<>>
                    ELSE IF declared[i].pinned THEN Append(kept[i - 1], declared[i])
                    ELSE kept[i - 1]]
      BY <2>3, <2>4, <2>5, <2>6
    <2> QED
      BY <2>7 DEF IsLoop
  <1> DEFINE loop == CHOOSE k : IsLoop(k, declared, n)
  <1>3. IsLoop(loop, declared, n)
    BY <1>2
  <1>4. Parsed(declared) = loop[n]
    BY DEF Parsed, IsLoop
  <1>5. \A i \in 0..n :
            loop[i] = IF i = 0 THEN <<>>
                      ELSE IF declared[i].pinned
                      THEN Append(loop[i - 1], declared[i]) ELSE loop[i - 1]
    BY <1>3 DEF IsLoop
  <1> HIDE DEF loop
  <1> DEFINE Pinned(i) == \A j \in 1..i : declared[j].pinned
             Through(i) ==
                /\ loop[i] \in Seq(Kept)
                /\ Len(loop[i]) <= i
                /\ \A k \in 1..Len(loop[i]) : loop[i][k].pinned
                /\ Pinned(i) =>
                      Len(loop[i]) = i /\ \A k \in 1..i : loop[i][k] = declared[k]
                /\ Len(loop[i]) = i => Pinned(i)
             Good == {i \in 0..n : Through(i)}
  <1>6. 0 \in Good
    <2>1. loop[0] = <<>> /\ 0 \in 0..n
      BY <1>1, <1>5
    <2>2. Len(loop[0]) = 0 /\ loop[0] \in Seq(Kept)
      BY <2>1
    <2>3. Through(0)
      BY <2>2
    <2> HIDE DEF Through
    <2> QED
      BY <2>1, <2>3
  <1>7. ASSUME NEW i \in 0..(n - 1), i \in Good PROVE i + 1 \in Good
    <2>1. /\ i \in Nat /\ i + 1 \in 0..n /\ i + 1 \in 1..n
          /\ (i + 1) - 1 = i /\ i + 1 # 0
      BY <1>1
    <2>2. Through(i)
      BY <1>7
    <2>3. declared[i + 1] \in Kept
      BY <2>1, <1>1
    <2>4. CASE declared[i + 1].pinned
      <3>1. loop[i + 1] = Append(loop[i], declared[i + 1])
        BY <2>1, <2>4, <1>5
      <3>2. /\ loop[i + 1] \in Seq(Kept) /\ Len(loop[i + 1]) = Len(loop[i]) + 1
            /\ \A k \in 1..Len(loop[i]) : loop[i + 1][k] = loop[i][k]
            /\ loop[i + 1][Len(loop[i]) + 1] = declared[i + 1]
            /\ Len(loop[i]) \in Nat
        BY <3>1, <2>2, <2>3
      <3>3. \A k \in 1..Len(loop[i + 1]) : loop[i + 1][k].pinned
        <4>1. \A k \in 1..Len(loop[i + 1]) :
                  k \in 1..Len(loop[i]) \/ k = Len(loop[i]) + 1
          BY <3>2
        <4> QED
          BY <4>1, <3>2, <2>2, <2>4
      <3>4. Pinned(i + 1) => Len(loop[i + 1]) = i + 1
                             /\ \A k \in 1..(i + 1) : loop[i + 1][k] = declared[k]
        <4> SUFFICES ASSUME Pinned(i + 1)
                     PROVE  Len(loop[i + 1]) = i + 1
                            /\ \A k \in 1..(i + 1) : loop[i + 1][k] = declared[k]
          OBVIOUS
        <4>1. Pinned(i)
          BY <2>1
        <4>2. Len(loop[i]) = i /\ \A k \in 1..i : loop[i][k] = declared[k]
          BY <4>1, <2>2
        <4>3. \A k \in 1..(i + 1) : k \in 1..i \/ k = i + 1
          BY <2>1
        <4> QED
          BY <4>2, <4>3, <3>2, <2>1
      <3>5. Len(loop[i + 1]) = i + 1 => Pinned(i + 1)
        BY <3>2, <2>1, <2>2, <2>4
      <3> QED
        BY <2>1, <2>2, <3>2, <3>3, <3>4, <3>5
    <2>5. CASE ~ declared[i + 1].pinned
      <3>1. loop[i + 1] = loop[i]
        BY <2>1, <2>5, <1>5
      <3>2. ~ Pinned(i + 1) /\ Len(loop[i]) \in Nat
        BY <2>1, <2>2, <2>5
      <3> QED
        BY <2>1, <2>2, <3>1, <3>2
    <2> QED
      BY <2>4, <2>5
  <1> HIDE DEF Good
  <1>8. 0..n \subseteq Good
    <2>1. \A i \in 0..(n - 1) : i \in Good => i + 1 \in Good
      BY <1>7
    <2> HIDE DEF n
    <2> QED
      BY <1>1, <1>6, <2>1, UpTo
  <1>9. Through(n)
    <2>1. n \in Good
      BY <1>1, <1>8
    <2> HIDE DEF Through, n
    <2> QED
      BY <2>1 DEF Good
  <1>10. loop[n] \in Seq(Kept) /\ DOMAIN loop[n] = 1..Len(loop[n])
    BY <1>9
  <1>11. Pinned(n) => loop[n] = declared
    BY <1>1, <1>9, <1>10 DEF IsSequence
  <1> QED
    BY <1>1, <1>4, <1>9, <1>10, <1>11

-------------------------------------------------------------------------------
(* Where the process is, and what it holds there.                            *)
Unread ==
    {"decode", "home", "callers", "files", "codeowners", "conventions", "quality",
     "extends"}
Searching == {"tooling", "identity", "locate", "packs"}
Searched == {"toolchain", "tools", "license", "report"}

BoundIsRead == IsDecoded /\ bound = tenant[BindingsFileName][1].bindings

PlaceInv ==
    /\ pc = "decode" => bound = None
    /\ pc \in {"decode", "home"} => homeRoot = None /\ findings = {}
    /\ pc \notin {"decode", "done"} => BoundIsRead
    /\ pc # "done" => exit = -1
    /\ exit = 0 => BoundIsRead
    /\ pc \in Unread => references = <<>>
    /\ pc \in Unread \cup {"tooling", "identity"} => owners = <<Authority, Kernel>>
    /\ pc = "locate" => owners \in {<<Authority, Kernel>>, <<Kernel>>}
    /\ pc = "packs" => owners = <<>>
    /\ IsSequence(references)
    /\ pc \in Searching => references # <<>>

ConfigSeam == tenant[bound.quality.config]
Declared == IF QualityDecodes(ConfigSeam) THEN ConfigSeam[1].extends ELSE <<>>

(* A behavior's faults are typed, and those there were remain.               *)
LEMMA FaultIsTyped ==
    ASSUME TypeOK, NEW kind, Fault(kind)
    PROVE  /\ faults' \in BoundedSeq(Faults, MaxFaults)
           /\ faults' # <<>>
           /\ Range(faults') = Range(faults) \cup {kind}
PROOF
  <1>1. PICK n \in 0..MaxFaults : faults \in [1..n -> Faults]
    BY DEF TypeOK, BoundedSeq, SeqOf
  <1>2. n \in Nat /\ MaxFaults \in Nat
    BY VerifierAssumption
  <1>3. faults \in Seq(Faults) /\ Len(faults) = n /\ n < MaxFaults
    BY <1>1, <1>2 DEF Fault
  <1>4. /\ faults' \in Seq(Faults) /\ Len(faults') = n + 1
        /\ \A i \in 1..n : faults'[i] = faults[i]
        /\ faults'[n + 1] = kind
    BY <1>3 DEF Fault
  <1>5. DOMAIN faults' = 1..(n + 1) /\ DOMAIN faults = 1..n
    BY <1>3, <1>4
  <1>6. faults' \in [1..(n + 1) -> Faults] /\ n + 1 \in 0..MaxFaults
    BY <1>2, <1>3, <1>4
  <1>7. faults' \in BoundedSeq(Faults, MaxFaults)
    BY <1>6 DEF BoundedSeq, SeqOf
  <1>8. \A i : i \in 1..(n + 1) <=> i \in 1..n \/ i = n + 1
    BY <1>2
  <1>9. Range(faults') = Range(faults) \cup {kind}
    BY <1>4, <1>5, <1>8 DEF Range
  <1> QED
    BY <1>4, <1>2, <1>7, <1>9

LEMMA ZeroLength ==
    ASSUME NEW S, NEW s \in Seq(S) PROVE s = <<>> <=> Len(s) = 0
PROOF
  BY DEF Seq

LEMMA SeqIsSequence ==
    ASSUME NEW S, NEW s \in Seq(S) PROVE IsSequence(s)
PROOF
  BY DEF IsSequence

(* The references that are left once one is done.                            *)
LEMMA TailOfReferences ==
    ASSUME IsSequence(references), references # <<>>
    PROVE  /\ IsSequence(Tail(references))
           /\ (Tail(references) = <<>>) <=> (Len(references) = 1)
           /\ 1 \in DOMAIN references /\ Head(references) = references[1]
           /\ \A i \in DOMAIN Tail(references) :
                 i + 1 \in DOMAIN references /\ Tail(references)[i] = references[i + 1]
           /\ \A i \in DOMAIN references :
                 \/ i = 1
                 \/ /\ i - 1 \in DOMAIN Tail(references)
                    /\ references[i] = Tail(references)[i - 1]
PROOF
  <1> DEFINE Some == {references[i] : i \in DOMAIN references}
  <1>1. references \in Seq(Some)
    BY DEF IsSequence
  <1> HIDE DEF Some
  <1>2. /\ Tail(references) \in Seq(Some) /\ Len(Tail(references)) = Len(references) - 1
        /\ \A i \in 1..(Len(references) - 1) : Tail(references)[i] = references[i + 1]
        /\ Len(references) \in Nat /\ Len(references) # 0
    BY <1>1
  <1>3. DOMAIN references = 1..Len(references)
        /\ DOMAIN Tail(references) = 1..(Len(references) - 1)
    BY <1>1, <1>2
  <1>4. IsSequence(Tail(references))
    BY <1>2, SeqIsSequence
  <1>5. (Tail(references) = <<>>) <=> (Len(references) = 1)
    <2>1. Tail(references) = <<>> <=> Len(Tail(references)) = 0
      BY <1>2, ZeroLength
    <2> QED
      BY <2>1, <1>2
  <1>6. Head(references) = references[1]
    BY <1>1, <1>2
  <1>7. \A i \in 1..Len(references) :
            \/ i = 1
            \/ /\ i - 1 \in 1..(Len(references) - 1)
               /\ references[i] = Tail(references)[i - 1]
    BY <1>2
  <1> QED
    BY <1>2, <1>3, <1>4, <1>5, <1>6, <1>7

(* What a config seam declares is a list.                                    *)
LEMMA DeclaredIsSequence ==
    ASSUME TypeOK, BoundIsRead PROVE IsSequence(Declared)
PROOF
  <1>1. CASE QualityDecodes(ConfigSeam)
    BY <1>1, CheckoutsAssumption DEF TypeOK, BoundIsRead, IsDecoded, Declared, ConfigSeam
  <1>2. CASE ~ QualityDecodes(ConfigSeam)
    BY <1>2 DEF Declared, IsSequence
  <1> QED
    BY <1>1, <1>2

-------------------------------------------------------------------------------
(* Every variable keeps its type.                                            *)
TypeInv == TypeOK /\ PlaceInv

(* The manifest's decoding and the home's resolution.                        *)
LEMMA DecodeKeepsType ==
    ASSUME TypeInv, DecodeTenantBindings PROVE TypeInv'
PROOF
  <1> USE DEF DecodeTenantBindings, world, registry, TypeInv
  <1>1. CASE IsDecoded
    <2>1. bound' = tenant[BindingsFileName][1].bindings /\ pc' = "home"
          /\ UNCHANGED <<tenant, exit>>
      BY <1>1 DEF IsDecoded
    <2>2. bound' \in Manifests
      BY <1>1, <2>1, CheckoutsAssumption DEF TypeOK, IsDecoded
    <2>3. BoundIsRead'
      BY <1>1, <2>1 DEF BoundIsRead, IsDecoded
    <2> QED
      BY <2>1, <2>2, <2>3 DEF TypeOK, PlaceInv, Unread, Searching
  <1>2. CASE ~ IsDecoded
    BY <1>2 DEF IsDecoded, Abort, TypeOK, PlaceInv, Unread, Searching
  <1> QED
    BY <1>1, <1>2

LEMMA HomeIsARelease ==
    ASSUME TypeInv, ResolveHomeRoot PROVE homeRoot' \in Releases \cup {None}
PROOF
  <1>1. homeFlag \in Releases \cup {None}
    BY VerifierAssumption DEF TypeInv, TypeOK
  <1>2. PinnedReleases(tooling, bound.home.repository) \subseteq Releases
    BY CheckoutsAssumption
       DEF TypeInv, TypeOK, PlaceInv, BoundIsRead, IsDecoded, ResolveHomeRoot, tooling
  <1> QED
    BY <1>1, <1>2 DEF ResolveHomeRoot, TypeInv, TypeOK

LEMMA ResolveHomeKeepsType ==
    ASSUME TypeInv, ResolveHomeRoot PROVE TypeInv'
PROOF
  <1> USE DEF ResolveHomeRoot, world, registry, TypeInv
  <1>1. UNCHANGED <<tenant, bound, findings>> /\ BoundIsRead /\ BoundIsRead'
    BY DEF PlaceInv, BoundIsRead, IsDecoded
  <1>2. CASE pc' = "callers" /\ UNCHANGED exit
    BY <1>1, <1>2, HomeIsARelease
       DEF TypeOK, PlaceInv, Unread, Searching, FamilyAfter
  <1>3. CASE Abort
    BY <1>1, <1>3, HomeIsARelease DEF Abort, TypeOK, PlaceInv, Unread, Searching
  <1> QED
    BY <1>2, <1>3

(* A family's step keeps everything but the place and the findings.          *)
LEMMA FamilyKeepsType ==
    ASSUME TypeInv, pc \in DOMAIN FamilyAfter, pc' = FamilyAfter[pc],
           UNCHANGED <<world, program, registry, exit>>,
           findings' \in {findings, findings \cup {pc}},
           UNCHANGED faults \/ \E kind : Fault(kind)
    PROVE  TypeInv'
PROOF
  <1>1. faults' \in BoundedSeq(Faults, MaxFaults)
    BY FaultIsTyped DEF TypeInv, TypeOK
  <1>2. pc \notin {"decode", "home", "done"} \cup Searching
        /\ pc' \in (DOMAIN FamilyAfter \cup {"extends", "report"}) \ {"callers"}
        /\ (pc \in Unread <=> pc' \in Unread)
    BY DEF FamilyAfter, Unread, Searching
  <1>3. BoundIsRead /\ BoundIsRead' /\ exit = -1
    BY <1>2 DEF TypeInv, PlaceInv, BoundIsRead, IsDecoded, world, program
  <1>4. pc' \notin {"decode", "home", "done"} \cup Searching
        /\ DOMAIN FamilyAfter \subseteq Families
    BY <1>2 DEF FamilyAfter, Searching, Families
  <1>5. TypeOK'
    BY <1>1, <1>2, <1>4 DEF TypeInv, TypeOK, world, program, registry, Families
  <1>6. PlaceInv'
    BY <1>2, <1>3, <1>4 DEF TypeInv, PlaceInv, world, program, registry, Searching
  <1> QED
    BY <1>5, <1>6 DEF TypeInv

LEMMA AbortKeepsType ==
    ASSUME TypeInv, Abort, UNCHANGED <<world, program, registry, findings>>,
           \E kind : Fault(kind)
    PROVE  TypeInv'
PROOF
  <1>1. faults' \in BoundedSeq(Faults, MaxFaults)
    BY FaultIsTyped DEF TypeInv
  <1> QED
    BY <1>1 DEF Abort, TypeInv, TypeOK, PlaceInv, world, program, registry, Unread,
                Searching

LEMMA ReportKeepsType ==
    ASSUME TypeInv, Report PROVE TypeInv'
PROOF
  <1>1. BoundIsRead /\ BoundIsRead'
    BY DEF Report, TypeInv, PlaceInv, BoundIsRead, IsDecoded, world, program
  <1> QED
    BY <1>1 DEF Report, TypeInv, TypeOK, PlaceInv, world, program, registry, Unread,
                Searching

(* The capability packs.                                                     *)
LEMMA ReadReferencesKeepsType ==
    ASSUME TypeInv, ReadReferences PROVE TypeInv'
PROOF
  <1>1. BoundIsRead /\ BoundIsRead'
    BY DEF ReadReferences, TypeInv, PlaceInv, BoundIsRead, IsDecoded, world, program
  <1>2. IsSequence(Declared)
    BY <1>1, DeclaredIsSequence DEF TypeInv
  <1>3. references' = Parsed(Declared)
    BY DEF ReadReferences, Declared, ConfigSeam
  <1>4. IsSequence(references') /\ \A i \in DOMAIN references' : references'[i].pinned
    BY <1>2, <1>3, ParsedKeepsThePinned, SeqIsSequence
  <1>5. TypeOK'
    BY <1>4 DEF ReadReferences, Judge, TypeInv, TypeOK, world, program, FamilyAfter,
                Families
  <1>6. PlaceInv'
    BY <1>1, <1>4 DEF ReadReferences, TypeInv, PlaceInv, world, program, Unread,
                      Searching
  <1> QED
    BY <1>5, <1>6 DEF TypeInv

(* A step that neither reads nor resolves references.                        *)
LEMMA SearchKeepsType ==
    ASSUME TypeInv,
           \/ RequireTooling \/ ReadIdentity
           \/ ToolingReadFails \/ ReferencesReadFails \/ IdentityReadFails
    PROVE  TypeInv'
PROOF
  <1>1. /\ pc \in {"extends", "tooling", "identity"}
        /\ pc' \in {"toolchain", "identity", "locate"}
        /\ pc' = "toolchain" \/ pc \in Searching
        /\ pc' = "identity" => pc = "tooling"
        /\ UNCHANGED <<world, program, references, owners, trees, exit>>
        /\ findings' \in {findings, findings \cup {"packs"}}
        /\ UNCHANGED faults \/ \E kind : Fault(kind)
    BY DEF RequireTooling, ReadIdentity, ToolingReadFails, ReferencesReadFails,
           IdentityReadFails, Judge, registry, Searching
  <1>2. faults' \in BoundedSeq(Faults, MaxFaults)
    BY <1>1, FaultIsTyped DEF TypeInv, TypeOK
  <1>3. BoundIsRead /\ BoundIsRead'
    BY <1>1 DEF TypeInv, PlaceInv, BoundIsRead, IsDecoded, world, program
  <1>4. TypeOK'
    BY <1>1, <1>2 DEF TypeInv, TypeOK, world, program, FamilyAfter, Families
  <1>5. PlaceInv'
    BY <1>1, <1>3 DEF TypeInv, PlaceInv, world, program, Unread, Searching
  <1> QED
    BY <1>4, <1>5 DEF TypeInv

(* The owners are located in their order.                                    *)
LEMMA OwnersInOrder ==
    ASSUME owners \in {<<Authority, Kernel>>, <<Kernel>>}
    PROVE  /\ Tail(owners) \in {<<Kernel>>, <<>>}
           /\ Len(owners) = 1 <=> Tail(owners) = <<>>
           /\ Head(owners) \in {Authority, Kernel}
           /\ \A owner \in {Authority, Kernel} :
                 (\A i \in DOMAIN Tail(owners) : Tail(owners)[i] # owner)
                 <=> owner = Head(owners) \/ \A i \in DOMAIN owners : owners[i] # owner
PROOF
  <1>1. Authority # Kernel
    BY VerifierAssumption
  <1>2. CASE owners = <<Authority, Kernel>>
    <2>1. Tail(owners) = <<Kernel>> /\ Len(owners) = 2 /\ Head(owners) = Authority
      BY <1>2
    <2>2. DOMAIN owners = {1, 2} /\ DOMAIN Tail(owners) = {1}
      BY <2>1, <1>2
    <2> QED
      BY <2>1, <2>2, <1>1, <1>2
  <1>3. CASE owners = <<Kernel>>
    <2>1. Tail(owners) = <<>> /\ Len(owners) = 1 /\ Head(owners) = Kernel
      BY <1>3
    <2>2. DOMAIN owners = {1} /\ DOMAIN Tail(owners) = {}
      BY <2>1, <1>3
    <2> QED
      BY <2>1, <2>2, <1>1, <1>3
  <1> QED
    BY <1>2, <1>3

LEMMA LocateKeepsType ==
    ASSUME TypeInv, pc = "locate", NEW packs, Locate(packs),
           UNCHANGED faults \/ \E kind : Fault(kind)
    PROVE  TypeInv'
PROOF
  <1>1. faults' \in BoundedSeq(Faults, MaxFaults)
    BY FaultIsTyped DEF TypeInv, TypeOK
  <1>2. BoundIsRead /\ BoundIsRead'
    BY DEF Locate, TypeInv, PlaceInv, BoundIsRead, IsDecoded, world, program
  <1>3. /\ owners' \in {<<Kernel>>, <<>>}
        /\ pc' = IF owners' = <<>> THEN "packs" ELSE "locate"
    BY OwnersInOrder DEF Locate, TypeInv, PlaceInv
  <1>4. <<Kernel>> # <<>>
    OBVIOUS
  <1>5. TypeOK'
    BY <1>1, <1>3 DEF Locate, TypeInv, TypeOK, world, program, FamilyAfter, Families
  <1>6. PlaceInv'
    BY <1>2, <1>3, <1>4
       DEF Locate, TypeInv, PlaceInv, world, program, Unread, Searching
  <1> QED
    BY <1>5, <1>6 DEF TypeInv

LEMMA PackDoneKeepsType ==
    ASSUME TypeInv, pc = "packs", NEW resolves, PackDone(resolves),
           UNCHANGED faults \/ \E kind : Fault(kind)
    PROVE  TypeInv'
PROOF
  <1>1. faults' \in BoundedSeq(Faults, MaxFaults)
    BY FaultIsTyped DEF TypeInv, TypeOK
  <1>2. BoundIsRead /\ BoundIsRead'
    BY DEF PackDone, TypeInv, PlaceInv, BoundIsRead, IsDecoded, world, program
  <1>3. IsSequence(references) /\ references # <<>>
    BY DEF TypeInv, PlaceInv, Searching
  <1>4. /\ IsSequence(references')
        /\ \A i \in DOMAIN references' : references'[i].pinned
        /\ pc' = IF references' = <<>> THEN "toolchain" ELSE "packs"
    BY <1>3, TailOfReferences DEF PackDone, TypeInv, TypeOK
  <1>5. TypeOK'
    BY <1>1, <1>4
       DEF PackDone, Judge, TypeInv, TypeOK, world, program, FamilyAfter, Families
  <1>6. PlaceInv'
    BY <1>2, <1>4
       DEF PackDone, TypeInv, PlaceInv, world, program, Unread, Searching
  <1> QED
    BY <1>5, <1>6 DEF TypeInv

LEMMA NextKeepsType ==
    ASSUME TypeInv, [Next]_vars PROVE TypeInv'
PROOF
  <1>1. CASE DecodeTenantBindings
    BY <1>1, DecodeKeepsType
  <1>2. CASE ResolveHomeRoot
    BY <1>2, ResolveHomeKeepsType
  <1>3. CASE \/ VerifyCallers \/ VerifyFiles \/ VerifyCodeowners
             \/ VerifyConventions \/ VerifyQuality \/ VerifyToolchain
             \/ VerifyTools \/ VerifyLicense \/ FamilyFails
    <2>1. /\ pc \in DOMAIN FamilyAfter /\ pc' = FamilyAfter[pc]
          /\ UNCHANGED <<world, program, registry, exit>>
          /\ findings' \in {findings, findings \cup {pc}}
          /\ UNCHANGED faults \/ \E kind : Fault(kind)
      BY <1>3
         DEF VerifyCallers, VerifyFiles, VerifyCodeowners, VerifyConventions,
             VerifyQuality, VerifyToolchain, VerifyTools, VerifyLicense,
             FamilyFails, Prove, Judge, FamilyAfter
    <2> QED
      BY <2>1, FamilyKeepsType
  <1>4. CASE ReadReferences
    BY <1>4, ReadReferencesKeepsType
  <1>5. CASE \/ RequireTooling \/ ReadIdentity
             \/ ToolingReadFails \/ ReferencesReadFails \/ IdentityReadFails
    BY <1>5, SearchKeepsType
  <1>6. CASE LocateRegistry \/ RegistryResolutionFails
    BY <1>6, LocateKeepsType DEF LocateRegistry, RegistryResolutionFails
  <1>7. CASE ResolvePack \/ RegistryReadFails \/ RegistryVanishes
    BY <1>7, PackDoneKeepsType DEF ResolvePack, RegistryReadFails, RegistryVanishes
  <1>8. CASE Report
    BY <1>8, ReportKeepsType
  <1>9. CASE ManifestReadFails \/ HomeResolutionFails
    BY <1>9, AbortKeepsType DEF ManifestReadFails, HomeResolutionFails
  <1>10. CASE UNCHANGED vars
    BY <1>10 DEF vars, world, program, registry, TypeInv, TypeOK, PlaceInv, BoundIsRead,
                 IsDecoded
  <1> QED
    BY <1>1, <1>2, <1>3, <1>4, <1>5, <1>6, <1>7, <1>8, <1>9, <1>10
       DEF Next, Step, Failure, VerifyExtends

LEMMA InitTypeInv == Init => TypeInv
PROOF
  <1> SUFFICES ASSUME Init PROVE TypeInv
    OBVIOUS
  <1>1. <<>> \in [1..0 -> Faults] /\ 0 \in 0..MaxFaults
    BY VerifierAssumption
  <1>2. faults \in BoundedSeq(Faults, MaxFaults)
    BY <1>1 DEF Init, BoundedSeq, SeqOf
  <1> QED
    BY <1>2 DEF Init, TypeInv, TypeOK, PlaceInv, IsSequence, Unread, Searching

(* Every variable keeps its type, whatever calls fail, and the process ends  *)
(* with 0 or 1 (cmd/verify-canonical/main.go:41-88).                         *)
THEOREM VerifierTypeCorrect == Spec => []TypeOK
PROOF
  <1>1. Init => TypeInv
    BY InitTypeInv
  <1>2. TypeInv /\ [Next]_vars => TypeInv'
    BY NextKeepsType
  <1>3. TypeInv => TypeOK
    BY DEF TypeInv
  <1> QED
    BY <1>1, <1>2, <1>3, PTL DEF Spec

-------------------------------------------------------------------------------
(* The capability packs: what is located, and what no finding means.         *)
GoModIdentity ==
    IF tenant[GoModPath] = Absent THEN None ELSE ModuleIdentity(tenant[GoModPath])

NothingPassedOver == Range(faults) \cap PassedOver = {}

(* A located registry shows nothing but what is at the stand, if the owner   *)
(* was known; and all of it, if no failure was passed over.                  *)
RightTree(owner) ==
    /\ trees[owner] # None /\ identity = GoModIdentity
          => trees[owner] \subseteq RegistryAtStand(tenant, bound, owner)
    /\ NothingPassedOver =>
          /\ identity = GoModIdentity
          /\ RegistryAtStand(tenant, bound, owner)
                = IF trees[owner] = None THEN {} ELSE trees[owner]

IsLocated(owner) == \A i \in DOMAIN owners : owners[i] # owner

(* What a reference without a finding was shown to be.                       *)
Carried(reference) ==
    /\ identity = GoModIdentity =>
          \E match \in CarriersAtStand(tenant, bound, reference) :
              WellIdentified(match[2])
    /\ NothingPassedOver => CarriedOnce(tenant, bound, reference)

Pending(reference) == \E i \in DOMAIN references : references[i] = reference

IsDeclared(reference) == \E j \in DOMAIN Declared : Declared[j] = reference

(* Every declaration is pinned, and still to be resolved or resolved.        *)
PacksSoFar ==
    \A j \in DOMAIN Declared :
        /\ Declared[j].pinned
        /\ Pending(Declared[j]) \/ (pc = "packs" /\ Carried(Declared[j]))

(* What the packs' part of a pass means, when the registries were searched   *)
(* and when not.                                                             *)
PacksPassed ==
    IF owners = <<>>
    THEN /\ tooling # Absent
         /\ QualityDecodes(ConfigSeam)
         /\ \A j \in DOMAIN Declared : Declared[j].pinned /\ Carried(Declared[j])
    ELSE NothingPassedOver => PacksConform(tenant, bound)

SearchInv ==
    pc \in Searching =>
        /\ QualityDecodes(ConfigSeam)
        /\ \A i \in DOMAIN references : IsDeclared(references[i])
        /\ pc # "tooling" => tooling # Absent
        /\ "packs" \notin findings => PacksSoFar

RegistryInv ==
    pc \in {"locate", "packs"} =>
        /\ NothingPassedOver => identity = GoModIdentity
        /\ \A owner \in {Authority, Kernel} : IsLocated(owner) => RightTree(owner)

PackInv ==
    /\ pc \in Unread => "packs" \notin findings
    /\ SearchInv
    /\ RegistryInv
    /\ pc \in Searched /\ "packs" \notin findings => PacksPassed
    /\ exit = 0 => PacksPassed

(* No finding without a reason, as long as no call failed.                   *)
FoundedInv ==
    faults = <<>> =>
        /\ \A family \in findings \ {"packs"} : ~ Holds(family)
        /\ "packs" \in findings => ~ PacksConform(tenant, bound)
        /\ exit = 1 => bound = None \/ homeRoot = None \/ findings # {}

(* Faults only come.                                                         *)
LEMMA FaultsOnlyCome ==
    ASSUME TypeOK, UNCHANGED faults \/ \E kind : Fault(kind), NothingPassedOver'
    PROVE  NothingPassedOver
PROOF
  <1>1. Range(faults) \subseteq Range(faults')
    BY FaultIsTyped
  <1> QED
    BY <1>1 DEF NothingPassedOver, PassedOver

LEMMA PassedOverShows ==
    ASSUME TypeOK, NEW kind \in PassedOver, Fault(kind)
    PROVE  ~ NothingPassedOver'
PROOF
  <1>1. kind \in Range(faults')
    BY FaultIsTyped
  <1> QED
    BY <1>1 DEF NothingPassedOver, PassedOver

(* What was shown of a registry or a reference depends on nothing that later *)
(* steps change.                                                             *)
LEMMA ShownIsStable ==
    ASSUME UNCHANGED <<world, program, identity>>, NothingPassedOver' => NothingPassedOver
    PROVE  /\ Declared' = Declared /\ ConfigSeam' = ConfigSeam /\ tooling' = tooling
           /\ GoModIdentity' = GoModIdentity
           /\ \A reference : Carried(reference) => Carried(reference)'
           /\ \A owner : RightTree(owner) /\ trees'[owner] = trees[owner]
                            => RightTree(owner)'
           /\ UNCHANGED owners /\ PacksPassed => PacksPassed'
PROOF
  <1>1. tenant' = tenant /\ bound' = bound /\ identity' = identity
    BY DEF world, program
  <1>2. /\ Declared' = Declared /\ ConfigSeam' = ConfigSeam /\ tooling' = tooling
        /\ GoModIdentity' = GoModIdentity
    BY <1>1 DEF Declared, ConfigSeam, tooling, GoModIdentity
  <1>3. \A reference : Carried(reference) => Carried(reference)'
    BY <1>1, <1>2 DEF Carried
  <1>4. \A owner : RightTree(owner) /\ trees'[owner] = trees[owner] => RightTree(owner)'
    BY <1>1, <1>2 DEF RightTree
  <1>5. UNCHANGED owners /\ PacksPassed => PacksPassed'
    BY <1>1, <1>2, <1>3 DEF PacksPassed
  <1> QED
    BY <1>2, <1>3, <1>4, <1>5

-------------------------------------------------------------------------------
(* Registries.                                                               *)

(* go.mod names an owner exactly if it is there and its module is the owner. *)
LEMMA OwnerIsNamed ==
    ASSUME NEW owner \in {Authority, Kernel}
    PROVE  GoModIdentity = owner
           <=> tenant[GoModPath] # Absent /\ ModuleIdentity(tenant[GoModPath]) = owner
PROOF
  BY VerifierAssumption DEF GoModIdentity

(* The registry of a home is its working tree.                               *)
LEMMA OwnRegistry ==
    ASSUME TypeOK, BoundIsRead, NEW owner \in {Authority, Kernel}, GoModIdentity = owner
    PROVE  OwnPacks(tenant) # None /\ RegistryAtStand(tenant, bound, owner) = OwnPacks(tenant)
PROOF
  <1>1. tenant[GoModPath] # Absent /\ ModuleIdentity(tenant[GoModPath]) = owner
    BY OwnerIsNamed
  <1> QED
    BY <1>1, CheckoutsAssumption DEF TypeOK, BoundIsRead, IsDecoded, RegistryAtStand

(* Every other registry is the one stand its module resolves to, if any.     *)
LEMMA PinnedRegistry ==
    ASSUME TypeOK, BoundIsRead, NEW owner \in {Authority, Kernel}, GoModIdentity # owner,
           NEW packs \in PinnedPacks(owner)
    PROVE  RegistryAtStand(tenant, bound, owner) = IF packs = None THEN {} ELSE packs
PROOF
  <1>1. RegistryAtStand(tenant, bound, owner)
           = UNION {module.packs : module \in Resolved(tooling, owner)}
    BY OwnerIsNamed DEF RegistryAtStand, tooling
  <1>2. \A module, other \in Resolved(tooling, owner) :
            module = other /\ module.packs # None
    BY CheckoutsAssumption DEF TypeOK, BoundIsRead, IsDecoded, tooling
  <1>3. CASE Resolved(tooling, owner) = {}
    BY <1>1, <1>3 DEF PinnedPacks
  <1>4. CASE Resolved(tooling, owner) # {}
    <2>1. PICK module \in Resolved(tooling, owner) : packs = module.packs
      BY <1>4 DEF PinnedPacks
    <2>2. {m.packs : m \in Resolved(tooling, owner)} = {packs} /\ packs # None
      BY <2>1, <1>2
    <2> QED
      BY <1>1, <2>2
  <1> QED
    BY <1>3, <1>4

(* The step that locates an owner's registry locates the right one.          *)
LEMMA LocateIsRight ==
    ASSUME TypeInv, RegistryInv, pc = "locate", NEW packs, Locate(packs),
           \/ /\ UNCHANGED faults
              /\ packs \in IF identity = Head(owners) THEN {OwnPacks(tenant)}
                           ELSE PinnedPacks(Head(owners))
           \/ packs = None /\ Fault("resolve")
    PROVE  RegistryInv'
PROOF
  <1>1. /\ owners \in {<<Authority, Kernel>>, <<Kernel>>}
        /\ TypeOK /\ BoundIsRead
    BY DEF TypeInv, PlaceInv
  <1>2. NothingPassedOver' => NothingPassedOver
    BY <1>1, FaultsOnlyCome
  <1>3. UNCHANGED <<world, program, identity>> /\ owners' = Tail(owners)
        /\ trees' = [trees EXCEPT ![Head(owners)] = packs]
        /\ tenant' = tenant /\ bound' = bound
    BY DEF Locate, world, program
  <1>4. Head(owners) \in {Authority, Kernel} /\ DOMAIN trees = {Authority, Kernel}
    BY <1>1, OwnersInOrder DEF TypeOK
  <1>5. GoModIdentity' = GoModIdentity
    BY <1>2, <1>3, ShownIsStable
  <1>0. PICK first \in {Authority, Kernel} : first = Head(owners)
    BY <1>4
  <1>6. RightTree(first)'
    <2>1. trees'[first] = packs
      BY <1>0, <1>3, <1>4
    <2>2. CASE packs = None /\ Fault("resolve")
      <3>1. ~ NothingPassedOver'
        BY <2>2, <1>1, PassedOverShows DEF PassedOver
      <3> QED
        BY <2>1, <2>2, <3>1 DEF RightTree
    <2>3. CASE /\ UNCHANGED faults
               /\ packs \in IF identity = Head(owners) THEN {OwnPacks(tenant)}
                            ELSE PinnedPacks(Head(owners))
      <3>1. identity = GoModIdentity =>
               RegistryAtStand(tenant, bound, first)
                  = IF packs = None THEN {} ELSE packs
        BY <2>3, <1>0, <1>1, OwnRegistry, PinnedRegistry
      <3>2. NothingPassedOver' => identity = GoModIdentity
        BY <1>2 DEF RegistryInv
      <3> QED
        BY <2>1, <3>1, <3>2, <1>3, <1>5 DEF RightTree
    <2> QED
      BY <2>2, <2>3
  <1>7. ASSUME NEW owner \in {Authority, Kernel}, IsLocated(owner)', owner # first
        PROVE  RightTree(owner)'
    <2>1. IsLocated(owner)
      BY <1>0, <1>7, <1>1, <1>3, OwnersInOrder DEF IsLocated
    <2>2. RightTree(owner) /\ trees'[owner] = trees[owner]
      BY <2>1, <1>0, <1>3, <1>4, <1>7 DEF RegistryInv
    <2> QED
      BY <2>2, <1>2, <1>3, ShownIsStable
  <1>8. NothingPassedOver' => identity' = GoModIdentity'
    BY <1>2, <1>3, <1>5 DEF RegistryInv
  <1> QED
    BY <1>6, <1>7, <1>8 DEF RegistryInv

-------------------------------------------------------------------------------
(* References.                                                               *)

(* A carrier that is found is one at the stand: a major that stands for a    *)
(* larger one finds none.                                                    *)
LEMMA FoundIsAtStand ==
    ASSUME TypeInv, MajorsFit, BoundIsRead, identity = GoModIdentity,
           \A owner \in {Authority, Kernel} : RightTree(owner),
           NEW reference, NEW match \in Carriers(reference)
    PROVE  /\ match \in CarriersAtStand(tenant, bound, reference)
           /\ Major(reference) = reference.major
PROOF
  <1>1. PICK owner \in Available : \E pack \in Located(trees[owner], reference) :
                                      match = <<owner, pack>>
    BY DEF Carriers
  <1>2. PICK pack \in Located(trees[owner], reference) : match = <<owner, pack>>
    BY <1>1
  <1>3. owner \in {Authority, Kernel} /\ trees[owner] # None
    BY <1>1 DEF Available, TypeInv, TypeOK
  <1>4. pack \in RegistryAtStand(tenant, bound, owner)
    BY <1>2, <1>3 DEF RightTree, Located
  <1>5. pack.capability = reference.capability /\ pack.major = Major(reference)
    BY <1>2 DEF Located
  <1>6. pack.major \in 0..(MaxInt - 1)
    BY <1>3, <1>4 DEF MajorsFit, TypeInv, TypeOK, BoundIsRead, IsDecoded
  <1>7. Major(reference) = reference.major
    BY <1>5, <1>6, VerifierAssumption DEF Major
  <1> QED
    BY <1>2, <1>3, <1>4, <1>5, <1>7 DEF CarriersAtStand

(* With the whole of both registries, and without a failing call, exactly    *)
(* the carriers at the stand are found.                                      *)
LEMMA AtStandIsFound ==
    ASSUME TypeInv, MajorsFit, BoundIsRead, NothingPassedOver,
           \A owner \in {Authority, Kernel} : RightTree(owner),
           NEW reference, NEW match \in CarriersAtStand(tenant, bound, reference)
    PROVE  match \in Carriers(reference)
PROOF
  <1>0. PICK owner \in {Authority, Kernel} :
            \E pack \in RegistryAtStand(tenant, bound, owner) :
                /\ match = <<owner, pack>>
                /\ pack.capability = reference.capability
                /\ pack.major = reference.major
    BY DEF CarriersAtStand
  <1>1. PICK pack \in RegistryAtStand(tenant, bound, owner) :
            /\ match = <<owner, pack>>
            /\ pack.capability = reference.capability /\ pack.major = reference.major
    BY <1>0
  <1>2. pack.major \in 0..(MaxInt - 1)
    BY <1>1 DEF MajorsFit, TypeInv, TypeOK, BoundIsRead, IsDecoded
  <1>3. Major(reference) = reference.major
    BY <1>1, <1>2, VerifierAssumption DEF Major
  <1>4. owner \in Available /\ pack \in trees[owner]
    BY <1>1 DEF RightTree, Available, TypeInv, TypeOK
  <1> QED
    BY <1>1, <1>3, <1>4 DEF Carriers, Located

(* A resolution means that the reference is carried.                         *)
LEMMA ResolvedIsCarried ==
    ASSUME TypeInv, MajorsFit, BoundIsRead,
           NothingPassedOver => identity = GoModIdentity,
           \A owner \in {Authority, Kernel} : RightTree(owner),
           NEW reference, NEW found \in SUBSET Carriers(reference), Resolves(found),
           NothingPassedOver => found = Carriers(reference)
    PROVE  Carried(reference)
PROOF
  <1>1. PICK match \in found : found = {match} /\ WellIdentified(match[2])
    BY DEF Resolves
  <1>2. identity = GoModIdentity => match \in CarriersAtStand(tenant, bound, reference)
    BY <1>1, FoundIsAtStand
  <1>3. NothingPassedOver => CarriersAtStand(tenant, bound, reference) = {match}
    BY <1>1, <1>2, AtStandIsFound
  <1> QED
    BY <1>1, <1>2, <1>3 DEF Carried, CarriedOnce

(* And where nothing failed, a reference that does not resolve is not.       *)
LEMMA UnresolvedIsNotCarried ==
    ASSUME TypeInv, MajorsFit, BoundIsRead, NothingPassedOver, identity = GoModIdentity,
           \A owner \in {Authority, Kernel} : RightTree(owner),
           NEW reference, CarriedOnce(tenant, bound, reference)
    PROVE  Resolves(Carriers(reference))
PROOF
  <1>1. PICK match \in CarriersAtStand(tenant, bound, reference) :
            /\ CarriersAtStand(tenant, bound, reference) = {match}
            /\ WellIdentified(match[2])
    BY DEF CarriedOnce
  <1>2. match \in Carriers(reference)
    BY AtStandIsFound
  <1>3. Carriers(reference) \subseteq {match}
    BY <1>1, FoundIsAtStand
  <1> QED
    BY <1>1, <1>2, <1>3 DEF Resolves

-------------------------------------------------------------------------------
(* PackInv holds with every step.                                            *)
PackState == MajorsFit /\ TypeInv /\ PackInv

(* Every step that is not about packs: before the references are read, and   *)
(* after the last one is done.                                               *)
LEMMA OtherStepKeepsPacks ==
    ASSUME PackState, pc \notin Searching, UNCHANGED registry,
           \/ pc \in Unread /\ pc' \in Unread /\ exit' = exit
           \/ pc \in Unread /\ pc' = "done" /\ exit' = 1
           \/ /\ pc \in Searched /\ pc' \in Searched /\ exit' = exit
              /\ UNCHANGED <<world, program>>
              /\ UNCHANGED faults \/ \E kind : Fault(kind),
           "packs" \in findings' <=> "packs" \in findings
    PROVE  PackInv'
PROOF
  <1>1. pc \in Unread => "packs" \notin findings'
    BY DEF PackState, PackInv
  <1>2. pc' \notin Searching /\ pc # "done"
    BY DEF Unread, Searched, Searching
  <1>3. exit' # 0
    BY <1>2 DEF PackState, TypeInv, PlaceInv
  <1>4. CASE pc \in Unread
    <2>1. pc' \notin Searched /\ pc' \notin {"locate", "packs"}
      BY <1>4 DEF Unread, Searched
    <2> QED
      BY <1>1, <1>2, <1>3, <1>4, <2>1 DEF PackInv, SearchInv, RegistryInv
  <1>5. CASE pc \in Searched
    <2>1. /\ pc' \in Searched /\ UNCHANGED <<world, program, identity, owners>>
          /\ UNCHANGED faults \/ \E kind : Fault(kind)
      BY <1>5 DEF Unread, Searched, registry
    <2>2. NothingPassedOver' => NothingPassedOver
      BY <2>1, FaultsOnlyCome DEF PackState, TypeInv
    <2>3. PacksPassed => PacksPassed'
      BY <2>1, <2>2, ShownIsStable
    <2>4. pc' \notin Unread /\ pc' \notin {"locate", "packs"}
      BY <2>1 DEF Unread, Searched
    <2> QED
      BY <1>2, <1>3, <1>5, <2>1, <2>3, <2>4
         DEF PackState, PackInv, SearchInv, RegistryInv
  <1> QED
    BY <1>4, <1>5

LEMMA ReportKeepsPacks ==
    ASSUME PackState, Report PROVE PackInv'
PROOF
  <1>1. UNCHANGED <<world, program, identity, owners, faults>>
    BY DEF Report, registry
  <1>2. NothingPassedOver' => NothingPassedOver
    BY <1>1 DEF NothingPassedOver
  <1>3. exit' = 0 => PacksPassed
    BY DEF Report, PackState, PackInv, Searched
  <1>4. exit' = 0 => PacksPassed'
    BY <1>1, <1>2, <1>3, ShownIsStable
  <1> QED
    BY <1>4 DEF Report, PackInv, SearchInv, RegistryInv, Unread, Searching, Searched

(* Until the registries are searched, every reference is pending.            *)
LEMMA ReadReferencesKeepsPacks ==
    ASSUME PackState, ReadReferences PROVE PackInv'
PROOF
  <1>1. UNCHANGED <<world, program, identity, owners, faults>> /\ pc = "extends"
    BY DEF ReadReferences
  <1>2. BoundIsRead /\ owners = <<Authority, Kernel>> /\ TypeOK
    BY <1>1 DEF PackState, TypeInv, PlaceInv, Unread
  <1>3. NothingPassedOver' => NothingPassedOver
    BY <1>1 DEF NothingPassedOver
  <1>4. Declared' = Declared /\ ConfigSeam' = ConfigSeam
    BY <1>1, <1>3, ShownIsStable
  <1>5. /\ references' = Parsed(Declared)
        /\ "packs" \notin findings' => Len(Parsed(Declared)) = Len(Declared)
        /\ pc' = IF Parsed(Declared) = <<>> THEN "toolchain" ELSE "tooling"
    BY DEF ReadReferences, Declared, ConfigSeam, Judge
  <1>6. IsSequence(Declared)
    BY <1>2, DeclaredIsSequence
  <1>7. "packs" \notin findings' =>
            /\ Parsed(Declared) = Declared
            /\ \A j \in DOMAIN Declared : Declared[j].pinned
    BY <1>5, <1>6, ParsedKeepsThePinned
  <1>8. exit' # 0
    BY <1>1 DEF ReadReferences, PackState, TypeInv, PlaceInv
  <1>9. CASE Parsed(Declared) = <<>>
    <2>1. "packs" \notin findings' => PacksConform(tenant, bound)
      BY <1>7, <1>9 DEF PacksConform, Declared, ConfigSeam
    <2>2. "packs" \notin findings' => PacksConform(tenant, bound)'
      BY <2>1, <1>1 DEF world, program
    <2>3. <<Authority, Kernel>> # <<>>
      OBVIOUS
    <2>4. "packs" \notin findings' => PacksPassed'
      BY <1>1, <1>2, <2>2, <2>3 DEF PacksPassed
    <2> QED
      BY <1>5, <1>8, <1>9, <2>4
         DEF PackInv, SearchInv, RegistryInv, Unread, Searching, Searched
  <1>10. CASE Parsed(Declared) # <<>>
    <2>1. QualityDecodes(ConfigSeam)
      <3> SUFFICES ASSUME ~ QualityDecodes(ConfigSeam) PROVE FALSE
        OBVIOUS
      <3>1. Declared = <<>>
        BY DEF Declared
      <3>2. \A j \in DOMAIN Declared : Declared[j].pinned
        BY <3>1
      <3> QED
        BY <1>6, <1>10, <3>1, <3>2, ParsedKeepsThePinned
    <2>2. \A i \in DOMAIN references' : \E j \in DOMAIN Declared :
              Declared[j] = references'[i]
      <3>1. references' \in Seq({Declared[j] : j \in DOMAIN Declared})
        BY <1>5, <1>6, ParsedKeepsThePinned
      <3>2. \A i \in DOMAIN references' :
                references'[i] \in {Declared[j] : j \in DOMAIN Declared}
        BY <3>1
      <3> QED
        BY <3>2
    <2>3. "packs" \notin findings' => PacksSoFar'
      BY <1>4, <1>5, <1>7 DEF PacksSoFar, Pending
    <2>4. SearchInv'
      BY <1>4, <1>5, <1>10, <2>1, <2>2, <2>3 DEF SearchInv, IsDeclared
    <2> QED
      BY <1>5, <1>8, <1>10, <2>4
         DEF PackInv, RegistryInv, Unread, Searching, Searched
  <1> QED
    BY <1>9, <1>10

(* The tooling module is read, or is not there, or cannot be read.           *)
LEMMA ToolingKeepsPacks ==
    ASSUME PackState, RequireTooling \/ ToolingReadFails PROVE PackInv'
PROOF
  <1>1. /\ UNCHANGED <<world, program, registry, exit>> /\ pc = "tooling"
        /\ UNCHANGED faults \/ \E kind : Fault(kind)
    BY DEF RequireTooling, ToolingReadFails
  <1>2. exit' # 0
    BY <1>1 DEF PackState, TypeInv, PlaceInv
  <1>3. CASE pc' = "toolchain" /\ "packs" \in findings'
    BY <1>2, <1>3 DEF PackInv, SearchInv, RegistryInv, Unread, Searching, Searched
  <1>4. CASE pc' = "identity" /\ tooling # Absent /\ findings' = findings
    <2>1. SearchInv
      BY DEF PackState, PackInv
    <2>2. tenant' = tenant /\ bound' = bound /\ references' = references
      BY <1>1 DEF world, program, registry
    <2>3. Declared' = Declared /\ ConfigSeam' = ConfigSeam /\ tooling' = tooling
      BY <2>2 DEF Declared, ConfigSeam, tooling
    <2>4. PacksSoFar => PacksSoFar'
      BY <1>1, <1>4, <2>2, <2>3 DEF PacksSoFar, Pending
    <2>5. SearchInv'
      BY <1>1, <1>4, <2>1, <2>2, <2>3, <2>4 DEF SearchInv, IsDeclared, Searching
    <2> QED
      BY <1>2, <1>4, <2>5 DEF PackInv, RegistryInv, Unread, Searching, Searched
  <1> QED
    BY <1>3, <1>4 DEF RequireTooling, ToolingReadFails, Judge

(* The tenant's own identity is read, or its reading fails.                  *)
LEMMA IdentityKeepsPacks ==
    ASSUME PackState, ReadIdentity \/ IdentityReadFails PROVE PackInv'
PROOF
  <1>1. /\ UNCHANGED <<world, program, references, owners, trees, exit, findings>>
        /\ pc = "identity" /\ pc' = "locate" /\ owners = <<Authority, Kernel>>
    BY DEF ReadIdentity, IdentityReadFails, PackState, TypeInv, PlaceInv, registry
  <1>2. exit' # 0
    BY <1>1 DEF PackState, TypeInv, PlaceInv
  <1>3. tenant' = tenant /\ bound' = bound /\ references' = references
    BY <1>1 DEF world, program
  <1>4. Declared' = Declared /\ ConfigSeam' = ConfigSeam /\ tooling' = tooling
    BY <1>3 DEF Declared, ConfigSeam, tooling
  <1>5. NothingPassedOver' => identity' = GoModIdentity'
    <2>1. CASE ReadIdentity
      BY <2>1, <1>3 DEF ReadIdentity, GoModIdentity
    <2>2. CASE IdentityReadFails
      <3>1. ~ NothingPassedOver'
        BY <2>2, PassedOverShows DEF IdentityReadFails, PassedOver, PackState, TypeInv
      <3> QED
        BY <3>1
    <2> QED
      BY <2>1, <2>2
  <1>6. \A owner \in {Authority, Kernel} : ~ IsLocated(owner)'
    <2>1. owners' = <<Authority, Kernel>>
      BY <1>1
    <2>2. 1 \in DOMAIN owners' /\ 2 \in DOMAIN owners'
          /\ owners'[1] = Authority /\ owners'[2] = Kernel
      BY <2>1
    <2> QED
      BY <2>2 DEF IsLocated
  <1>7. SearchInv'
    <2>1. SearchInv
      BY DEF PackState, PackInv
    <2>2. PacksSoFar => PacksSoFar'
      BY <1>1, <1>3, <1>4 DEF PacksSoFar, Pending
    <2> QED
      BY <1>1, <1>3, <1>4, <2>1, <2>2 DEF SearchInv, IsDeclared, Searching
  <1> QED
    BY <1>1, <1>2, <1>5, <1>6, <1>7
       DEF PackInv, RegistryInv, Unread, Searching, Searched

(* An owner's registry is located.                                           *)
LEMMA LocateKeepsPacks ==
    ASSUME PackState, LocateRegistry \/ RegistryResolutionFails PROVE PackInv'
PROOF
  <1>1. PICK packs :
            /\ Locate(packs)
            /\ \/ /\ UNCHANGED faults
                  /\ packs \in IF identity = Head(owners) THEN {OwnPacks(tenant)}
                               ELSE PinnedPacks(Head(owners))
               \/ packs = None /\ Fault("resolve")
    BY DEF LocateRegistry, RegistryResolutionFails
  <1>2. pc = "locate"
    BY DEF LocateRegistry, RegistryResolutionFails
  <1>3. RegistryInv'
    BY <1>1, <1>2, LocateIsRight DEF PackState, PackInv
  <1>4. /\ UNCHANGED <<world, program, references, identity, findings, exit>>
        /\ pc' \in {"locate", "packs"}
    BY <1>1 DEF Locate
  <1>5. exit' # 0
    BY <1>2, <1>4 DEF PackState, TypeInv, PlaceInv
  <1>6. tenant' = tenant /\ bound' = bound /\ references' = references
    BY <1>4 DEF world, program
  <1>7. Declared' = Declared /\ ConfigSeam' = ConfigSeam /\ tooling' = tooling
    BY <1>6 DEF Declared, ConfigSeam, tooling
  <1>8. SearchInv'
    <2>1. SearchInv
      BY DEF PackState, PackInv
    <2>2. PacksSoFar => PacksSoFar'
      BY <1>2, <1>6, <1>7 DEF PacksSoFar, Pending
    <2> QED
      BY <1>2, <1>4, <1>6, <1>7, <2>1, <2>2 DEF SearchInv, IsDeclared, Searching
  <1> QED
    BY <1>3, <1>4, <1>5, <1>8 DEF PackInv, Unread, Searched

(* The second reading of the config seam fails: a failure passed over.       *)
LEMMA ReferencesReadFailsKeepsPacks ==
    ASSUME PackState, ReferencesReadFails PROVE PackInv'
PROOF
  <1>1. /\ pc = "extends" /\ pc' = "toolchain" /\ exit' = exit
        /\ owners' = <<Authority, Kernel>>
    BY DEF ReferencesReadFails, registry, PackState, TypeInv, PlaceInv, Unread
  <1>2. ~ NothingPassedOver'
    BY PassedOverShows DEF ReferencesReadFails, PassedOver, PackState, TypeInv
  <1>3. <<Authority, Kernel>> # <<>>
    OBVIOUS
  <1>4. PacksPassed'
    BY <1>1, <1>2, <1>3 DEF PacksPassed
  <1>5. exit' # 0
    BY <1>1 DEF PackState, TypeInv, PlaceInv
  <1> QED
    BY <1>1, <1>4, <1>5
       DEF PackInv, SearchInv, RegistryInv, Unread, Searching, Searched

(* A reference is done: with a finding, or because it is carried.            *)
LEMMA PackDoneKeepsPacks ==
    ASSUME PackState, pc = "packs", NEW resolves, PackDone(resolves),
           UNCHANGED faults \/ \E kind : Fault(kind),
           resolves => \A reference : reference = Head(references) => Carried(reference)'
    PROVE  PackInv'
PROOF
  <1>1. /\ UNCHANGED <<world, program, owners, identity, trees, exit>>
        /\ references' = Tail(references)
        /\ pc' = IF Len(references) = 1 THEN "toolchain" ELSE "packs"
        /\ "packs" \notin findings' => "packs" \notin findings /\ resolves
    BY DEF PackDone, Judge
  <1>2. TypeInv /\ TypeOK /\ IsSequence(references) /\ references # <<>> /\ owners = <<>>
    BY DEF PackState, TypeInv, PlaceInv, Searching
  <1>3. NothingPassedOver' => NothingPassedOver
    BY <1>2, FaultsOnlyCome
  <1>4. /\ Declared' = Declared /\ ConfigSeam' = ConfigSeam /\ tooling' = tooling
        /\ GoModIdentity' = GoModIdentity
        /\ \A reference : Carried(reference) => Carried(reference)'
        /\ \A owner : RightTree(owner) => RightTree(owner)'
    BY <1>1, <1>3, ShownIsStable
  <1>5. /\ SearchInv /\ QualityDecodes(ConfigSeam) /\ tooling # Absent
        /\ \A i \in DOMAIN references : IsDeclared(references[i])
        /\ "packs" \notin findings => PacksSoFar
    BY DEF PackState, PackInv, SearchInv, Searching
  <1>6. ASSUME "packs" \notin findings', NEW reference, IsDeclared(reference)
        PROVE  /\ reference.pinned
               /\ Pending(reference)' \/ Carried(reference)'
    <2>1. PICK j \in DOMAIN Declared : Declared[j] = reference
      BY <1>6 DEF IsDeclared
    <2>2. PacksSoFar /\ resolves
      BY <1>1, <1>5, <1>6
    <2>3. CASE Carried(reference)
      BY <2>1, <2>2, <2>3, <1>4 DEF PacksSoFar
    <2>4. CASE Pending(reference)
      <3>1. PICK i \in DOMAIN references : references[i] = reference
        BY <2>4 DEF Pending
      <3>2. CASE i = 1
        BY <1>2, <2>1, <2>2, <3>1, <3>2, TailOfReferences DEF PacksSoFar
      <3>3. CASE i # 1
        BY <1>1, <1>2, <2>1, <2>2, <3>1, <3>3, TailOfReferences DEF PacksSoFar, Pending
      <3> QED
        BY <3>2, <3>3
    <2> QED
      BY <2>1, <2>2, <2>3, <2>4 DEF PacksSoFar
  <1>7. \A i \in DOMAIN references' : IsDeclared(references'[i])
    BY <1>1, <1>2, <1>5, TailOfReferences
  <1>8. SearchInv'
    <2> SUFFICES ASSUME pc' = "packs" PROVE SearchInv'
      BY <1>1 DEF SearchInv, Searching
    <2>1. "packs" \notin findings' => PacksSoFar'
      BY <1>4, <1>6 DEF PacksSoFar, IsDeclared
    <2> QED
      BY <1>4, <1>5, <1>7, <2>1 DEF SearchInv, IsDeclared
  <1>9. RegistryInv'
    <2>1. RegistryInv /\ owners' = owners
      BY <1>1 DEF PackState, PackInv
    <2> QED
      BY <1>1, <1>3, <1>4, <2>1 DEF RegistryInv, IsLocated
  <1>10. pc' = "toolchain" /\ "packs" \notin findings' => PacksPassed'
    <2> SUFFICES ASSUME pc' = "toolchain", "packs" \notin findings' PROVE PacksPassed'
      OBVIOUS
    <2>1. references' = <<>>
      BY <1>1, <1>2, TailOfReferences
    <2>2. \A reference : ~ Pending(reference)'
      BY <2>1 DEF Pending
    <2>3. \A j \in DOMAIN Declared' : Declared'[j].pinned /\ \A r : r = Declared'[j] => Carried(r)'
      BY <2>2, <1>4, <1>6 DEF IsDeclared
    <2> QED
      BY <1>1, <1>2, <1>4, <1>5, <2>3 DEF PacksPassed
  <1>11. exit' # 0
    BY <1>1 DEF PackState, TypeInv, PlaceInv
  <1> QED
    BY <1>1, <1>8, <1>9, <1>10, <1>11 DEF PackInv, Unread, Searched

(* The resolution of a reference, and a registry that vanishes before it.    *)
LEMMA ResolveKeepsPacks ==
    ASSUME PackState, ResolvePack \/ RegistryReadFails \/ RegistryVanishes
    PROVE  PackInv'
PROOF
  <1>1. pc = "packs"
    BY DEF ResolvePack, RegistryReadFails, RegistryVanishes
  <1>2. TypeInv /\ MajorsFit /\ BoundIsRead /\ owners = <<>> /\ TypeOK
    BY <1>1 DEF PackState, TypeInv, PlaceInv
  <1>3. \A owner \in {Authority, Kernel} : RightTree(owner)
    BY <1>1, <1>2 DEF PackState, PackInv, RegistryInv, IsLocated
  <1>4. NothingPassedOver => identity = GoModIdentity
    BY <1>1 DEF PackState, PackInv, RegistryInv
  <1>5. PICK reference : reference = Head(references)
    OBVIOUS
  <1>6. CASE ResolvePack
    <2>1. PackDone(Resolves(Carriers(reference))) /\ UNCHANGED faults
      BY <1>5, <1>6 DEF ResolvePack
    <2>2. Resolves(Carriers(reference)) => Carried(reference)
      BY <1>2, <1>3, <1>4, ResolvedIsCarried
    <2>3. UNCHANGED <<world, program, identity>>
          /\ (NothingPassedOver' => NothingPassedOver)
      BY <2>1 DEF PackDone, NothingPassedOver
    <2>4. Resolves(Carriers(reference)) => Carried(reference)'
      BY <2>2, <2>3, ShownIsStable
    <2> QED
      BY <1>1, <1>5, <2>1, <2>4, PackDoneKeepsPacks
  <1>7. CASE RegistryReadFails
    BY <1>1, <1>7, PackDoneKeepsPacks DEF RegistryReadFails
  <1>8. CASE RegistryVanishes
    <2>1. PICK owner \in Available \ {identity} :
              PackDone(Resolves({match \in Carriers(reference) : match[1] # owner}))
      BY <1>5, <1>8 DEF RegistryVanishes
    <2> DEFINE found == {match \in Carriers(reference) : match[1] # owner}
    <2>2. Fault("vanish") /\ ~ NothingPassedOver'
      BY <1>2, <1>8, PassedOverShows DEF RegistryVanishes, PassedOver
    <2>3. UNCHANGED <<world, program, identity>>
      BY <2>1 DEF PackDone
    <2>4. ASSUME Resolves(found), identity = GoModIdentity
          PROVE  \E match \in CarriersAtStand(tenant, bound, reference) :
                     WellIdentified(match[2])
      <3>1. PICK match \in found : WellIdentified(match[2])
        BY <2>4 DEF Resolves
      <3> QED
        BY <1>2, <1>3, <2>4, <3>1, FoundIsAtStand
    <2>5. GoModIdentity' = GoModIdentity /\ tenant' = tenant /\ bound' = bound
      BY <2>3 DEF world, program, GoModIdentity
    <2>6. Resolves(found) => Carried(reference)'
      BY <2>2, <2>3, <2>4, <2>5 DEF Carried
    <2> QED
      BY <1>1, <1>5, <2>1, <2>2, <2>6, PackDoneKeepsPacks
  <1> QED
    BY <1>6, <1>7, <1>8

LEMMA NextKeepsPacks ==
    ASSUME PackState, [Next]_vars PROVE PackInv'
PROOF
  <1> USE DEF Unread, Searching, Searched
  <1>1. CASE DecodeTenantBindings \/ ResolveHomeRoot
    BY <1>1, OtherStepKeepsPacks DEF DecodeTenantBindings, ResolveHomeRoot, Abort
  <1>2. CASE \/ VerifyCallers \/ VerifyFiles \/ VerifyCodeowners
             \/ VerifyConventions \/ VerifyQuality \/ VerifyToolchain
             \/ VerifyTools \/ VerifyLicense \/ FamilyFails
    <2>1. /\ pc \in DOMAIN FamilyAfter /\ pc' = FamilyAfter[pc]
          /\ UNCHANGED <<world, program, registry, exit>>
          /\ findings' \in {findings, findings \cup {pc}}
          /\ UNCHANGED faults \/ \E kind : Fault(kind)
      BY <1>2
         DEF VerifyCallers, VerifyFiles, VerifyCodeowners, VerifyConventions,
             VerifyQuality, VerifyToolchain, VerifyTools, VerifyLicense,
             FamilyFails, Prove, Judge, FamilyAfter
    <2>2. \/ pc \in Unread /\ pc' \in Unread
          \/ pc \in Searched /\ pc' \in Searched
      BY <2>1 DEF FamilyAfter
    <2>3. pc # "packs" /\ pc \notin Searching /\ exit' = exit
      BY <2>1 DEF FamilyAfter
    <2> QED
      BY <2>1, <2>2, <2>3, OtherStepKeepsPacks
  <1>3. CASE ReadReferences
    BY <1>3, ReadReferencesKeepsPacks
  <1>4. CASE RequireTooling \/ ToolingReadFails
    BY <1>4, ToolingKeepsPacks
  <1>5. CASE ReadIdentity \/ IdentityReadFails
    BY <1>5, IdentityKeepsPacks
  <1>6. CASE LocateRegistry \/ RegistryResolutionFails
    BY <1>6, LocateKeepsPacks
  <1>7. CASE ResolvePack \/ RegistryReadFails \/ RegistryVanishes
    BY <1>7, ResolveKeepsPacks
  <1>8. CASE ReferencesReadFails
    BY <1>8, ReferencesReadFailsKeepsPacks
  <1>9. CASE Report
    BY <1>9, ReportKeepsPacks
  <1>10. CASE ManifestReadFails \/ HomeResolutionFails
    BY <1>10, OtherStepKeepsPacks DEF ManifestReadFails, HomeResolutionFails, Abort
  <1>11. CASE UNCHANGED vars
    <2>1. UNCHANGED <<world, program, identity, owners, faults, pc, findings, exit,
                      references, trees>>
      BY <1>11 DEF vars, registry
    <2>2. NothingPassedOver' = NothingPassedOver
      BY <2>1 DEF NothingPassedOver
    <2>3. /\ Declared' = Declared /\ ConfigSeam' = ConfigSeam /\ tooling' = tooling
          /\ GoModIdentity' = GoModIdentity
          /\ \A reference : Carried(reference) => Carried(reference)'
          /\ \A owner : RightTree(owner) => RightTree(owner)'
          /\ PacksPassed => PacksPassed'
      BY <2>1, <2>2, ShownIsStable
    <2>4. PacksSoFar => PacksSoFar'
      BY <2>1, <2>3 DEF PacksSoFar, Pending
    <2>5. SearchInv'
      BY <2>1, <2>3, <2>4 DEF PackState, PackInv, SearchInv, IsDeclared
    <2>6. RegistryInv'
      BY <2>1, <2>2, <2>3 DEF PackState, PackInv, RegistryInv, IsLocated
    <2> QED
      BY <2>1, <2>3, <2>5, <2>6 DEF PackState, PackInv
  <1> QED
    BY <1>1, <1>2, <1>3, <1>4, <1>5, <1>6, <1>7, <1>8, <1>9, <1>10, <1>11
       DEF Next, Step, Failure, VerifyExtends

LEMMA InitPackInv == Init => PackInv
PROOF
  BY DEF Init, PackInv, SearchInv, RegistryInv, Unread, Searching, Searched

LEMMA PackStateInvariant ==
    ASSUME MajorsFit PROVE Spec => []PackState
PROOF
  <1>1. Init => PackState
    BY InitTypeInv, InitPackInv DEF PackState
  <1>2. PackState /\ [Next]_vars => PackState'
    <2> SUFFICES ASSUME PackState, [Next]_vars PROVE PackState'
      OBVIOUS
    <2>1. PackInv'
      BY NextKeepsPacks
    <2>2. TypeInv'
      BY NextKeepsType DEF PackState
    <2>3. MajorsFit'
      BY DEF PackState, MajorsFit
    <2> QED
      BY <2>1, <2>2, <2>3 DEF PackState
  <1> QED
    BY <1>1, <1>2, PTL DEF Spec

(* Whatever calls fail, a failure hides a second carrier and never conjures  *)
(* the first: what a passing tenant declares, where the registries were      *)
(* searched for the tenant it is, lies at the stand, at exactly its major    *)
(* and with the identity of its location (resolveRegistries and              *)
(* resolvePackReference, extends.go:190-301).                                *)
THEOREM PassCarriesSearchedPacks ==
    ASSUME MajorsFit PROVE Spec => []SearchedPacksAreCarried
PROOF
  <1>1. PackState => SearchedPacksAreCarried
    <2> SUFFICES ASSUME PackState, exit = 0, owners = <<>>, tenant[GoModPath] # Absent,
                        identity = ModuleIdentity(tenant[GoModPath])
                 PROVE  \A i \in DOMAIN ConfigSeam[1].extends :
                            /\ ConfigSeam[1].extends[i].pinned
                            /\ \E match \in CarriersAtStand(tenant, bound,
                                                            ConfigSeam[1].extends[i]) :
                                   WellIdentified(match[2])
      BY DEF SearchedPacksAreCarried, ConfigSeam
    <2>1. PacksPassed /\ identity = GoModIdentity
      BY DEF PackState, PackInv, GoModIdentity
    <2>2. Declared = ConfigSeam[1].extends
      BY <2>1 DEF PacksPassed, Declared
    <2> QED
      BY <2>1, <2>2 DEF PacksPassed, Carried
  <1> QED
    BY <1>1, PackStateInvariant, PTL

(* An empty result is never the result of missing evidence (verify.go:43-63):*)
(* for every checkout, home, registry and pattern of failing calls that the  *)
(* code answers with a finding, a run that exits 0 read a tree that conforms *)
(* in all nine families.                                                     *)
THEOREM PassProvesConformance ==
    ASSUME MajorsFit PROVE Spec => []PassIsSound
PROOF
  <1>1. PackState /\ OnlyPacksCanBeSkipped => PassIsSound
    <2> SUFFICES ASSUME PackState, OnlyPacksCanBeSkipped, exit = 0, NothingPassedOver
                 PROVE  IsDecoded /\ Conforms(tenant, home, bound)
      BY DEF PassIsSound, NothingPassedOver, IsDecoded
    <2>1. PacksPassed
      BY DEF PackState, PackInv
    <2>2. PacksConform(tenant, bound)
      <3>1. CASE owners = <<>>
        <4>1. Declared = ConfigSeam[1].extends
          BY <2>1, <3>1 DEF PacksPassed, Declared
        <4> QED
          BY <2>1, <3>1, <4>1
             DEF PacksPassed, PacksConform, Carried, ConfigSeam, tooling
      <3>2. CASE owners # <<>>
        BY <2>1, <3>2 DEF PacksPassed
      <3> QED
        BY <3>1, <3>2
    <2> QED
      BY <2>2 DEF OnlyPacksCanBeSkipped, Conforms, IsDecoded
  <1> QED
    BY <1>1, PackStateInvariant, PassProvesTheFamilies, PTL

-------------------------------------------------------------------------------
(* Findings have their reasons.                                              *)

(* Where no call fails, none has failed.                                     *)
LEMMA NoFaultSoFar ==
    ASSUME TypeOK, UNCHANGED faults \/ \E kind : Fault(kind), faults' = <<>>
    PROVE  faults = <<>> /\ NothingPassedOver /\ \A kind : ~ Fault(kind)
PROOF
  <1>1. \A kind : ~ Fault(kind)
    BY FaultIsTyped
  <1>2. faults = <<>>
    BY <1>1
  <1> QED
    BY <1>1, <1>2 DEF NothingPassedOver, Range

(* A step that adds no finding but one with a reason.                        *)
LEMMA ReasonKeepsFounded ==
    ASSUME PackState, FoundedInv, UNCHANGED <<world, program, exit>>,
           UNCHANGED faults \/ \E kind : Fault(kind),
           pc # "done",
           faults' = <<>> =>
              \/ findings' = findings
              \/ /\ findings' = findings \cup {"packs"}
                 /\ ~ PacksConform(tenant, bound)
              \/ \E family : /\ findings' = findings \cup {family}
                             /\ family # "packs" /\ ~ Holds(family)
    PROVE  FoundedInv'
PROOF
  <1> SUFFICES ASSUME faults' = <<>> PROVE FoundedInv'
    BY DEF FoundedInv
  <1>1. /\ \A family \in findings \ {"packs"} : ~ Holds(family)
        /\ "packs" \in findings => ~ PacksConform(tenant, bound)
    BY NoFaultSoFar DEF FoundedInv, PackState, TypeInv
  <1>2. exit' # 1
    BY DEF PackState, TypeInv, PlaceInv
  <1>3. tenant' = tenant /\ bound' = bound /\ homeRoot' = homeRoot
    BY DEF world, program
  <1>4. home' = home /\ tooling' = tooling
    BY <1>3 DEF home, tooling
  <1>5. \A family : Holds(family)' => Holds(family)
    BY <1>3, <1>4 DEF Holds, tooling, home, Resolved
  <1>6. ~ PacksConform(tenant, bound) => ~ PacksConform(tenant, bound)'
    BY <1>3
  <1>7. \A family \in findings' \ {"packs"} : ~ Holds(family)'
    BY <1>1, <1>5
  <1> QED
    BY <1>1, <1>2, <1>6, <1>7 DEF FoundedInv

(* The manifest and the home: there are no findings yet.                     *)
LEMMA StartKeepsFounded ==
    ASSUME PackState, FoundedInv,
           \/ DecodeTenantBindings \/ ResolveHomeRoot
           \/ ManifestReadFails \/ HomeResolutionFails
    PROVE  FoundedInv'
PROOF
  <1>1. findings = {} /\ findings' = {}
    BY DEF DecodeTenantBindings, ResolveHomeRoot, ManifestReadFails,
           HomeResolutionFails, PackState, TypeInv, PlaceInv
  <1>2. exit' = 1 => bound' = None \/ homeRoot' = None
    BY DEF DecodeTenantBindings, ResolveHomeRoot, ManifestReadFails, program,
           HomeResolutionFails, PackState, TypeInv, PlaceInv
  <1> QED
    BY <1>1, <1>2 DEF FoundedInv

(* A family has a finding only if what it proves does not hold.              *)
LEMMA FamilyKeepsFounded ==
    ASSUME PackState, FoundedInv,
           \/ VerifyCallers \/ VerifyFiles \/ VerifyCodeowners
           \/ VerifyConventions \/ VerifyQuality \/ VerifyToolchain
           \/ VerifyTools \/ VerifyLicense \/ FamilyFails
    PROVE  FoundedInv'
PROOF
  <1>1. /\ pc \in DOMAIN FamilyAfter /\ UNCHANGED <<world, program, exit>>
        /\ UNCHANGED faults \/ \E kind : Fault(kind)
    BY DEF VerifyCallers, VerifyFiles, VerifyCodeowners, VerifyConventions,
           VerifyQuality, VerifyToolchain, VerifyTools, VerifyLicense,
           FamilyFails, Prove, FamilyAfter
  <1>2. pc # "done" /\ pc # "packs"
    BY <1>1 DEF FamilyAfter
  <1>3. ASSUME faults' = <<>>
        PROVE  \/ findings' = findings
               \/ findings' = findings \cup {pc} /\ ~ Holds(pc)
    <2>1. ~ FamilyFails
      BY <1>1, <1>3, NoFaultSoFar DEF FamilyFails, PackState, TypeInv
    <2>2. CASE VerifyCallers
      BY <2>2 DEF VerifyCallers, Prove, Judge, Holds
    <2>3. CASE VerifyFiles
      BY <2>3 DEF VerifyFiles, Prove, Judge, Holds, FilesConform
    <2>4. CASE VerifyCodeowners
      BY <2>4 DEF VerifyCodeowners, Prove, Judge, Holds
    <2>5. CASE VerifyConventions
      BY <2>5 DEF VerifyConventions, Prove, Judge, Holds
    <2>6. CASE VerifyQuality
      BY <2>6 DEF VerifyQuality, Prove, Judge, Holds
    <2>7. CASE VerifyToolchain
      BY <2>7 DEF VerifyToolchain, Prove, Judge, Holds
    <2>8. CASE VerifyTools
      BY <2>8 DEF VerifyTools, Prove, Judge, Holds
    <2>9. CASE VerifyLicense
      BY <2>9 DEF VerifyLicense, Prove, Judge, Holds
    <2> QED
      BY <2>1, <2>2, <2>3, <2>4, <2>5, <2>6, <2>7, <2>8, <2>9
  <1> QED
    BY <1>1, <1>2, <1>3, ReasonKeepsFounded

(* A finding about packs, where no call failed, is one about the tenant.     *)
LEMMA PacksKeepFounded ==
    ASSUME PackState, FoundedInv,
           \/ VerifyExtends
           \/ ToolingReadFails \/ RegistryReadFails \/ RegistryVanishes
           \/ RegistryResolutionFails
           \/ ReferencesReadFails \/ IdentityReadFails
    PROVE  FoundedInv'
PROOF
  <1>1. /\ UNCHANGED <<world, program, exit>>
        /\ UNCHANGED faults \/ \E kind : Fault(kind)
        /\ pc \in Searching \cup {"extends"}
    BY DEF VerifyExtends, ReadReferences, RequireTooling, ReadIdentity, LocateRegistry,
           ResolvePack, ToolingReadFails, RegistryReadFails, RegistryVanishes,
           RegistryResolutionFails, ReferencesReadFails, IdentityReadFails,
           Locate, PackDone, Searching
  <1>2. pc # "done"
    BY <1>1 DEF Searching
  <1>3. TypeInv /\ TypeOK /\ BoundIsRead /\ MajorsFit /\ PackInv
    BY <1>1, <1>2 DEF PackState, TypeInv, PlaceInv, Searching
  <1>4. ASSUME faults' = <<>>
        PROVE  \/ findings' = findings
               \/ /\ findings' = findings \cup {"packs"}
                  /\ ~ PacksConform(tenant, bound)
    <2>1. NothingPassedOver /\ VerifyExtends
      BY <1>1, <1>3, <1>4, NoFaultSoFar
         DEF ToolingReadFails, RegistryReadFails, RegistryVanishes,
             RegistryResolutionFails, ReferencesReadFails, IdentityReadFails
    <2>2. CASE ReadReferences
      <3>1. IsSequence(Declared)
        BY <1>3, DeclaredIsSequence
      <3>2. ASSUME PacksConform(tenant, bound)
            PROVE  Len(Parsed(Declared)) = Len(Declared)
        <4>1. \A j \in DOMAIN Declared : Declared[j].pinned
          BY <3>2 DEF PacksConform, Declared, ConfigSeam
        <4> QED
          BY <3>1, <4>1, ParsedKeepsThePinned
      <3> QED
        BY <2>2, <3>2 DEF ReadReferences, Judge, Declared, ConfigSeam
    <2>3. CASE RequireTooling
      <3>1. QualityDecodes(ConfigSeam) /\ references # <<>> /\ IsSequence(references)
            /\ \A i \in DOMAIN references : IsDeclared(references[i])
        BY <1>3, <2>3
           DEF RequireTooling, PackInv, SearchInv, Searching, TypeInv, PlaceInv
      <3>2. PICK j \in DOMAIN Declared : TRUE
        BY <3>1, TailOfReferences DEF IsDeclared
      <3>3. PacksConform(tenant, bound) => tooling # Absent
        BY <3>1, <3>2 DEF PacksConform, Declared, ConfigSeam, tooling
      <3> QED
        BY <2>3, <3>3 DEF RequireTooling, Judge
    <2>4. CASE ReadIdentity \/ LocateRegistry
      BY <2>4 DEF ReadIdentity, LocateRegistry, Locate
    <2>5. CASE ResolvePack
      <3>1. pc = "packs" /\ owners = <<>>
        BY <1>3, <2>5 DEF ResolvePack, TypeInv, PlaceInv
      <3>2. /\ identity = GoModIdentity
            /\ \A owner \in {Authority, Kernel} : RightTree(owner)
        BY <1>3, <2>1, <3>1 DEF PackInv, RegistryInv, IsLocated
      <3>3. QualityDecodes(ConfigSeam) /\ references # <<>> /\ IsSequence(references)
            /\ \A i \in DOMAIN references : IsDeclared(references[i])
        BY <1>3, <3>1 DEF PackInv, SearchInv, Searching, TypeInv, PlaceInv
      <3>4. IsDeclared(Head(references))
        BY <3>3, TailOfReferences
      <3>5. PacksConform(tenant, bound) => CarriedOnce(tenant, bound, Head(references))
        BY <3>3, <3>4 DEF IsDeclared, PacksConform, Declared, ConfigSeam
      <3>6. PacksConform(tenant, bound) => Resolves(Carriers(Head(references)))
        BY <1>3, <2>1, <3>2, <3>5, UnresolvedIsNotCarried
      <3> QED
        BY <2>5, <3>6 DEF ResolvePack, PackDone, Judge
    <2> QED
      BY <2>1, <2>2, <2>3, <2>4, <2>5 DEF VerifyExtends
  <1> QED
    BY <1>1, <1>2, <1>4, ReasonKeepsFounded

LEMMA ReportKeepsFounded ==
    ASSUME PackState, FoundedInv, Report PROVE FoundedInv'
PROOF
  <1>1. UNCHANGED <<world, program, findings, faults>>
        /\ (exit' = 1 => findings # {})
    BY DEF Report
  <1>2. tenant' = tenant /\ bound' = bound /\ homeRoot' = homeRoot
    BY <1>1 DEF world, program
  <1>3. home' = home /\ tooling' = tooling
    BY <1>2 DEF home, tooling
  <1>4. \A family : Holds(family)' => Holds(family)
    BY <1>2, <1>3 DEF Holds, tooling, home, Resolved
  <1>5. PacksConform(tenant, bound)' => PacksConform(tenant, bound)
    BY <1>2
  <1> QED
    BY <1>1, <1>4, <1>5 DEF FoundedInv

LEMMA NextKeepsFounded ==
    ASSUME PackState, FoundedInv, [Next]_vars PROVE FoundedInv'
PROOF
  <1>1. CASE \/ DecodeTenantBindings \/ ResolveHomeRoot
             \/ ManifestReadFails \/ HomeResolutionFails
    BY <1>1, StartKeepsFounded
  <1>2. CASE \/ VerifyCallers \/ VerifyFiles \/ VerifyCodeowners
             \/ VerifyConventions \/ VerifyQuality \/ VerifyToolchain
             \/ VerifyTools \/ VerifyLicense \/ FamilyFails
    BY <1>2, FamilyKeepsFounded
  <1>3. CASE \/ VerifyExtends
             \/ ToolingReadFails \/ RegistryReadFails \/ RegistryVanishes
             \/ RegistryResolutionFails
             \/ ReferencesReadFails \/ IdentityReadFails
    BY <1>3, PacksKeepFounded
  <1>4. CASE Report
    BY <1>4, ReportKeepsFounded
  <1>5. CASE UNCHANGED vars
    <2>1. UNCHANGED <<world, program, findings, exit, faults>>
      BY <1>5 DEF vars
    <2>2. tenant' = tenant /\ bound' = bound /\ homeRoot' = homeRoot
      BY <2>1 DEF world, program
    <2>3. home' = home /\ tooling' = tooling
      BY <2>2 DEF home, tooling
    <2>4. \A family : Holds(family)' => Holds(family)
      BY <2>2, <2>3 DEF Holds, tooling, home, Resolved
    <2>5. PacksConform(tenant, bound)' => PacksConform(tenant, bound)
      BY <2>2
    <2> QED
      BY <2>1, <2>2, <2>4, <2>5 DEF FoundedInv
  <1> QED
    BY <1>1, <1>2, <1>3, <1>4, <1>5 DEF Next, Step, Failure

(* A tree that conforms has no finding with a reason.                        *)
LEMMA FoundedSuffices ==
    ASSUME PackState, FoundedInv PROVE FailIsFounded
PROOF
  <1> SUFFICES ASSUME exit = 1, faults = <<>>, bound # None, homeRoot # None,
                      Conforms(tenant, home, bound)
               PROVE  FALSE
    BY DEF FailIsFounded
  <1>1. PICK family \in findings : TRUE
    BY DEF FoundedInv
  <1>2. family \in DOMAIN FamilyAfter \cup {"packs"}
    BY DEF PackState, TypeInv, TypeOK, Families
  <1>3. ConformsButForPacks(tenant, home, bound) /\ PacksConform(tenant, bound)
    BY DEF Conforms
  <1>4. family # "packs"
    BY <1>3 DEF FoundedInv
  <1>5. Holds(family)
    BY <1>3
       DEF Holds, ConformsButForPacks, SurfacesConform, FilesConform, tooling
  <1> QED
    BY <1>4, <1>5 DEF FoundedInv

(* For every checkout, home and registry: a run in which no call fails       *)
(* refuses only a tree that does not decode, has no home, or does not conform*)
(* in one of the nine families (verify.go:43-78).                            *)
THEOREM RefusalsAreFounded ==
    ASSUME MajorsFit PROVE Spec => []FailIsFounded
PROOF
  <1>1. Init => FoundedInv
    BY DEF Init, FoundedInv
  <1>2. PackState /\ FoundedInv /\ [Next]_vars => FoundedInv'
    BY NextKeepsFounded
  <1>3. PackState /\ FoundedInv => FailIsFounded
    BY FoundedSuffices
  <1> QED
    BY <1>1, <1>2, <1>3, PackStateInvariant, PTL DEF Spec
================================================================================
