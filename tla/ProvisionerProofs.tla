--------------------------- MODULE ProvisionerProofs ---------------------------
(***************************************************************************)
(* Invariants of the provisioning CLI, and that it implements ProvenWrites,*)
(* for every set of runs, home trees, manifests and tenant trees.          *)
(*                                                                         *)
(* The argument is one inductive invariant, IInv: the types, and for each  *)
(* run what it holds at each place of the process - the materials are at   *)
(* every moment the part of the proven plan the steps before made, and a   *)
(* run that applies was confirmed for exactly the surfaces its manifest    *)
(* binds.  The confirmation of a run that plans a second time rests on the *)
(* second plan having the same paths as the first, which follows from the  *)
(* manifest being read once.                                               *)
(***************************************************************************)
EXTENDS Provisioner, GovernedRegionProofs

-------------------------------------------------------------------------------
(* What the planning steps of the render core return: materials whose paths  *)
(* are paths the manifest's validation accepts and whose contents are        *)
(* contents a file can hold.                                                 *)
PlannedMaterial ==
    [path : ManifestPaths \cup WorkflowPaths, contents : Contents]

(* Files of one digest are one file.                                         *)
LEMMA DigestsName ==
    ASSUME NEW contents, NEW others, Sum256Hex(contents) = Sum256Hex(others)
    PROVE  contents = others
  <1>1. Sum256Hex(contents).sha256 = contents /\ Sum256Hex(others).sha256 = others
    BY DEF Sum256Hex
  <1>2. QED
    BY <1>1

(* A home file that is read and found is file contents (ReadHome).           *)
LEMMA HomeFileType ==
    ASSUME NEW h, TypedHome(h), NEW path \in HomePaths, h[path] # Absent
    PROVE  h[path] \in Contents
  BY DEF TypedHome

(* The paths of the three copied topics are home paths (files.go).           *)
LEMMA TopicsAreHomePaths ==
    ASSUME NEW i \in 1..3
    PROVE  TopicPath(FileTopics[i]) \in HomePaths
  BY DEF HomePaths

(* Proven callers are materials a run can write (planCallers).               *)
LEMMA CallerMaterialsType ==
    ASSUME NEW h, NEW b \in Manifests, TypedHome(h), ValidBindings(b),
           CallersProven(h, b)
    PROVE  /\ CallerMaterials(h, b) \in Seq(PlannedMaterial)
           /\ Len(CallerMaterials(h, b)) = Len(b.callers)
  <1>1. IsSequence(b.callers)
    BY ManifestsAssumption DEF TypedManifest
  <1> DEFINE n == Len(b.callers)
  <1>2. n \in Nat /\ DOMAIN b.callers = 1..n
    BY <1>1 DEF IsSequence
  <1>3. ASSUME NEW i \in 1..n
        PROVE  Material(b.callers[i].file, h[b.callers[i].master])
                   \in PlannedMaterial
    <2>1. b.callers[i].file \in WorkflowPaths /\ b.callers[i].master \in MasterPaths
      BY <1>2, <1>3 DEF ValidBindings, ValidCallers
    <2>2. h[b.callers[i].master] # Absent
      BY <1>2, <1>3 DEF CallersProven, MasterProven
    <2>3. h[b.callers[i].master] \in Contents
      BY <2>1, <2>2, HomeFileType DEF HomePaths
    <2>4. QED
      BY <2>1, <2>3 DEF Material, PlannedMaterial
  <1>4. CallerMaterials(h, b) \in [1..n -> PlannedMaterial]
    BY <1>2, <1>3 DEF CallerMaterials
  <1>5. QED
    BY <1>2, <1>4, FunctionIsSequence

(* Proven file topics are materials a run can write (planFileTopics).        *)
LEMMA FileTopicMaterialsType ==
    ASSUME NEW h, NEW b \in Manifests, TypedHome(h), ValidBindings(b),
           FileTopicsProven(h, b)
    PROVE  /\ FileTopicMaterials(h, b) \in Seq(PlannedMaterial)
           /\ Len(FileTopicMaterials(h, b)) = 3
  <1>1. Len(FileTopics) = 3 /\ DOMAIN FileTopics = 1..3
    BY DEF FileTopics
  <1>2. ASSUME NEW i \in 1..3
        PROVE  Material(b.files[FileTopics[i]].path, h[TopicPath(FileTopics[i])])
                   \in PlannedMaterial
    <2>1. b.files[FileTopics[i]].path \in ManifestPaths
      BY <1>1, <1>2 DEF ValidBindings, ValidFiles
    <2>2. h[TopicPath(FileTopics[i])] # Absent
      BY <1>1, <1>2 DEF FileTopicsProven, MasterProven
    <2>3. h[TopicPath(FileTopics[i])] \in Contents
      BY <2>2, HomeFileType, TopicsAreHomePaths
    <2>4. QED
      BY <2>1, <2>3 DEF Material, PlannedMaterial
  <1>3. FileTopicMaterials(h, b) \in [1..3 -> PlannedMaterial]
    BY <1>1, <1>2 DEF FileTopicMaterials
  <1>4. QED
    BY <1>3, FunctionIsSequence

(* The rendered code owners are a material a run can write.                  *)
LEMMA CodeownersMaterialType ==
    ASSUME NEW h, NEW b \in Manifests, TypedHome(h), ValidBindings(b),
           CodeownersRenders(h)
    PROVE  CodeownersMaterial(h, b) \in PlannedMaterial
  <1> DEFINE template == h[CodeownersTemplatePath]
  <1>1. template \in Contents
    BY HomeFileType DEF HomePaths, CodeownersRenders
  <1>2. b.codeowners.defaultOwner \in Chunk /\ b.codeowners.path \in ManifestPaths
    BY ManifestsAssumption DEF TypedManifest, ValidBindings
  <1>3. Len(template) \in Nat /\ \A i \in 1..Len(template) : template[i] \in Chunk
    BY <1>1 DEF Contents
  <1>4. RenderedCodeowners(h, b) \in [1..Len(template) -> Chunk]
    BY <1>2, <1>3 DEF RenderedCodeowners
  <1>5. RenderedCodeowners(h, b) \in Contents
    BY <1>3, <1>4 DEF Contents
  <1>6. QED
    BY <1>2, <1>5 DEF CodeownersMaterial, Material, PlannedMaterial

(* The mark and the line feed are chunks of a file.                          *)
LEMMA MarksAreChunks == Mark \in Chunk /\ LineFeed \in Chunk
  BY DEF Chunk, Line

(* A valid manifest selects fragments that exist (validateFiles).            *)
LEMMA FragmentsOfValidManifest ==
    ASSUME NEW b \in Manifests, ValidBindings(b)
    PROVE  LET fragments == b.files["gitignore"].fragments
           IN  /\ Len(fragments) \in Nat
               /\ fragments \in Seq(FragmentNames)
               /\ \A i \in 1..Len(fragments) : fragments[i] \in FragmentNames
  <1> DEFINE fragments == b.files["gitignore"].fragments
  <1>1. Len(fragments) \in Nat /\ fragments = [i \in 1..Len(fragments) |-> fragments[i]]
    BY ManifestsAssumption DEF TypedManifest, IsSequence
  <1>2. DOMAIN fragments = 1..Len(fragments)
    BY <1>1
  <1>3. \A i \in 1..Len(fragments) : fragments[i] \in FragmentNames
    BY <1>2 DEF ValidBindings, ValidFiles, ValidFragments, FragmentNames
  <1>4. fragments \in [1..Len(fragments) -> FragmentNames]
    BY <1>1, <1>3
  <1> HIDE DEF fragments
  <1>5. fragments \in Seq(FragmentNames)
    BY <1>1, <1>4, FunctionIsSequence
  <1>6. QED
    BY <1>1, <1>3, <1>5 DEF fragments

(* The region a valid manifest selects is a file without a mark but its last *)
(* chunk (RenderGitignoreGovernedRegion).                                    *)
LEMMA BoundRegionType ==
    ASSUME NEW h, NEW b \in Manifests, TypedHome(h), ValidBindings(b),
           RegionProven(h, b)
    PROVE  LET body == RegionBody(h, b.files["gitignore"].fragments, b.home.sha)
           IN  /\ body \in Contents /\ ~ HasMark(body)
               /\ BoundRegion(h, b) = body \o <<Mark, LineFeed>>
               /\ BoundRegion(h, b) \in Contents
  <1> DEFINE fragments == b.files["gitignore"].fragments
             body == RegionBody(h, fragments, b.home.sha)
  <1>1. /\ Len(fragments) \in Nat /\ fragments \in Seq(FragmentNames)
        /\ \A i \in 1..Len(fragments) : fragments[i] \in FragmentNames
    BY FragmentsOfValidManifest
  <1>2. Header(fragments, b.home.sha) \in Chunk
    <2>1. b.home.sha \in Pins
      BY DEF ValidBindings
    <2> HIDE DEF fragments
    <2>2. QED
      BY <1>1, <2>1 DEF Header, Chunk
  <1>3. ASSUME NEW i \in 1..Len(fragments)
        PROVE  Block(fragments[i], h[FragmentPath(fragments[i])]) \in Chunk
    <2>1. fragments[i] \in FragmentNames
      BY <1>1
    <2>2. h[FragmentPath(fragments[i])] # Absent
      BY <1>1 DEF RegionProven, RegionRenders
    <2>3. h[FragmentPath(fragments[i])] \in Seq(Line)
      BY <2>1, <2>2 DEF TypedHome
    <2> HIDE DEF fragments
    <2>4. QED
      BY <2>1, <2>3 DEF Block, Chunk
  <1>4. body \in Seq(Chunk) /\ ~ HasMark(body)
    <2> HIDE DEF fragments
    <2>1. QED
      BY <1>1, <1>2, <1>3, RegionBodyIsUnmarked
  <1>5. BoundRegion(h, b) = body \o <<Mark, LineFeed>>
    BY DEF BoundRegion, GovernedRegion
  <1>6. <<Mark, LineFeed>> \in Seq(Chunk)
    BY MarksAreChunks
  <1> HIDE DEF body
  <1>7. body \o <<Mark, LineFeed>> \in Seq(Chunk)
    BY <1>4, <1>6, ConcatProperties
  <1>8. QED
    BY <1>4, <1>5, <1>7 DEF Contents, body

(* The composed gitignore begins with the digest-bound region, whatever the  *)
(* tenant file held (planGitignore).                                         *)
LEMMA GitignoreMaterialType ==
    ASSUME NEW h, NEW b \in Manifests, TypedHome(h), ValidBindings(b),
           RegionProven(h, b), NEW existing \in Contents \cup {Absent},
           GitignoreComposes(h, b, existing)
    PROVE  /\ GitignoreMaterial(h, b, existing) \in PlannedMaterial
           /\ IsPrefix(BoundRegion(h, b), GitignoreMaterial(h, b, existing).contents)
  <1>1. BoundRegion(h, b) \in Seq(Chunk)
    BY BoundRegionType DEF Contents
  <1>2. b.files["gitignore"].path \in ManifestPaths
    BY DEF ValidBindings, ValidFiles
  <1> DEFINE composed == IF existing = Absent THEN BoundRegion(h, b)
                         ELSE Preserved(existing, BoundRegion(h, b))
  <1>3. composed \in Seq(Chunk) /\ IsPrefix(BoundRegion(h, b), composed)
    <2>1. CASE existing = Absent
      BY <1>1, <2>1 DEF IsPrefix
    <2>2. CASE existing # Absent
      <3>1. existing \in Seq(Chunk) /\ Preservable(existing, BoundRegion(h, b))
        BY <2>2 DEF GitignoreComposes, Contents
      <3>2. PICK kept \in Seq(Chunk) :
               Preserved(existing, BoundRegion(h, b)) = BoundRegion(h, b) \o kept
        BY <1>1, <3>1, PreservedType
      <3>3. QED
        BY <1>1, <2>2, <3>2, PrefixOfConcat, ConcatProperties
    <2>3. QED
      BY <2>1, <2>2
  <1>4. GitignoreMaterial(h, b, existing) =
           [path |-> b.files["gitignore"].path, contents |-> composed]
    BY DEF GitignoreMaterial, Material
  <1> HIDE DEF composed
  <1>5. QED
    BY <1>2, <1>3, <1>4 DEF PlannedMaterial, Contents

(* Replacing a token leaves a file (strings.ReplaceAll).                     *)
LEMMA ReplacedType ==
    ASSUME NEW chunk \in Chunk, NEW b \in Manifests, NEW n \in 0..5,
           ValidBindings(b), b.conventions # Unbound,
           b.class.qualityGates \in ConventionsClasses
    PROVE  Replaced(chunk, b, n) \in Chunk
  <1>1. {b.conventions.organization, b.conventions.repository,
         b.conventions.rationale} \subseteq Chunk
    BY ManifestsAssumption DEF TypedManifest, ValidBindings, ValidConventions
  <1>2. Text(b.class.qualityGates) \in Chunk
    BY ClassesAssumption DEF Text, Chunk
  <1>3. PlatformSentence(b.class.qualityGates) \in Chunk
    BY DEF PlatformSentence, Chunk
  <1>4. QED
    BY <1>1, <1>2, <1>3 DEF Replaced

(* The rendered conventions are at most one material (planConventions).      *)
LEMMA ConventionsMaterialsType ==
    ASSUME NEW h, NEW b \in Manifests, TypedHome(h), ValidBindings(b),
           ConventionsProven(h, b)
    PROVE  /\ ConventionsMaterials(h, b) \in Seq(PlannedMaterial)
           /\ Len(ConventionsMaterials(h, b)) =
                 IF b.conventions = Unbound THEN 0 ELSE 1
  <1>1. CASE b.conventions = Unbound
    BY <1>1 DEF ConventionsMaterials
  <1>2. CASE b.conventions # Unbound
    <2> DEFINE template == h[ConventionsTemplatePath]
    <2>1. ConventionsRender(h, b)
      BY <1>2 DEF ConventionsProven
    <2>2. template \in Contents
      BY <2>1, HomeFileType DEF ConventionsRender, HomePaths
    <2>3. Len(template) \in Nat /\ \A i \in 1..Len(template) : template[i] \in Chunk
      BY <2>2 DEF Contents
    <2>4. \A i \in 1..Len(template) : Replaced(template[i], b, 5) \in Chunk
      BY <1>2, <2>1, <2>3, ReplacedType DEF ConventionsRender
    <2>5. RenderedConventions(h, b) \in Contents
      <3>1. RenderedConventions(h, b) \in [1..Len(template) -> Chunk]
        BY <2>4 DEF RenderedConventions, ConventionsStep
      <3>2. QED
        BY <2>3, <3>1, FunctionIsSequence DEF Contents
    <2>6. b.conventions.path \in ManifestPaths
      BY <1>2 DEF ValidBindings, ValidConventions
    <2>7. Material(b.conventions.path, RenderedConventions(h, b)) \in PlannedMaterial
      BY <2>5, <2>6 DEF Material, PlannedMaterial
    <2>8. QED
      BY <1>2, <2>7 DEF ConventionsMaterials
  <1>3. QED
    BY <1>1, <1>2

-------------------------------------------------------------------------------
(* The plan of a manifest after each step of Provisioner.Plan, for the       *)
(* gitignore the step has read, and what was proven of it by then.           *)
Plan1(h, b) == CallerMaterials(h, b)
Plan2(h, b) == Plan1(h, b) \o FileTopicMaterials(h, b)
Plan3(h, b, existing) == Plan2(h, b) \o <<GitignoreMaterial(h, b, existing)>>
Plan4(h, b, existing) == Plan3(h, b, existing) \o <<CodeownersMaterial(h, b)>>
Plan5(h, b, existing) == Plan4(h, b, existing) \o ConventionsMaterials(h, b)

Proven2(h, b) == CallersProven(h, b) /\ FileTopicsProven(h, b)
Proven3(h, b, existing) ==
    Proven2(h, b) /\ RegionProven(h, b) /\ GitignoreComposes(h, b, existing)
Proven4(h, b, existing) == Proven3(h, b, existing) /\ CodeownersRenders(h)
Proven5(h, b, existing) == Proven4(h, b, existing) /\ ConventionsProven(h, b)

ReadContents == Contents \cup {Absent}

-------------------------------------------------------------------------------
(* The inductive invariant.                                                  *)
Planning ==
    {"callers", "topics", "gitignore", "codeowners", "conventions", "planned"}

Decoded(b) == b \in Manifests /\ ValidBindings(b)

(* What a run has decoded, resolved and been told at each place.             *)
Progress(p, f, b, release, apply, count) ==
    /\ p \notin {"idle", "exit"} => f \in Invocations
    /\ p \notin {"idle", "exit", "decode"} => Decoded(b)
    /\ p \notin {"idle", "exit", "decode", "home"} => release \in Releases
    /\ p \notin {"write", "writing", "exit"} => count = 0
    /\ p \in {"idle", "decode", "home", "mode", "prompt"} => ~ apply
    /\ p \in {"write", "writing"} => apply

(* What it has planned.                                                      *)
Planned(p, b, release, plan) ==
    LET h == HomeTree[release]
    IN  /\ p \in {"idle", "decode", "home", "mode", "callers"} => plan = <<>>
        /\ p = "topics" => CallersProven(h, b) /\ plan = Plan1(h, b)
        /\ p = "gitignore" => Proven2(h, b) /\ plan = Plan2(h, b)
        /\ p = "codeowners" => \E existing \in ReadContents :
              Proven3(h, b, existing) /\ plan = Plan3(h, b, existing)
        /\ p = "conventions" => \E existing \in ReadContents :
              Proven4(h, b, existing) /\ plan = Plan4(h, b, existing)
        /\ p \in {"planned", "prompt", "write", "writing"} =>
              \E existing \in ReadContents :
                 Proven5(h, b, existing) /\ plan = Plan5(h, b, existing)

(* What confirms its writes.                                                 *)
Confirmed(p, f, b, apply, printed) ==
    /\ p \in Planning /\ ~ apply => f.dryRun \/ f.terminal
    /\ p = "prompt" => ~ f.dryRun /\ f.terminal /\ printed = SurfaceOrder(b)
    /\ p # "exit" /\ apply =>
          /\ ~ f.dryRun
          /\ f.yes \/ (f.terminal /\ printed = SurfaceOrder(b))

RunInv(r) ==
    /\ Progress(pc[r], flags[r], bound[r], homeRoot[r], applying[r], written[r])
    /\ Planned(pc[r], bound[r], homeRoot[r], materials[r])
    /\ Confirmed(pc[r], flags[r], bound[r], applying[r], shown[r])
    /\ pc[r] = "writing" => written[r] < Len(materials[r])

IInv == TypeOK /\ \A r \in Runs : RunInv(r)

-------------------------------------------------------------------------------
(* The plan after each step is a sequence of materials a run can write.      *)
LEMMA HomeIsTyped ==
    ASSUME NEW release \in Releases
    PROVE  TypedHome(HomeTree[release])
  BY TreesAssumption

(* A plan that is proven so far holds materials a run can write.             *)
LEMMA PlanTypes ==
    ASSUME NEW h, TypedHome(h), NEW b, Decoded(b), NEW existing \in ReadContents
    PROVE  /\ CallersProven(h, b) => Plan1(h, b) \in Seq(PlannedMaterial)
           /\ Proven2(h, b) => Plan2(h, b) \in Seq(PlannedMaterial)
           /\ Proven3(h, b, existing) =>
                 Plan3(h, b, existing) \in Seq(PlannedMaterial)
           /\ Proven4(h, b, existing) =>
                 Plan4(h, b, existing) \in Seq(PlannedMaterial)
           /\ Proven5(h, b, existing) =>
                 Plan5(h, b, existing) \in Seq(PlannedMaterial)
  <1> USE DEF Decoded, ReadContents
  <1>1. CallersProven(h, b) => Plan1(h, b) \in Seq(PlannedMaterial)
    BY CallerMaterialsType DEF Plan1
  <1>2. Proven2(h, b) => Plan2(h, b) \in Seq(PlannedMaterial)
    BY <1>1, FileTopicMaterialsType, ConcatProperties DEF Proven2, Plan2
  <1>3. Proven3(h, b, existing) => Plan3(h, b, existing) \in Seq(PlannedMaterial)
    <2> SUFFICES ASSUME Proven3(h, b, existing)
                 PROVE  Plan3(h, b, existing) \in Seq(PlannedMaterial)
      OBVIOUS
    <2>1. GitignoreMaterial(h, b, existing) \in PlannedMaterial
      BY GitignoreMaterialType DEF Proven3
    <2>2. <<GitignoreMaterial(h, b, existing)>> \in Seq(PlannedMaterial)
      BY <2>1
    <2>3. QED
      BY <1>2, <2>2, ConcatProperties DEF Proven3, Plan3
  <1>4. Proven4(h, b, existing) => Plan4(h, b, existing) \in Seq(PlannedMaterial)
    <2> SUFFICES ASSUME Proven4(h, b, existing)
                 PROVE  Plan4(h, b, existing) \in Seq(PlannedMaterial)
      OBVIOUS
    <2>1. CodeownersMaterial(h, b) \in PlannedMaterial
      BY CodeownersMaterialType DEF Proven4
    <2>2. <<CodeownersMaterial(h, b)>> \in Seq(PlannedMaterial)
      BY <2>1
    <2>3. QED
      BY <1>3, <2>2, ConcatProperties DEF Proven4, Plan4
  <1>5. Proven5(h, b, existing) => Plan5(h, b, existing) \in Seq(PlannedMaterial)
    BY <1>4, ConventionsMaterialsType, ConcatProperties DEF Proven5, Plan5
  <1>6. QED
    BY <1>1, <1>2, <1>3, <1>4, <1>5

-------------------------------------------------------------------------------
(* The paths of the plan are the surfaces of the manifest, in order, whatever*)
(* the tenant tree held when it was planned.                                 *)
LEMMA PathsOfConcat ==
    ASSUME NEW M, NEW s \in Seq(M), NEW t \in Seq(M)
    PROVE  Paths(s \o t) = Paths(s) \o Paths(t)
  <1> DEFINE P == {m.path : m \in M}
             m == Len(s)
             n == Len(t)
  <1>1. m \in Nat /\ n \in Nat
    OBVIOUS
  <1>2. /\ s \o t \in Seq(M) /\ Len(s \o t) = m + n
        /\ \A i \in 1..(m + n) :
              (s \o t)[i] = IF i <= m THEN s[i] ELSE t[i - m]
    BY ConcatProperties
  <1>3. \A u \in Seq(M) : Paths(u) \in Seq(P) /\ Len(Paths(u)) = Len(u)
    <2> SUFFICES ASSUME NEW u \in Seq(M)
                 PROVE  Paths(u) \in Seq(P) /\ Len(Paths(u)) = Len(u)
      OBVIOUS
    <2>1. Len(u) \in Nat /\ \A i \in 1..Len(u) : u[i].path \in P
      OBVIOUS
    <2> HIDE DEF P
    <2>2. Paths(u) \in [1..Len(u) -> P]
      BY <2>1 DEF Paths
    <2>3. QED
      BY <2>1, <2>2, FunctionIsSequence
  <1>4. /\ Paths(s) \o Paths(t) \in Seq(P) /\ Len(Paths(s) \o Paths(t)) = m + n
        /\ \A i \in 1..(m + n) : (Paths(s) \o Paths(t))[i] =
              IF i <= m THEN Paths(s)[i] ELSE Paths(t)[i - m]
    <2> HIDE DEF P, m, n
    <2>1. /\ Paths(s) \in Seq(P) /\ Len(Paths(s)) = m
          /\ Paths(t) \in Seq(P) /\ Len(Paths(t)) = n
      BY <1>3 DEF m, n
    <2>2. QED
      BY <2>1, ConcatProperties
  <1>5. ASSUME NEW i \in 1..(m + n)
        PROVE  Paths(s \o t)[i] = (Paths(s) \o Paths(t))[i]
    <2> HIDE DEF P
    <2>1. Paths(s \o t)[i] = (s \o t)[i].path
      BY <1>2 DEF Paths
    <2>2. CASE i <= m
      BY <1>1, <1>2, <1>4, <2>1, <2>2 DEF Paths
    <2>3. CASE ~ (i <= m)
      <3>1. i - m \in 1..n
        BY <1>1, <2>3
      <3>2. Paths(t)[i - m] = t[i - m].path
        BY <3>1 DEF Paths
      <3>3. QED
        BY <1>2, <1>4, <2>1, <2>3, <3>2
    <2>4. QED
      BY <2>2, <2>3
  <1>6. Paths(s \o t) \in Seq(P) /\ Len(Paths(s \o t)) = m + n
    BY <1>2, <1>3
  <1> HIDE DEF P, m, n
  <1>7. QED
    BY <1>4, <1>5, <1>6, SeqEqual

(* The paths of a plan of one material.                                      *)
LEMMA PathsOfOne ==
    ASSUME NEW material
    PROVE  Paths(<<material>>) = <<material.path>>
  BY DEF Paths

(* A complete plan lists the surfaces of its manifest in Plan's order.       *)
LEMMA PathsOfPlan ==
    ASSUME NEW h, TypedHome(h), NEW b, Decoded(b), NEW existing \in ReadContents,
           Proven5(h, b, existing)
    PROVE  /\ Plan5(h, b, existing) \in Seq(PlannedMaterial)
           /\ Paths(Plan5(h, b, existing)) = SurfaceOrder(b)
  <1> DEFINE M == PlannedMaterial
  <1>1. /\ Proven2(h, b) /\ CallersProven(h, b) /\ FileTopicsProven(h, b)
        /\ Proven3(h, b, existing) /\ RegionProven(h, b)
        /\ GitignoreComposes(h, b, existing)
        /\ Proven4(h, b, existing) /\ CodeownersRenders(h)
        /\ ConventionsProven(h, b)
    BY DEF Proven2, Proven3, Proven4, Proven5
  <1>2. /\ Plan1(h, b) \in Seq(M) /\ Plan2(h, b) \in Seq(M)
        /\ Plan3(h, b, existing) \in Seq(M) /\ Plan4(h, b, existing) \in Seq(M)
        /\ Plan5(h, b, existing) \in Seq(M)
    BY <1>1, PlanTypes
  <1>3. Paths(Plan1(h, b)) = CallerPaths(b)
    <2>1. Len(CallerMaterials(h, b)) = Len(b.callers)
      BY <1>1, CallerMaterialsType DEF Decoded
    <2>2. \A i \in 1..Len(b.callers) :
             CallerMaterials(h, b)[i].path = b.callers[i].file
      BY DEF CallerMaterials, Material
    <2>3. QED
      BY <2>1, <2>2 DEF Paths, Plan1, CallerPaths
  <1>4. Paths(Plan2(h, b)) = CallerPaths(b) \o TopicPaths(b)
    <2>1. FileTopicMaterials(h, b) \in Seq(M) /\ Len(FileTopicMaterials(h, b)) = 3
      BY <1>1, FileTopicMaterialsType DEF Decoded
    <2>2. Len(FileTopics) = 3
      BY DEF FileTopics
    <2>3. Paths(FileTopicMaterials(h, b)) = TopicPaths(b)
      BY <2>1, <2>2 DEF Paths, FileTopicMaterials, Material, TopicPaths
    <2>4. QED
      BY <1>2, <1>3, <2>1, <2>3, PathsOfConcat DEF Plan2
  <1>5. Paths(Plan3(h, b, existing)) =
           CallerPaths(b) \o TopicPaths(b) \o <<b.files["gitignore"].path>>
    <2>1. GitignoreMaterial(h, b, existing) \in M
      BY <1>1, GitignoreMaterialType DEF Decoded, ReadContents
    <2>2. <<GitignoreMaterial(h, b, existing)>> \in Seq(M)
      BY <2>1
    <2>3. Paths(<<GitignoreMaterial(h, b, existing)>>) = <<b.files["gitignore"].path>>
      BY PathsOfOne DEF GitignoreMaterial, Material
    <2>4. QED
      BY <1>2, <1>4, <2>2, <2>3, PathsOfConcat DEF Plan3
  <1>6. Paths(Plan4(h, b, existing)) =
           CallerPaths(b) \o TopicPaths(b) \o <<b.files["gitignore"].path>>
               \o <<b.codeowners.path>>
    <2>1. CodeownersMaterial(h, b) \in M
      BY <1>1, CodeownersMaterialType DEF Decoded
    <2>2. <<CodeownersMaterial(h, b)>> \in Seq(M)
      BY <2>1
    <2>3. Paths(<<CodeownersMaterial(h, b)>>) = <<b.codeowners.path>>
      BY PathsOfOne DEF CodeownersMaterial, Material
    <2>4. QED
      BY <1>2, <1>5, <2>2, <2>3, PathsOfConcat DEF Plan4
  <1>7. Paths(Plan5(h, b, existing)) = SurfaceOrder(b)
    <2>1. ConventionsMaterials(h, b) \in Seq(M)
      BY <1>1, ConventionsMaterialsType DEF Decoded
    <2>2. Paths(ConventionsMaterials(h, b)) = ConventionsPaths(b)
      <3>1. Paths(<<>>) = <<>>
        BY DEF Paths
      <3>2. QED
        BY <3>1, PathsOfOne DEF ConventionsMaterials, ConventionsPaths, Material
    <2>3. QED
      BY <1>2, <1>6, <2>1, <2>2, PathsOfConcat DEF Plan5, SurfaceOrder
  <1>8. QED
    BY <1>2, <1>7

-------------------------------------------------------------------------------
(* What is read from the tenant tree and from the tooling module.            *)
LEMMA DecodedManifest ==
    ASSUME NEW contents \in ReadContents, Decodes(contents)
    PROVE  Decoded(contents[1].bindings)
  <1>1. contents \in Seq(Chunk) /\ Len(contents) = 1
    BY DEF ReadContents, Contents, Decodes
  <1>2. contents[1] \in Chunk /\ contents[1].kind = "manifest"
    <2>1. contents[1].kind = "manifest"
      BY DEF Decodes
    <2>2. 1 \in 1..Len(contents)
      BY <1>1
    <2>3. contents[1] \in Chunk
      BY <1>1, <2>2, ElementOfSeq
    <2>4. QED
      BY <2>1, <2>3
  <1>3. contents[1].bindings \in Manifests
    BY <1>2 DEF Chunk, Line, Mark, LineFeed
  <1>4. QED
    BY <1>3 DEF Decodes, Decoded

(* A tooling module pins releases that exist (ResolveModuleDir).             *)
LEMMA PinnedReleasesType ==
    ASSUME NEW tooling \in ReadContents, NEW repository
    PROVE  PinnedReleases(tooling, repository) \subseteq Releases
  <1>1. CASE tooling = Absent
    BY <1>1 DEF PinnedReleases
  <1>2. CASE tooling # Absent
    <2>1. tooling \in Seq(Chunk)
      BY <1>2 DEF ReadContents, Contents
    <2>2. \A i \in DOMAIN tooling :
             tooling[i].kind = "require" => tooling[i].release \in Releases
      <3>1. \A i \in DOMAIN tooling : tooling[i] \in Chunk
        BY <2>1
      <3>2. \A chunk \in Chunk : chunk.kind = "require" => chunk.release \in Releases
        BY DEF Chunk, Line, Mark, LineFeed
      <3>3. QED
        BY <3>1, <3>2
    <2>3. QED
      BY <1>2, <2>2 DEF PinnedReleases
  <1>3. QED
    BY <1>1, <1>2

(* Every path a run or an owner writes is a path of the tenant tree.         *)
LEMMA PathsAreTenantPaths ==
    /\ BindingsFileName \in TenantPaths
    /\ GitignorePaths \subseteq TenantPaths /\ ToolsPaths \subseteq TenantPaths
    /\ PlannedMaterial \subseteq [path : TenantPaths, contents : Contents]
  BY TenantPathsAssumption DEF PlannedMaterial

(* A plan over the paths of a manifest is one over the tenant's paths.       *)
LEMMA PlanIsTyped ==
    ASSUME NEW plan \in Seq(PlannedMaterial)
    PROVE  plan \in Seq([path : TenantPaths, contents : Contents])
  BY PathsAreTenantPaths, SeqMonotonic

-------------------------------------------------------------------------------
(* A step of one run leaves what the invariant says of the others.           *)
SameElsewhere(r) ==
    \A s \in Runs \ {r} :
        /\ pc'[s] = pc[s] /\ flags'[s] = flags[s] /\ bound'[s] = bound[s]
        /\ homeRoot'[s] = homeRoot[s] /\ applying'[s] = applying[s]
        /\ materials'[s] = materials[s] /\ written'[s] = written[s]
        /\ shown'[s] = shown[s]

(* It suffices to look at the run that moved.                                *)
LEMMA OneRunMoves ==
    ASSUME IInv, TypeOK', NEW r \in Runs, RunInv(r)', SameElsewhere(r)
    PROVE  IInv'
  <1>1. ASSUME NEW s \in Runs \ {r}
        PROVE  RunInv(s)'
    <2>1. RunInv(s)
      BY DEF IInv
    <2>2. QED
      BY <2>1 DEF RunInv, SameElsewhere
  <1>2. QED
    BY <1>1 DEF IInv

(* The invariant holds initially.                                            *)
LEMMA InitIInv == Init => IInv
  <1> SUFFICES ASSUME Init PROVE IInv
    OBVIOUS
  <1>1. TypeOK
    <2>1. tenant \in [TenantPaths -> Contents \cup {Absent}]
      BY TreesAssumption DEF Init
    <2>2. /\ materials \in [Runs -> Seq([path : TenantPaths, contents : Contents])]
          /\ shown \in [Runs -> Seq(TenantPaths)]
          /\ \A r \in Runs : written[r] \in 0..Len(materials[r])
      BY DEF Init
    <2>3. QED
      BY <2>1, <2>2, BoundsAssumption DEF Init, TypeOK, Reading
  <1>2. ASSUME NEW r \in Runs
        PROVE  RunInv(r)
    BY DEF Init, RunInv, Progress, Planned, Confirmed, Planning
  <1>3. QED
    BY <1>1, <1>2 DEF IInv

(* The process starts, decodes its manifest, resolves its home tree and      *)
(* chooses its mode (run).                                                   *)
LEMMA StartIInv ==
    ASSUME IInv, NEW r \in Runs, Start(r)
    PROVE  IInv'
  <1> USE DEF Start, Goto
  <1>1. TypeOK'
    BY DEF IInv, TypeOK, Reading, surroundings
  <1>2. RunInv(r)'
    <2>1. /\ pc'[r] = "decode" /\ flags'[r] \in Invocations
          /\ bound' = bound /\ homeRoot' = homeRoot /\ applying' = applying
          /\ materials' = materials /\ written' = written /\ shown' = shown
      BY DEF IInv, TypeOK
    <2>2. RunInv(r) /\ pc[r] = "idle"
      BY DEF IInv
    <2>3. QED
      BY <2>1, <2>2 DEF RunInv, Progress, Planned, Confirmed, Planning
  <1>3. SameElsewhere(r)
    BY DEF IInv, TypeOK, SameElsewhere
  <1>4. QED
    BY <1>1, <1>2, <1>3, OneRunMoves

(* decodeTenantBindings hands on a manifest that validates, or ends the run. *)
LEMMA DecodeIInv ==
    ASSUME IInv, NEW r \in Runs, DecodeTenantBindings(r)
    PROVE  IInv'
  <1> USE DEF DecodeTenantBindings, Goto, ExitWith
  <1>1. Decodes(tenant[BindingsFileName]) =>
           Decoded(tenant[BindingsFileName][1].bindings)
    BY DecodedManifest, PathsAreTenantPaths DEF IInv, TypeOK, ReadContents
  <1>2. TypeOK'
    BY <1>1 DEF IInv, TypeOK, Reading, surroundings, Decoded
  <1>3. RunInv(r)'
    <2>1. RunInv(r) /\ pc[r] = "decode"
      BY DEF IInv
    <2>2. \/ pc'[r] = "home" /\ Decoded(bound'[r])
          \/ pc'[r] = "exit"
      BY <1>1 DEF IInv, TypeOK
    <2>3. /\ flags' = flags /\ homeRoot' = homeRoot /\ applying' = applying
          /\ materials' = materials /\ written' = written /\ shown' = shown
      OBVIOUS
    <2>4. QED
      BY <2>1, <2>2, <2>3 DEF RunInv, Progress, Planned, Confirmed, Planning
  <1>4. SameElsewhere(r)
    BY DEF IInv, TypeOK, SameElsewhere
  <1>5. QED
    BY <1>2, <1>3, <1>4, OneRunMoves

(* resolveHomeRoot hands on an existing release, or ends the run.            *)
LEMMA ResolveIInv ==
    ASSUME IInv, NEW r \in Runs, ResolveHomeRoot(r)
    PROVE  IInv'
  <1> USE DEF ResolveHomeRoot, Goto, ExitWith
  <1>1. RunInv(r) /\ pc[r] = "home"
    BY DEF IInv
  <1>2. Decoded(bound[r]) /\ flags[r] \in Invocations
    BY <1>1 DEF RunInv, Progress
  <1>3. \/ /\ pc' = [pc EXCEPT ![r] = "mode"] /\ exit' = exit
           /\ \E release \in Releases : homeRoot' = [homeRoot EXCEPT ![r] = release]
        \/ /\ pc' = [pc EXCEPT ![r] = "exit"] /\ exit' = [exit EXCEPT ![r] = 1]
           /\ homeRoot' = homeRoot
    <2> DEFINE resolved == IF flags[r].home # None THEN {flags[r].home}
                           ELSE PinnedReleases(tenant[bound[r].tools.module],
                                               bound[r].home.repository)
    <2>1. flags[r].home # None => flags[r].home \in Releases
      BY <1>2, InvocationsAssumption
    <2>2. tenant[bound[r].tools.module] \in ReadContents
      BY <1>2, PathsAreTenantPaths DEF IInv, TypeOK, ReadContents, Decoded, ToolsPaths
    <2>3. resolved \subseteq Releases
      BY <2>1, <2>2, PinnedReleasesType
    <2>4. \/ \E release \in resolved :
               /\ homeRoot' = [homeRoot EXCEPT ![r] = release]
               /\ pc' = [pc EXCEPT ![r] = "mode"] /\ exit' = exit
          \/ /\ pc' = [pc EXCEPT ![r] = "exit"] /\ exit' = [exit EXCEPT ![r] = 1]
             /\ homeRoot' = homeRoot
      OBVIOUS
    <2> HIDE DEF resolved
    <2>5. QED
      BY <2>3, <2>4
  <1>4. TypeOK'
    <2>1. homeRoot' \in [Runs -> Releases \cup {None}]
      BY <1>3 DEF IInv, TypeOK
    <2>2. /\ pc' \in [Runs -> {"idle", "mode", "planned", "prompt", "write",
                              "writing", "exit"} \cup Reading]
          /\ exit' \in [Runs -> {-1, 0, 1, 2}]
      BY <1>3 DEF IInv, TypeOK
    <2>3. UNCHANGED <<tenant, flags, bound, applying, materials, written, shown,
                      surroundings>>
      OBVIOUS
    <2>4. QED
      BY <2>1, <2>2, <2>3 DEF IInv, TypeOK, surroundings
  <1>5. RunInv(r)'
    <2>1. \/ pc'[r] = "mode" /\ homeRoot'[r] \in Releases
          \/ pc'[r] = "exit"
      BY <1>3 DEF IInv, TypeOK
    <2>2. /\ flags' = flags /\ bound' = bound /\ applying' = applying
          /\ materials' = materials /\ written' = written /\ shown' = shown
      OBVIOUS
    <2>3. QED
      BY <1>1, <2>1, <2>2 DEF RunInv, Progress, Planned, Confirmed, Planning
  <1>6. SameElsewhere(r)
    BY <1>3 DEF IInv, TypeOK, SameElsewhere
  <1>7. QED
    BY <1>4, <1>5, <1>6, OneRunMoves

(* Of a mutating run that skips the prompt, --yes without --dry-run is true. *)
LEMMA ChooseIInv ==
    ASSUME IInv, NEW r \in Runs, ChooseMode(r)
    PROVE  IInv'
  <1> USE DEF ChooseMode, Goto, ExitWith
  <1>1. RunInv(r) /\ pc[r] = "mode"
    BY DEF IInv
  <1>2. flags[r].dryRun \in BOOLEAN /\ flags[r].yes \in BOOLEAN
    BY <1>1, InvocationsAssumption DEF RunInv, Progress
  <1>3. TypeOK'
    BY <1>2 DEF IInv, TypeOK, Reading, surroundings
  <1>4. RunInv(r)'
    <2>1. \/ /\ pc'[r] = "callers"
             /\ applying'[r] = (flags[r].yes /\ ~ flags[r].dryRun)
             /\ flags[r].dryRun \/ flags[r].yes \/ flags[r].terminal
          \/ pc'[r] = "exit"
      BY DEF IInv, TypeOK
    <2>2. /\ flags' = flags /\ bound' = bound /\ homeRoot' = homeRoot
          /\ materials' = materials /\ written' = written /\ shown' = shown
      OBVIOUS
    <2>3. QED
      BY <1>1, <2>1, <2>2 DEF RunInv, Progress, Planned, Confirmed, Planning
  <1>5. SameElsewhere(r)
    BY DEF IInv, TypeOK, SameElsewhere
  <1>6. QED
    BY <1>3, <1>4, <1>5, OneRunMoves

-------------------------------------------------------------------------------
(* A planning step appends proven materials or ends the run (Plan).          *)
LEMMA PlanStepIInv ==
    ASSUME IInv, NEW r \in Runs,
           NEW STATE proven, NEW STATE appended, NEW here, NEW there,
           PlanStep(r, here, proven, appended, there),
           here \in Planning \ {"planned"}, there \in Planning,
           proven => materials[r] \o appended \in Seq(PlannedMaterial),
           proven => Planned(there, bound[r], homeRoot[r], materials[r] \o appended)
    PROVE  IInv'
  <1> USE DEF PlanStep, Goto, ExitWith
  <1>1. RunInv(r) /\ pc[r] = here
    BY DEF IInv
  <1>2. here \in Reading /\ written[r] = 0 /\ here # "planned"
    BY <1>1 DEF RunInv, Progress, Planning, Reading
  <1>3. \/ /\ proven
           /\ pc' = [pc EXCEPT ![r] = there] /\ exit' = exit
           /\ materials' = [materials EXCEPT ![r] = materials[r] \o appended]
        \/ /\ pc' = [pc EXCEPT ![r] = "exit"] /\ exit' = [exit EXCEPT ![r] = 1]
           /\ materials' = materials
    OBVIOUS
  <1>4. UNCHANGED <<tenant, flags, bound, homeRoot, applying, written, shown,
                    surroundings>>
    OBVIOUS
  <1>5. TypeOK'
    <2>1. pc' \in [Runs -> {"idle", "mode", "planned", "prompt", "write",
                           "writing", "exit"} \cup Reading]
      BY <1>3 DEF IInv, TypeOK, Planning, Reading
    <2>2. exit' \in [Runs -> {-1, 0, 1, 2}]
      BY <1>3 DEF IInv, TypeOK
    <2>3. proven => materials[r] \o appended \in Seq([path : TenantPaths, contents : Contents])
      BY PlanIsTyped
    <2>4. materials' \in [Runs -> Seq([path : TenantPaths, contents : Contents])]
      BY <1>3, <2>3 DEF IInv, TypeOK
    <2>5. \A s \in Runs : written'[s] \in 0..Len(materials'[s])
      <3>1. ASSUME NEW s \in Runs
            PROVE  written'[s] \in 0..Len(materials'[s])
        <4>1. CASE s = r
          <5>1. written'[s] = 0 /\ Len(materials'[s]) \in Nat
            BY <1>2, <1>4, <2>4, <4>1
          <5>2. QED
            BY <5>1
        <4>2. CASE s # r
          BY <1>3, <1>4, <4>2 DEF IInv, TypeOK
        <4>3. QED
          BY <4>1, <4>2
      <3>2. QED
        BY <3>1
    <2>6. QED
      BY <1>4, <2>1, <2>2, <2>4, <2>5 DEF IInv, TypeOK, surroundings
  <1>6. RunInv(r)'
    <2>1. \/ /\ pc'[r] = there
             /\ Planned(there, bound[r], homeRoot[r], materials'[r])
          \/ pc'[r] = "exit"
      BY <1>3 DEF IInv, TypeOK
    <2>2. CASE /\ pc'[r] = there
               /\ Planned(there, bound[r], homeRoot[r], materials'[r])
      BY <1>1, <1>2, <1>4, <2>2 DEF RunInv, Progress, Confirmed, Planning
    <2>3. CASE pc'[r] = "exit"
      BY <1>4, <2>3 DEF RunInv, Progress, Planned, Confirmed, Planning
    <2>4. QED
      BY <2>1, <2>2, <2>3
  <1>7. SameElsewhere(r)
    BY <1>3, <1>4 DEF IInv, TypeOK, SameElsewhere
  <1>8. QED
    BY <1>5, <1>6, <1>7, OneRunMoves

(* planCallers appends callers of the bound digests (provision.go:83-97).    *)
LEMMA PlanCallersIInv ==
    ASSUME IInv, NEW r \in Runs, PlanCallers(r)
    PROVE  IInv'
  <1> DEFINE h == HomeTree[homeRoot[r]]
             b == bound[r]
             proven == CallersProven(h, b)
             appended == CallerMaterials(h, b)
  <1>1. PlanStep(r, "callers", proven, appended, "topics")
    BY DEF PlanCallers
  <1>2. RunInv(r) /\ pc[r] = "callers"
    BY <1>1 DEF IInv, PlanStep
  <1>3. Decoded(b) /\ TypedHome(h) /\ materials[r] = <<>>
    BY <1>2, HomeIsTyped DEF RunInv, Progress, Planned
  <1>4. ASSUME proven
        PROVE  /\ materials[r] \o appended \in Seq(PlannedMaterial)
               /\ Planned("topics", b, homeRoot[r], materials[r] \o appended)
    <2>1. appended \in Seq(PlannedMaterial)
      BY <1>3, <1>4, CallerMaterialsType DEF Decoded
    <2>2. materials[r] \o appended = appended
      BY <1>3, <2>1, ConcatEmptySeq
    <2>3. QED
      BY <1>4, <2>1, <2>2 DEF Planned, Plan1
  <1> HIDE DEF h, b, proven, appended
  <1>5. QED
    BY <1>1, <1>4, PlanStepIInv DEF Planning, b

(* planFileTopics appends the masters of the bound digests.                  *)
LEMMA PlanFileTopicsIInv ==
    ASSUME IInv, NEW r \in Runs, PlanFileTopics(r)
    PROVE  IInv'
  <1> DEFINE h == HomeTree[homeRoot[r]]
             b == bound[r]
             proven == FileTopicsProven(h, b)
             appended == FileTopicMaterials(h, b)
  <1>1. PlanStep(r, "topics", proven, appended, "gitignore")
    BY DEF PlanFileTopics
  <1>2. RunInv(r) /\ pc[r] = "topics"
    BY <1>1 DEF IInv, PlanStep
  <1>3. /\ Decoded(b) /\ TypedHome(h)
        /\ CallersProven(h, b) /\ materials[r] = Plan1(h, b)
    BY <1>2, HomeIsTyped DEF RunInv, Progress, Planned
  <1>4. ASSUME proven
        PROVE  /\ materials[r] \o appended \in Seq(PlannedMaterial)
               /\ Planned("gitignore", b, homeRoot[r], materials[r] \o appended)
    <2>1. Proven2(h, b)
      BY <1>3, <1>4 DEF Proven2
    <2>2. Plan2(h, b) \in Seq(PlannedMaterial)
      BY <1>3, <2>1, PlanTypes DEF ReadContents
    <2>3. QED
      BY <1>3, <2>1, <2>2 DEF Planned, Plan2
  <1> HIDE DEF h, b, proven, appended
  <1>5. QED
    BY <1>1, <1>4, PlanStepIInv DEF Planning, b

(* planGitignore appends the region over the block it has read.              *)
LEMMA PlanGitignoreIInv ==
    ASSUME IInv, NEW r \in Runs, PlanGitignore(r)
    PROVE  IInv'
  <1> DEFINE h == HomeTree[homeRoot[r]]
             b == bound[r]
             existing == tenant[b.files["gitignore"].path]
             proven == RegionProven(h, b) /\ GitignoreComposes(h, b, existing)
             appended == <<GitignoreMaterial(h, b, existing)>>
  <1>1. PlanStep(r, "gitignore", proven, appended, "codeowners")
    BY DEF PlanGitignore
  <1>2. RunInv(r) /\ pc[r] = "gitignore"
    BY <1>1 DEF IInv, PlanStep
  <1>3. /\ Decoded(b) /\ TypedHome(h)
        /\ Proven2(h, b) /\ materials[r] = Plan2(h, b)
    BY <1>2, HomeIsTyped DEF RunInv, Progress, Planned
  <1>4. existing \in ReadContents
    BY <1>3, PathsAreTenantPaths
       DEF IInv, TypeOK, ReadContents, Decoded, GitignorePaths
  <1>5. ASSUME proven
        PROVE  /\ materials[r] \o appended \in Seq(PlannedMaterial)
               /\ Planned("codeowners", b, homeRoot[r], materials[r] \o appended)
    <2> HIDE DEF existing
    <2>1. Proven3(h, b, existing)
      BY <1>3, <1>5 DEF Proven3
    <2>2. Plan3(h, b, existing) \in Seq(PlannedMaterial)
      BY <1>3, <1>4, <2>1, PlanTypes
    <2>3. QED
      BY <1>3, <1>4, <2>1, <2>2 DEF Planned, Plan3
  <1> HIDE DEF h, b, proven, appended
  <1>6. QED
    BY <1>1, <1>5, PlanStepIInv DEF Planning, b

(* planCodeowners appends the rendered template.                             *)
LEMMA PlanCodeownersIInv ==
    ASSUME IInv, NEW r \in Runs, PlanCodeowners(r)
    PROVE  IInv'
  <1> DEFINE h == HomeTree[homeRoot[r]]
             b == bound[r]
             proven == CodeownersRenders(h)
             appended == <<CodeownersMaterial(h, b)>>
  <1>1. PlanStep(r, "codeowners", proven, appended, "conventions")
    BY DEF PlanCodeowners
  <1>2. RunInv(r) /\ pc[r] = "codeowners"
    BY <1>1 DEF IInv, PlanStep
  <1>3. Decoded(b) /\ TypedHome(h)
    BY <1>2, HomeIsTyped DEF RunInv, Progress
  <1>4. PICK existing \in ReadContents :
           Proven3(h, b, existing) /\ materials[r] = Plan3(h, b, existing)
    BY <1>2 DEF RunInv, Planned
  <1>5. ASSUME proven
        PROVE  /\ materials[r] \o appended \in Seq(PlannedMaterial)
               /\ Planned("conventions", b, homeRoot[r], materials[r] \o appended)
    <2>1. Proven4(h, b, existing)
      BY <1>4, <1>5 DEF Proven4
    <2>2. Plan4(h, b, existing) \in Seq(PlannedMaterial)
      BY <1>3, <2>1, PlanTypes
    <2>3. QED
      BY <1>4, <2>1, <2>2 DEF Planned, Plan4
  <1> HIDE DEF h, b, proven, appended
  <1>6. QED
    BY <1>1, <1>5, PlanStepIInv DEF Planning, b

(* planConventions appends the rendered template, if the section is bound.   *)
LEMMA PlanConventionsIInv ==
    ASSUME IInv, NEW r \in Runs, PlanConventions(r)
    PROVE  IInv'
  <1> DEFINE h == HomeTree[homeRoot[r]]
             b == bound[r]
             proven == ConventionsProven(h, b)
             appended == ConventionsMaterials(h, b)
  <1>1. PlanStep(r, "conventions", proven, appended, "planned")
    BY DEF PlanConventions
  <1>2. RunInv(r) /\ pc[r] = "conventions"
    BY <1>1 DEF IInv, PlanStep
  <1>3. Decoded(b) /\ TypedHome(h)
    BY <1>2, HomeIsTyped DEF RunInv, Progress
  <1>4. PICK existing \in ReadContents :
           Proven4(h, b, existing) /\ materials[r] = Plan4(h, b, existing)
    BY <1>2 DEF RunInv, Planned
  <1>5. ASSUME proven
        PROVE  /\ materials[r] \o appended \in Seq(PlannedMaterial)
               /\ Planned("planned", b, homeRoot[r], materials[r] \o appended)
    <2>1. Proven5(h, b, existing)
      BY <1>4, <1>5 DEF Proven5
    <2>2. Plan5(h, b, existing) \in Seq(PlannedMaterial)
      BY <1>3, <2>1, PlanTypes
    <2>3. QED
      BY <1>4, <2>1, <2>2 DEF Planned, Plan5
  <1> HIDE DEF h, b, proven, appended
  <1>6. QED
    BY <1>1, <1>5, PlanStepIInv DEF Planning, b

(* A complete plan lists exactly the surfaces of the manifest.               *)
LEMMA CompletePlanPaths ==
    ASSUME IInv, NEW r \in Runs,
           pc[r] \in {"planned", "prompt", "write", "writing"}
    PROVE  /\ materials[r] \in Seq(PlannedMaterial)
           /\ Paths(materials[r]) = SurfaceOrder(bound[r])
           /\ Paths(materials[r]) \in Seq(TenantPaths)
  <1> DEFINE h == HomeTree[homeRoot[r]]
             b == bound[r]
  <1>1. RunInv(r)
    BY DEF IInv
  <1>2. Decoded(b) /\ TypedHome(h)
    BY <1>1, HomeIsTyped DEF RunInv, Progress
  <1>3. PICK existing \in ReadContents :
           Proven5(h, b, existing) /\ materials[r] = Plan5(h, b, existing)
    BY <1>1 DEF RunInv, Planned
  <1>4. /\ materials[r] \in Seq(PlannedMaterial)
        /\ Paths(materials[r]) = SurfaceOrder(b)
    BY <1>2, <1>3, PathsOfPlan
  <1>5. Len(materials[r]) \in Nat
        /\ \A i \in 1..Len(materials[r]) : materials[r][i].path \in TenantPaths
    BY <1>4, PathsAreTenantPaths
  <1>6. Paths(materials[r]) \in [1..Len(materials[r]) -> TenantPaths]
    BY <1>5 DEF Paths
  <1>7. QED
    BY <1>4, <1>5, <1>6, FunctionIsSequence

(* A plan is complete when it is written or printed (run, Apply).            *)
LEMMA PlanReturnsIInv ==
    ASSUME IInv, NEW r \in Runs, PlanReturns(r)
    PROVE  IInv'
  <1> USE DEF PlanReturns, Goto, ExitWith
  <1>1. RunInv(r) /\ pc[r] = "planned"
    BY DEF IInv
  <1>2. Paths(materials[r]) = SurfaceOrder(bound[r]) /\ Paths(materials[r]) \in Seq(TenantPaths)
    BY <1>1, CompletePlanPaths
  <1>3. TypeOK'
    <2>1. shown' \in [Runs -> Seq(TenantPaths)]
      BY <1>2 DEF IInv, TypeOK
    <2>2. /\ pc' \in [Runs -> {"idle", "mode", "planned", "prompt", "write",
                              "writing", "exit"} \cup Reading]
          /\ exit' \in [Runs -> {-1, 0, 1, 2}]
      BY DEF IInv, TypeOK
    <2>3. UNCHANGED <<tenant, flags, bound, homeRoot, applying, materials,
                      written, surroundings>>
      OBVIOUS
    <2>4. QED
      BY <2>1, <2>2, <2>3 DEF IInv, TypeOK, surroundings
  <1>4. RunInv(r)'
    <2>1. \/ applying[r] /\ pc'[r] = "write" /\ shown'[r] = shown[r]
          \/ /\ ~ applying[r] /\ ~ flags[r].dryRun /\ pc'[r] = "prompt"
             /\ shown'[r] = SurfaceOrder(bound[r])
          \/ pc'[r] = "exit"
      BY <1>2 DEF IInv, TypeOK
    <2>2. /\ flags' = flags /\ bound' = bound /\ homeRoot' = homeRoot
          /\ materials' = materials /\ written' = written /\ applying' = applying
      OBVIOUS
    <2>3. QED
      BY <1>1, <2>1, <2>2 DEF RunInv, Progress, Planned, Confirmed, Planning
  <1>5. SameElsewhere(r)
    BY DEF IInv, TypeOK, SameElsewhere
  <1>6. QED
    BY <1>3, <1>4, <1>5, OneRunMoves

(* An answered prompt plans anew for the paths that were printed.            *)
LEMMA ConfirmIInv ==
    ASSUME IInv, NEW r \in Runs, Confirm(r)
    PROVE  IInv'
  <1> USE DEF Confirm, Goto
  <1>1. RunInv(r) /\ pc[r] = "prompt"
    BY DEF IInv
  <1>2. written[r] = 0
    BY <1>1 DEF RunInv, Progress
  <1>3. TypeOK'
    <2>1. materials' \in [Runs -> Seq([path : TenantPaths, contents : Contents])]
      <3> DEFINE M == [path : TenantPaths, contents : Contents]
      <3>1. materials \in [Runs -> Seq(M)]
        BY DEF IInv, TypeOK
      <3> HIDE DEF M
      <3>2. <<>> \in Seq(M)
        BY EmptySeq
      <3>3. materials' \in [Runs -> Seq(M)]
        BY <3>1, <3>2
      <3>4. QED
        BY <3>3 DEF M
    <2>2. \A s \in Runs : written'[s] \in 0..Len(materials'[s])
      BY <1>2, <2>1 DEF IInv, TypeOK
    <2>3. QED
      BY <2>1, <2>2 DEF IInv, TypeOK, Reading, surroundings
  <1>4. RunInv(r)'
    <2>1. pc'[r] = "callers" /\ applying'[r] = TRUE /\ materials'[r] = <<>>
      BY DEF IInv, TypeOK
    <2>2. /\ flags' = flags /\ bound' = bound /\ homeRoot' = homeRoot
          /\ shown' = shown /\ written' = written
      OBVIOUS
    <2>3. QED
      BY <1>1, <2>1, <2>2 DEF RunInv, Progress, Planned, Confirmed, Planning
  <1>5. SameElsewhere(r)
    BY DEF IInv, TypeOK, SameElsewhere
  <1>6. QED
    BY <1>3, <1>4, <1>5, OneRunMoves

-------------------------------------------------------------------------------
(* The ways a run ends, and the steps that only change the tenant tree.      *)
TenantTyped ==
    /\ tenant \in [TenantPaths -> Contents \cup {Absent}]
    /\ authored \in [TenantPaths -> Contents \cup {Absent}]
    /\ faults \in 0..MaxFaults /\ edits \in 0..MaxEdits

(* A run that ends keeps what it holds.                                      *)
LEMMA ExitIInv ==
    ASSUME IInv, NEW r \in Runs, NEW code \in {-1, 0, 1, 2},
           ExitWith(r, code), UNCHANGED program, TenantTyped'
    PROVE  IInv'
  <1> USE DEF ExitWith, program
  <1>1. TypeOK'
    <2>1. /\ pc' \in [Runs -> {"idle", "mode", "planned", "prompt", "write",
                              "writing", "exit"} \cup Reading]
          /\ exit' \in [Runs -> {-1, 0, 1, 2}]
      BY DEF IInv, TypeOK
    <2>2. QED
      BY <2>1 DEF IInv, TypeOK, TenantTyped
  <1>2. RunInv(r)'
    <2>1. pc'[r] = "exit"
      BY DEF IInv, TypeOK
    <2>2. QED
      BY <2>1 DEF RunInv, Progress, Planned, Confirmed, Planning
  <1>3. SameElsewhere(r)
    BY DEF IInv, TypeOK, SameElsewhere
  <1>4. QED
    BY <1>1, <1>2, <1>3, OneRunMoves

(* A change of the tenant tree alone leaves every run as it is.              *)
LEMMA TenantIInv ==
    ASSUME IInv, UNCHANGED <<pc, program, exit>>, TenantTyped'
    PROVE  IInv'
  <1> USE DEF program
  <1>1. TypeOK'
    BY DEF IInv, TypeOK, TenantTyped
  <1>2. ASSUME NEW r \in Runs
        PROVE  RunInv(r)'
    <2>1. RunInv(r)
      BY DEF IInv
    <2>2. QED
      BY <2>1 DEF RunInv
  <1>3. QED
    BY <1>1, <1>2 DEF IInv

(* The material a run is about to write is one of its plan.                  *)
LEMMA CurrentType ==
    ASSUME IInv, NEW r \in Runs, written[r] < Len(materials[r])
    PROVE  /\ Current(r).path \in TenantPaths
           /\ Current(r).contents \in Contents
  <1> DEFINE M == [path : TenantPaths, contents : Contents]
  <1>1. materials[r] \in Seq(M) /\ written[r] \in 0..Len(materials[r])
    BY DEF IInv, TypeOK
  <1>2. written[r] + 1 \in 1..Len(materials[r])
    BY <1>1
  <1> HIDE DEF M
  <1>3. Current(r) \in M
    BY <1>1, <1>2, ElementOfSeq DEF Current
  <1>4. QED
    BY <1>3 DEF M

(* A file cut anywhere is a file.                                            *)
LEMMA PartType ==
    ASSUME NEW contents \in Contents, NEW n \in 0..Len(contents)
    PROVE  SubSeq(contents, 1, n) \in Contents
  <1>1. Len(contents) \in Nat /\ \A i \in 1..n : contents[i] \in Chunk
    BY DEF Contents
  <1>2. QED
    BY <1>1, SubSeqProperties DEF Contents

(* Writing a file leaves a tenant tree.                                      *)
LEMMA PutType ==
    ASSUME IInv, NEW path \in TenantPaths, NEW STATE contents,
           contents \in Contents \cup {Absent}, Put(path, contents)
    PROVE  tenant' \in [TenantPaths -> Contents \cup {Absent}]
  BY DEF Put, IInv, TypeOK

(* Faults stay within their bound.                                           *)
LEMMA FaultType ==
    ASSUME IInv, NEW kind, Fault(kind)
    PROVE  faults' \in 0..MaxFaults
  BY BoundsAssumption DEF Fault, IInv, TypeOK

(* What is laid over a file makes a file, or is lost with a removed one.     *)
LEMMA LandedType ==
    ASSUME NEW contents \in Contents, NEW existing \in Contents \cup {Absent}
    PROVE  Landed(contents, existing) \in Contents \cup {Absent}
  <1>1. CASE existing # Absent
    <2> DEFINE n == Len(contents)
    <2>1. contents \in Seq(Chunk) /\ existing \in Seq(Chunk) /\ n \in Nat
      BY <1>1 DEF Contents
    <2> HIDE DEF n
    <2>2. \A j \in (n + 1)..Len(existing) : existing[j] \in Chunk
      BY <2>1
    <2>3. After(existing, n) \in Seq(Chunk)
      BY <2>1, <2>2, SubSeqProperties DEF After
    <2>4. contents \o After(existing, n) \in Seq(Chunk)
      BY <2>1, <2>3, ConcatProperties
    <2>5. QED
      BY <1>1, <2>4 DEF Landed, Contents, n
  <1>2. QED
    BY <1>1 DEF Landed

(* A write, whole or partial, leaves a tenant tree.                          *)
LEMMA LandsType ==
    ASSUME IInv, NEW path \in TenantPaths, NEW contents \in Contents,
           Put(path, Landed(contents, tenant[path]))
    PROVE  tenant' \in [TenantPaths -> Contents \cup {Absent}]
  <1>1. tenant[path] \in Contents \cup {Absent}
    BY DEF IInv, TypeOK
  <1>2. Landed(contents, tenant[path]) \in Contents \cup {Absent}
    BY <1>1, LandedType
  <1>3. QED
    BY <1>2, PutType

LEMMA PutsPartType ==
    ASSUME IInv, NEW r \in Runs, pc[r] = "writing", PutsPart(r)
    PROVE  tenant' \in [TenantPaths -> Contents \cup {Absent}]
  <1> DEFINE path == Current(r).path
  <1>1. written[r] < Len(materials[r])
    BY DEF IInv, RunInv
  <1>2. path \in TenantPaths /\ Current(r).contents \in Contents
    BY <1>1, CurrentType
  <1>3. PICK n \in 0..Len(Current(r).contents) :
           Put(path, Landed(SubSeq(Current(r).contents, 1, n), tenant[path]))
    BY DEF PutsPart
  <1>4. SubSeq(Current(r).contents, 1, n) \in Contents
    BY <1>2, <1>3, PartType
  <1> HIDE DEF path
  <1>5. QED
    BY <1>2, <1>3, <1>4, LandsType

(* The write loop (Apply).                                                   *)
LEMMA OpenFileIInv ==
    ASSUME IInv, NEW r \in Runs, OpenFile(r)
    PROVE  IInv'
  <1> USE DEF OpenFile, Goto, program
  <1>1. RunInv(r) /\ pc[r] = "write" /\ written[r] < Len(materials[r])
    BY DEF IInv
  <1>2. tenant' \in [TenantPaths -> Contents \cup {Absent}]
    <2>1. <<>> \in Contents
      BY DEF Contents
    <2>2. QED
      BY <1>1, <2>1, CurrentType, PutType
  <1>3. TypeOK'
    BY <1>2 DEF IInv, TypeOK, surroundings
  <1>4. RunInv(r)'
    <2>1. pc'[r] = "writing"
      BY DEF IInv, TypeOK
    <2>2. QED
      BY <1>1, <2>1 DEF RunInv, Progress, Planned, Confirmed, Planning
  <1>5. SameElsewhere(r)
    BY DEF IInv, TypeOK, SameElsewhere
  <1>6. QED
    BY <1>3, <1>4, <1>5, OneRunMoves

(* A completed write advances the run by one material.                       *)
LEMMA WriteFileIInv ==
    ASSUME IInv, NEW r \in Runs, WriteFile(r)
    PROVE  IInv'
  <1> USE DEF WriteFile, Goto
  <1>1. RunInv(r) /\ pc[r] = "writing" /\ written[r] < Len(materials[r])
    BY DEF IInv, RunInv
  <1>2. tenant' \in [TenantPaths -> Contents \cup {Absent}]
    BY <1>1, CurrentType, LandsType
  <1>3. TypeOK'
    <2>1. \A s \in Runs : written'[s] \in 0..Len(materials'[s])
      <3>1. ASSUME NEW s \in Runs
            PROVE  written'[s] \in 0..Len(materials'[s])
        <4>1. written[s] \in 0..Len(materials[s]) /\ Len(materials[s]) \in Nat
          BY DEF IInv, TypeOK
        <4>2. materials' = materials
          OBVIOUS
        <4>3. written'[s] = IF s = r THEN written[s] + 1 ELSE written[s]
          BY DEF IInv, TypeOK
        <4>4. QED
          BY <1>1, <4>1, <4>2, <4>3
      <3>2. QED
        BY <3>1
    <2>2. written' \in [Runs -> Nat]
      BY DEF IInv, TypeOK
    <2>3. QED
      BY <1>2, <2>1, <2>2 DEF IInv, TypeOK, surroundings
  <1>4. RunInv(r)'
    <2>1. pc'[r] = "write"
      BY DEF IInv, TypeOK
    <2>2. QED
      BY <1>1, <2>1 DEF RunInv, Progress, Planned, Confirmed, Planning
  <1>5. SameElsewhere(r)
    BY DEF IInv, TypeOK, SameElsewhere
  <1>6. QED
    BY <1>3, <1>4, <1>5, OneRunMoves

(* The next invocation begins from nothing.                                  *)
LEMMA ReturnIInv ==
    ASSUME IInv, NEW r \in Runs, Return(r)
    PROVE  IInv'
  <1> USE DEF Return
  <1>1. TypeOK'
    <2>1. materials' \in [Runs -> Seq([path : TenantPaths, contents : Contents])]
      <3> DEFINE M == [path : TenantPaths, contents : Contents]
      <3>1. materials \in [Runs -> Seq(M)]
        BY DEF IInv, TypeOK
      <3> HIDE DEF M
      <3>2. <<>> \in Seq(M)
        BY EmptySeq
      <3>3. materials' \in [Runs -> Seq(M)]
        BY <3>1, <3>2
      <3>4. QED
        BY <3>3 DEF M
    <2>2. shown' \in [Runs -> Seq(TenantPaths)]
      <3>1. <<>> \in Seq(TenantPaths)
        BY EmptySeq
      <3>2. QED
        BY <3>1 DEF IInv, TypeOK
    <2>3. written' \in [Runs -> Nat]
      BY DEF IInv, TypeOK
    <2>4. \A s \in Runs : written'[s] \in 0..Len(materials'[s])
      BY <2>1 DEF IInv, TypeOK
    <2>5. /\ pc' \in [Runs -> {"idle", "mode", "planned", "prompt", "write",
                              "writing", "exit"} \cup Reading]
          /\ exit' \in [Runs -> {-1, 0, 1, 2}]
      BY DEF IInv, TypeOK
    <2>6. /\ flags' \in [Runs -> Invocations \cup {None}]
          /\ bound' \in [Runs -> Manifests \cup {None}]
          /\ homeRoot' \in [Runs -> Releases \cup {None}]
          /\ applying' \in [Runs -> BOOLEAN]
      BY DEF IInv, TypeOK
    <2>7. QED
      BY <2>1, <2>2, <2>3, <2>4, <2>5, <2>6 DEF IInv, TypeOK, surroundings
  <1>2. RunInv(r)'
    <2>1. /\ pc'[r] = "idle" /\ applying'[r] = FALSE
          /\ materials'[r] = <<>> /\ written'[r] = 0
      BY DEF IInv, TypeOK
    <2>2. QED
      BY <2>1 DEF RunInv, Progress, Planned, Confirmed, Planning
  <1>3. SameElsewhere(r)
    BY DEF IInv, TypeOK, SameElsewhere
  <1>4. QED
    BY <1>1, <1>2, <1>3, OneRunMoves

(* Declining and finishing end the run.                                      *)
LEMMA EndsIInv ==
    ASSUME IInv, NEW r \in Runs, Decline(r) \/ Finish(r)
    PROVE  IInv'
  <1>1. /\ ExitWith(r, 0) \/ ExitWith(r, 2)
        /\ UNCHANGED <<tenant, program, surroundings>>
    BY DEF Decline, Finish
  <1>2. TenantTyped'
    BY <1>1 DEF IInv, TypeOK, TenantTyped, surroundings
  <1>3. QED
    BY <1>1, <1>2, ExitIInv

(* A fault ends the run, a write cut anywhere included.                      *)
LEMMA FaultIInv ==
    ASSUME IInv, NEW r \in Runs, FaultStep(r)
    PROVE  IInv'
  <1>1. /\ \E kind \in {"read", "write", "crash"} : Fault(kind)
        /\ \E code \in {-1, 0, 1, 2} : ExitWith(r, code)
        /\ UNCHANGED <<program, authored, edits>>
        /\ tenant' = tenant \/ (pc[r] = "writing" /\ PutsPart(r))
    BY DEF FaultStep, ReadFails, OpenFails, WriteFails, Crash
  <1>2. faults' \in 0..MaxFaults
    BY <1>1, FaultType
  <1>3. tenant' \in [TenantPaths -> Contents \cup {Absent}]
    BY <1>1, PutsPartType DEF IInv, TypeOK
  <1>4. TenantTyped'
    BY <1>1, <1>2, <1>3 DEF IInv, TypeOK, TenantTyped
  <1>5. QED
    BY <1>1, <1>4, ExitIInv

-------------------------------------------------------------------------------
(* The tenant's owners.                                                      *)
LEMMA AuthorIInv ==
    ASSUME IInv, NEW path \in TenantPaths, NEW STATE contents,
           contents \in Contents \cup {Absent}, Author(path, contents)
    PROVE  IInv'
  <1>1. tenant' \in [TenantPaths -> Contents \cup {Absent}]
    BY PutType DEF Author
  <1>2. /\ authored' \in [TenantPaths -> Contents \cup {Absent}]
        /\ edits' \in 0..MaxEdits /\ faults' \in 0..MaxFaults
    BY BoundsAssumption DEF Author, IInv, TypeOK
  <1>3. UNCHANGED <<pc, program, exit>>
    BY DEF Author
  <1>4. QED
    BY <1>1, <1>2, <1>3, TenantIInv DEF TenantTyped

(* Every owner's edit is an authored file on a path of the tree.             *)
LEMMA TenantStepIInv ==
    ASSUME IInv, TenantStep
    PROVE  IInv'
  <1>1. ASSUME NEW path \in GitignorePaths, NEW block \in ProjectBlocks,
               EditProjectBlock(path, block)
        PROVE  IInv'
    <2>1. path \in TenantPaths /\ block \in Contents
      BY PathsAreTenantPaths, TreesAssumption
    <2>2. CASE tenant[path] = Absent /\ block # <<>> /\ Author(path, block)
      BY <2>1, <2>2, AuthorIInv
    <2>3. CASE /\ tenant[path] # Absent /\ HasMark(tenant[path])
               /\ Author(path, SubSeq(tenant[path], 1, FirstMark(tenant[path]))
                                  \o <<LineFeed>> \o block)
      <3> DEFINE above == SubSeq(tenant[path], 1, FirstMark(tenant[path]))
      <3>1. tenant[path] \in Contents
        BY <2>1, <2>3 DEF IInv, TypeOK
      <3>2. FirstMark(tenant[path]) \in 0..Len(tenant[path])
        BY <2>3, <3>1, FirstMarkExists DEF Contents
      <3>3. above \in Seq(Chunk)
        BY <3>1, <3>2, PartType DEF Contents
      <3>4. <<LineFeed>> \in Seq(Chunk) /\ block \in Seq(Chunk)
        BY <2>1, MarksAreChunks DEF Contents
      <3> HIDE DEF above
      <3>5. above \o <<LineFeed>> \o block \in Contents
        BY <3>3, <3>4, ConcatProperties DEF Contents
      <3>6. QED
        BY <2>1, <2>3, <3>5, AuthorIInv DEF above
    <2>4. QED
      BY <1>1, <2>2, <2>3 DEF EditProjectBlock
  <1>2. ASSUME NEW path \in GitignorePaths, RemoveUnmarked(path)
        PROVE  IInv'
    BY <1>2, AuthorIInv, PathsAreTenantPaths DEF RemoveUnmarked
  <1>3. ASSUME NEW b \in Manifests, Rebind(b)
        PROVE  IInv'
    <2>1. ManifestFile(b) \in Contents
      BY DEF ManifestFile, Contents, Chunk
    <2>2. QED
      BY <1>3, <2>1, AuthorIInv, PathsAreTenantPaths DEF Rebind
  <1>4. ASSUME NEW path \in ToolsPaths, NEW release \in Published,
               RepinTools(path, release)
        PROVE  IInv'
    <2>1. PICK repository \in Repositories :
             Author(path, <<Require(repository, release)>>)
      BY <1>4 DEF RepinTools
    <2>2. Require(repository, release) \in Chunk
      BY ReleasesAssumption DEF Require, Chunk
    <2>3. <<Require(repository, release)>> \in Contents
      BY <2>2 DEF Contents
    <2>4. QED
      BY <2>1, <2>3, AuthorIInv, PathsAreTenantPaths
  <1>5. QED
    BY <1>1, <1>2, <1>3, <1>4 DEF TenantStep

-------------------------------------------------------------------------------
(* Every step keeps the invariant.                                           *)
LEMMA NextIInv == IInv /\ [Next]_vars => IInv'
  <1> SUFFICES ASSUME IInv, [Next]_vars PROVE IInv'
    OBVIOUS
  <1>1. ASSUME NEW r \in Runs, RunStep(r)
        PROVE  IInv'
    BY <1>1, DecodeIInv, ResolveIInv, ChooseIInv, PlanCallersIInv,
       PlanFileTopicsIInv, PlanGitignoreIInv, PlanCodeownersIInv,
       PlanConventionsIInv, PlanReturnsIInv, ConfirmIInv, EndsIInv,
       OpenFileIInv, WriteFileIInv
       DEF RunStep
  <1>2. CASE UNCHANGED vars
    <2>1. TenantTyped'
      BY <1>2 DEF vars, surroundings, IInv, TypeOK, TenantTyped
    <2>2. QED
      BY <1>2, <2>1, TenantIInv DEF vars
  <1>3. QED
    BY <1>1, <1>2, StartIInv, ReturnIInv, FaultIInv, TenantStepIInv DEF Next

(* The invariant holds in every reachable state of every provisioning,       *)
(* whatever faults, crashes, other runs and owners' edits come between its   *)
(* steps.                                                                    *)
THEOREM InductiveInvariant == Spec => []IInv
  BY InitIInv, NextIInv, PTL DEF Spec

(* Every state a provisioning can reach is well typed, for every set of      *)
(* manifests, home trees, invocations and runs; faults, crashes, overlapping *)
(* runs and owners' edits at any time included (provision.go, main.go).      *)
THEOREM TypeCorrect == Spec => []TypeOK
  <1>1. IInv => TypeOK
    BY DEF IInv
  <1>2. QED
    BY <1>1, InductiveInvariant, PTL

(* No run writes unless it was told to, and a run that asked writes exactly  *)
(* the paths it printed before it was answered, although it plans a second   *)
(* time (main.go:98-129).                                                    *)
THEOREM ConfirmedWrites == Spec => []WritesAreConfirmed
  <1>1. IInv => WritesAreConfirmed
    <2> SUFFICES ASSUME IInv, NEW r \in Runs, pc[r] \in {"write", "writing"}
                 PROVE  /\ ~ flags[r].dryRun
                        /\ \/ flags[r].yes
                           \/ /\ flags[r].terminal
                              /\ shown[r] = Paths(materials[r])
      BY DEF WritesAreConfirmed
    <2>1. RunInv(r)
      BY DEF IInv
    <2>2. Paths(materials[r]) = SurfaceOrder(bound[r])
      BY CompletePlanPaths
    <2>3. QED
      BY <2>1, <2>2 DEF RunInv, Progress, Confirmed
  <1>2. QED
    BY <1>1, InductiveInvariant, PTL

-------------------------------------------------------------------------------
(* The provisioning CLI implements ProvenWrites: every change of the tenant  *)
(* tree by a run is the next write, whole or cut short, of a plan that was   *)
(* complete and proven before its first write.                               *)

(* Where the elements of a sequence are once others stand behind it.         *)
LEMMA ConcatLeft ==
    ASSUME NEW M, NEW s \in Seq(M), NEW t \in Seq(M), NEW i \in 1..Len(s)
    PROVE  (s \o t)[i] = s[i]
  <1>1. /\ Len(s) \in Nat /\ Len(t) \in Nat
        /\ \A j \in 1..(Len(s) + Len(t)) :
              (s \o t)[j] = IF j <= Len(s) THEN s[j] ELSE t[j - Len(s)]
    BY ConcatProperties
  <1>2. i \in 1..(Len(s) + Len(t)) /\ i <= Len(s)
    BY <1>1
  <1>3. QED
    BY <1>1, <1>2

(* ... and where those behind it are.                                        *)
LEMMA ConcatRight ==
    ASSUME NEW M, NEW s \in Seq(M), NEW t \in Seq(M), NEW i \in 1..Len(t)
    PROVE  (s \o t)[Len(s) + i] = t[i]
  <1>1. /\ Len(s) \in Nat /\ Len(t) \in Nat
        /\ \A j \in 1..(Len(s) + Len(t)) :
              (s \o t)[j] = IF j <= Len(s) THEN s[j] ELSE t[j - Len(s)]
    BY ConcatProperties
  <1>2. /\ Len(s) + i \in 1..(Len(s) + Len(t)) /\ ~ (Len(s) + i <= Len(s))
        /\ (Len(s) + i) - Len(s) = i
    BY <1>1
  <1>3. (s \o t)[Len(s) + i] = t[(Len(s) + i) - Len(s)]
    BY <1>1, <1>2
  <1>4. QED
    BY <1>2, <1>3

(* A concatenation is as long as its two parts.                              *)
LEMMA ConcatLength ==
    ASSUME NEW M, NEW s \in Seq(M), NEW t \in Seq(M)
    PROVE  s \o t \in Seq(M) /\ Len(s \o t) = Len(s) + Len(t)
  BY ConcatProperties

(* Where each section of a complete plan lies: the callers, the three file   *)
(* topics, the hub's two surfaces and the conventions its manifest binds.    *)
LaidOut(h, b, existing, plan) ==
    LET callers == Len(b.callers)
    IN  /\ callers \in Nat
        /\ Len(plan) = callers + 5 + (IF b.conventions = Unbound THEN 0 ELSE 1)
        /\ \A i \in 1..callers : plan[i] = CallerMaterials(h, b)[i]
        /\ \A i \in 1..3 : plan[callers + i] = FileTopicMaterials(h, b)[i]
        /\ plan[callers + 4] = GitignoreMaterial(h, b, existing)
        /\ plan[callers + 5] = CodeownersMaterial(h, b)
        /\ b.conventions # Unbound =>
              plan[callers + 6] = ConventionsMaterials(h, b)[1]

(* The contents of a complete plan, surface by surface.                      *)
LEMMA PlanContents ==
    ASSUME NEW h, TypedHome(h), NEW b, Decoded(b), NEW existing \in ReadContents,
           Proven5(h, b, existing)
    PROVE  LaidOut(h, b, existing, Plan5(h, b, existing))
  <1> DEFINE M == PlannedMaterial
             callers == Len(b.callers)
             C == CallerMaterials(h, b)
             F == FileTopicMaterials(h, b)
             G == GitignoreMaterial(h, b, existing)
             O == CodeownersMaterial(h, b)
             R == ConventionsMaterials(h, b)
  <1>1. /\ CallersProven(h, b) /\ FileTopicsProven(h, b) /\ RegionProven(h, b)
        /\ GitignoreComposes(h, b, existing) /\ CodeownersRenders(h)
        /\ ConventionsProven(h, b)
    BY DEF Proven2, Proven3, Proven4, Proven5
  <1>2. C \in Seq(M) /\ Len(C) = callers
    BY <1>1, CallerMaterialsType DEF Decoded
  <1>3. F \in Seq(M) /\ Len(F) = 3
    BY <1>1, FileTopicMaterialsType DEF Decoded
  <1>4. G \in M /\ O \in M
    BY <1>1, GitignoreMaterialType, CodeownersMaterialType DEF Decoded, ReadContents
  <1>5. R \in Seq(M) /\ Len(R) = IF b.conventions = Unbound THEN 0 ELSE 1
    BY <1>1, ConventionsMaterialsType DEF Decoded
  <1> DEFINE P2 == Plan2(h, b)
             P3 == Plan3(h, b, existing)
             P4 == Plan4(h, b, existing)
             P5 == Plan5(h, b, existing)
  <1>6. P2 = C \o F /\ P3 = P2 \o <<G>> /\ P4 = P3 \o <<O>> /\ P5 = P4 \o R
    BY DEF Plan1, Plan2, Plan3, Plan4, Plan5
  <1> HIDE DEF M, callers, C, F, G, O, R, P2, P3, P4, P5
  <1>7. callers \in Nat
    BY <1>2
  <1>8. /\ P2 \in Seq(M) /\ Len(P2) = callers + 3
        /\ \A i \in 1..callers : P2[i] = C[i]
        /\ \A i \in 1..3 : P2[callers + i] = F[i]
    <2>1. P2 \in Seq(M) /\ Len(P2) = callers + 3
      BY <1>2, <1>3, <1>6, ConcatLength
    <2>2. \A i \in 1..Len(C) : P2[i] = C[i]
      BY <1>2, <1>3, <1>6, ConcatLeft
    <2>3. ASSUME NEW i \in 1..Len(F)
          PROVE  P2[Len(C) + i] = F[i]
      <3>1. C \in Seq(M) /\ F \in Seq(M)
        BY <1>2, <1>3
      <3>2. (C \o F)[Len(C) + i] = F[i]
        BY <3>1, ConcatRight
      <3>3. QED
        BY <1>6, <3>2
    <2>4. QED
      BY <1>2, <1>3, <2>1, <2>2, <2>3
  <1>9. /\ P3 \in Seq(M) /\ Len(P3) = callers + 4
        /\ \A i \in 1..(callers + 3) : P3[i] = P2[i]
        /\ P3[callers + 4] = G
    <2> DEFINE one == <<G>>
    <2>1. one \in Seq(M) /\ Len(one) = 1 /\ one[1] = G
      BY <1>4
    <2>2. P3 = P2 \o one
      BY <1>6
    <2> HIDE DEF one
    <2>3. P3 \in Seq(M) /\ Len(P3) = Len(P2) + 1
      <3>1. P2 \in Seq(M)
        BY <1>8
      <3>2. P2 \o one \in Seq(M) /\ Len(P2 \o one) = Len(P2) + Len(one)
        BY <2>1, <3>1, ConcatLength
      <3>3. QED
        BY <2>1, <2>2, <3>2
    <2>4. \A i \in 1..Len(P2) : P3[i] = P2[i]
      BY <1>8, <2>1, <2>2, ConcatLeft
    <2>5. 1 \in 1..Len(one)
      BY <2>1
    <2>6. P3[Len(P2) + 1] = one[1]
      <3>1. P2 \in Seq(M)
        BY <1>8
      <3>2. ASSUME NEW i \in 1..Len(one)
            PROVE  (P2 \o one)[Len(P2) + i] = one[i]
        BY <2>1, <3>1, ConcatRight
      <3>3. QED
        BY <2>2, <2>5, <3>2
    <2>7. (callers + 3) + 1 = callers + 4
      BY <1>7
    <2>8. QED
      BY <1>8, <2>1, <2>3, <2>4, <2>6, <2>7
  <1>10. /\ P4 \in Seq(M) /\ Len(P4) = callers + 5
         /\ \A i \in 1..(callers + 4) : P4[i] = P3[i]
         /\ P4[callers + 5] = O
    <2> DEFINE one == <<O>>
    <2>1. one \in Seq(M) /\ Len(one) = 1 /\ one[1] = O
      BY <1>4
    <2>2. P4 = P3 \o one
      BY <1>6
    <2> HIDE DEF one
    <2>3. P4 \in Seq(M) /\ Len(P4) = Len(P3) + 1
      <3>1. P3 \in Seq(M)
        BY <1>9
      <3>2. P3 \o one \in Seq(M) /\ Len(P3 \o one) = Len(P3) + Len(one)
        BY <2>1, <3>1, ConcatLength
      <3>3. QED
        BY <2>1, <2>2, <3>2
    <2>4. \A i \in 1..Len(P3) : P4[i] = P3[i]
      BY <1>9, <2>1, <2>2, ConcatLeft
    <2>5. 1 \in 1..Len(one)
      BY <2>1
    <2>6. P4[Len(P3) + 1] = one[1]
      <3>1. P3 \in Seq(M)
        BY <1>9
      <3>2. ASSUME NEW i \in 1..Len(one)
            PROVE  (P3 \o one)[Len(P3) + i] = one[i]
        BY <2>1, <3>1, ConcatRight
      <3>3. QED
        BY <2>2, <2>5, <3>2
    <2>7. (callers + 4) + 1 = callers + 5
      BY <1>7
    <2>8. QED
      BY <1>9, <2>1, <2>3, <2>4, <2>6, <2>7
  <1>12. /\ Len(P5) = callers + 5 + Len(R)
         /\ \A i \in 1..(callers + 5) : P5[i] = P4[i]
         /\ \A i \in 1..Len(R) : P5[callers + 5 + i] = R[i]
    <2>1. Len(P5) = Len(P4) + Len(R)
      BY <1>5, <1>6, <1>10, ConcatLength
    <2>2. \A i \in 1..Len(P4) : P5[i] = P4[i]
      BY <1>5, <1>6, <1>10, ConcatLeft
    <2>3. \A i \in 1..Len(R) : P5[Len(P4) + i] = R[i]
      BY <1>5, <1>6, <1>10, ConcatRight
    <2>4. QED
      BY <1>10, <2>1, <2>2, <2>3
  <1>13. /\ \A i \in 1..callers : P5[i] = C[i]
         /\ \A i \in 1..3 : P5[callers + i] = F[i]
         /\ P5[callers + 4] = G /\ P5[callers + 5] = O
    BY <1>7, <1>8, <1>9, <1>10, <1>12
  <1>14. b.conventions # Unbound => P5[callers + 6] = R[1]
    BY <1>5, <1>7, <1>12
  <1>15. QED
    BY <1>5, <1>7, <1>12, <1>13, <1>14 DEF LaidOut, callers, C, F, G, O, R, P5

(* Whenever a plan is complete, all of it is proven: the plan a run prints,  *)
(* the one it writes, and while it writes.                                   *)
LEMMA PlanOfRunIsProven ==
    ASSUME IInv, NEW r \in Runs, pc[r] \in {"planned", "prompt", "write", "writing"}
    PROVE  /\ Decoded(bound[r]) /\ homeRoot[r] \in Releases
           /\ HomeProves(HomeTree[homeRoot[r]], bound[r])
           /\ ProvenPlan(materials[r], HomeTree[homeRoot[r]], bound[r])
  <1> DEFINE h == HomeTree[homeRoot[r]]
             b == bound[r]
             plan == materials[r]
             callers == Len(b.callers)
             contents == [i \in DOMAIN plan |-> plan[i].contents]
  <1>1. RunInv(r)
    BY DEF IInv
  <1>2. Decoded(b) /\ homeRoot[r] \in Releases /\ TypedHome(h)
    BY <1>1, HomeIsTyped DEF RunInv, Progress
  <1>3. PICK existing \in ReadContents :
           Proven5(h, b, existing) /\ plan = Plan5(h, b, existing)
    BY <1>1 DEF RunInv, Planned
  <1>4. plan \in Seq(PlannedMaterial) /\ Paths(plan) = SurfaceOrder(b)
    BY CompletePlanPaths
  <1>5. /\ CallersProven(h, b) /\ FileTopicsProven(h, b) /\ RegionProven(h, b)
        /\ GitignoreComposes(h, b, existing) /\ CodeownersRenders(h)
        /\ ConventionsProven(h, b)
    BY <1>3 DEF Proven2, Proven3, Proven4, Proven5
  <1>6. /\ callers \in Nat
        /\ Len(plan) = callers + 5 + (IF b.conventions = Unbound THEN 0 ELSE 1)
        /\ \A i \in 1..callers : plan[i] = CallerMaterials(h, b)[i]
        /\ \A i \in 1..3 : plan[callers + i] = FileTopicMaterials(h, b)[i]
        /\ plan[callers + 4] = GitignoreMaterial(h, b, existing)
        /\ plan[callers + 5] = CodeownersMaterial(h, b)
        /\ b.conventions # Unbound =>
              plan[callers + 6] = ConventionsMaterials(h, b)[1]
    <2>1. LaidOut(h, b, existing, Plan5(h, b, existing))
      <3> HIDE DEF h, b
      <3>1. QED
        BY <1>2, <1>3, PlanContents
    <2>2. LaidOut(h, b, existing, plan)
      <3> HIDE DEF plan, h, b
      <3>1. QED
        BY <2>1, <1>3
    <2> HIDE DEF plan, h, b
    <2>3. QED
      BY <2>2 DEF LaidOut
  <1>7. DOMAIN plan = 1..Len(plan)
    BY <1>4
  <1>8. /\ \A i \in 1..callers : contents[i] = plan[i].contents
        /\ \A i \in 1..3 : contents[callers + i] = plan[callers + i].contents
        /\ contents[callers + 4] = plan[callers + 4].contents
        /\ contents[callers + 5] = plan[callers + 5].contents
        /\ b.conventions # Unbound =>
              contents[callers + 6] = plan[callers + 6].contents
    <2> HIDE DEF plan, callers
    <2>1. QED
      BY <1>6, <1>7
  <1>9. \A i \in 1..callers : Sum256Hex(contents[i]) = b.callers[i].sha256
    <2>1. IsSequence(b.callers)
      BY <1>2, ManifestsAssumption DEF Decoded, TypedManifest
    <2>2. DOMAIN b.callers = 1..callers
      BY <2>1 DEF IsSequence
    <2>3. ASSUME NEW i \in 1..callers
          PROVE  Sum256Hex(contents[i]) = b.callers[i].sha256
      <3>1. Sum256Hex(h[b.callers[i].master]) = b.callers[i].sha256
        BY <1>5, <2>2 DEF CallersProven, MasterProven
      <3>2. CallerMaterials(h, b)[i].contents = h[b.callers[i].master]
        BY DEF CallerMaterials, Material
      <3>3. contents[i] = h[b.callers[i].master]
        BY <1>6, <1>8, <3>2
      <3>4. QED
        BY <3>1, <3>3
    <2>4. QED
      BY <2>3
  <1>10. ASSUME NEW i \in 1..3
         PROVE  Sum256Hex(contents[callers + i]) = b.files[FileTopics[i]].sha256
    <2>1. Len(FileTopics) = 3 /\ DOMAIN FileTopics = 1..3
      BY DEF FileTopics
    <2>2. Sum256Hex(h[TopicPath(FileTopics[i])]) = b.files[FileTopics[i]].sha256
      BY <1>5, <2>1 DEF FileTopicsProven, MasterProven
    <2>3. FileTopicMaterials(h, b)[i].contents = h[TopicPath(FileTopics[i])]
      BY <2>1 DEF FileTopicMaterials, Material
    <2>4. contents[callers + i] = h[TopicPath(FileTopics[i])]
      BY <1>6, <1>8, <2>3
    <2>5. QED
      BY <2>2, <2>4
  <1>11. IsPrefix(BoundRegion(h, b), contents[callers + 4])
    <2>1. IsPrefix(BoundRegion(h, b), GitignoreMaterial(h, b, existing).contents)
      BY <1>2, <1>5, GitignoreMaterialType DEF Decoded, ReadContents
    <2>2. QED
      BY <1>6, <1>8, <2>1
  <1>12. contents[callers + 5] = RenderedCodeowners(h, b)
    <2>1. CodeownersMaterial(h, b).contents = RenderedCodeowners(h, b)
      BY DEF CodeownersMaterial, Material
    <2>2. QED
      BY <1>6, <1>8, <2>1
  <1>13. b.conventions # Unbound =>
            /\ ConventionsRender(h, b)
            /\ contents[callers + 6] = RenderedConventions(h, b)
    BY <1>5, <1>6, <1>8
       DEF ConventionsProven, ConventionsMaterials, Material
  <1>14. ProvenPlan(plan, h, b)
    <2> HIDE DEF h, b, plan
    <2>1. QED
      BY <1>4, <1>5, <1>9, <1>10, <1>11, <1>12, <1>13 DEF ProvenPlan
  <1>15. QED
    BY <1>2, <1>5, <1>14 DEF HomeProves

LEMMA CompletePlanIsProven ==
    ASSUME IInv, NEW r \in Runs, pc[r] \in {"planned", "prompt", "write", "writing"}
    PROVE  ProvenForTenant(materials[r])
  BY PlanOfRunIsProven DEF ProvenForTenant, Decoded

-------------------------------------------------------------------------------
(* What every run has still to write, and how a step of one run changes it.  *)
Left == [r \in Runs |-> Remaining(r)]

Writes == {"write", "writing"}

OthersStay(r) ==
    \A s \in Runs \ {r} :
        pc'[s] = pc[s] /\ materials'[s] = materials[s] /\ written'[s] = written[s]

(* A step of one run changes what that run has left to write, and no more.   *)
LEMMA OnlyOwnRemains ==
    ASSUME NEW r \in Runs, OthersStay(r)
    PROVE  Left' = [Left EXCEPT ![r] = Remaining(r)']
  <1>1. ASSUME NEW s \in Runs \ {r}
        PROVE  Remaining(s)' = Remaining(s)
    BY DEF OthersStay, Remaining
  <1>2. QED
    BY <1>1 DEF Left

(* What is left before the first write, at each write and when all is done.  *)
LEMMA LeftToWrite ==
    ASSUME IInv, NEW r \in Runs
    PROVE  /\ pc[r] \notin Writes => Remaining(r) = <<>>
           /\ pc[r] = "writing" => written[r] < Len(materials[r])
           /\ pc[r] \in Writes /\ written[r] < Len(materials[r]) =>
                 /\ Remaining(r) # <<>>
                 /\ Head(Remaining(r)) = Current(r)
                 /\ Tail(Remaining(r)) =
                       SubSeq(materials[r], written[r] + 2, Len(materials[r]))
                 /\ Current(r).path \in TenantPaths
                 /\ Len(Current(r).contents) \in Nat
  <1> DEFINE M == [path : TenantPaths, contents : Contents]
             plan == materials[r]
             w == written[r]
  <1>1. plan \in Seq(M) /\ Len(plan) \in Nat /\ w \in 0..Len(plan)
    <2>1. plan \in Seq(M) /\ w \in 0..Len(plan)
      BY DEF IInv, TypeOK
    <2> HIDE DEF M
    <2>2. QED
      BY <2>1
  <1>2. pc[r] \notin Writes => Remaining(r) = <<>>
    BY DEF Remaining, Writes
  <1>3. pc[r] = "writing" => w < Len(plan)
    BY DEF IInv, RunInv
  <1>4. ASSUME pc[r] \in Writes, w < Len(plan)
        PROVE  /\ Remaining(r) # <<>>
               /\ Head(Remaining(r)) = Current(r)
               /\ Tail(Remaining(r)) = SubSeq(plan, w + 2, Len(plan))
               /\ Current(r).path \in TenantPaths
               /\ Len(Current(r).contents) \in Nat
    <2>1. Remaining(r) = SubSeq(plan, w + 1, Len(plan))
      BY <1>4 DEF Remaining, Writes
    <2>2. w + 1 \in 1..Len(plan) /\ Len(plan) \in (w + 1)..Len(plan)
          /\ (w + 1) + 1 = w + 2 /\ w + 1 \in Int /\ Len(plan) \in Int
      BY <1>1, <1>4
    <2>3. /\ Head(SubSeq(plan, w + 1, Len(plan))) = plan[w + 1]
          /\ Tail(SubSeq(plan, w + 1, Len(plan))) = SubSeq(plan, (w + 1) + 1, Len(plan))
      <3> HIDE DEF M, plan, w
      <3>1. QED
        BY <1>1, <2>2, HeadTailOfSubSeq
    <2>4. SubSeq(plan, w + 1, Len(plan)) # <<>>
      <3> DEFINE rest == SubSeq(plan, w + 1, Len(plan))
      <3> HIDE DEF M, plan, w
      <3>1. \A i \in (w + 1)..Len(plan) : plan[i] \in M
        BY <1>1
      <3>2. Len(SubSeq(plan, w + 1, Len(plan))) = Len(plan) - (w + 1) + 1
        BY <1>1, <1>4, <2>2, <3>1, SubSeqProperties
      <3>3. Len(rest) # 0
        BY <1>1, <1>4, <3>2
      <3> HIDE DEF rest
      <3>4. rest # <<>>
        BY <3>3
      <3>5. QED
        BY <3>4 DEF rest
    <2>5. /\ Current(r).path \in TenantPaths /\ Current(r).contents \in Contents
      BY <1>4, CurrentType
    <2>6. Len(Current(r).contents) \in Nat
      BY <2>5 DEF Contents
    <2>7. QED
      BY <2>1, <2>2, <2>3, <2>4, <2>5, <2>6 DEF Current
  <1>5. QED
    BY <1>2, <1>3, <1>4

-------------------------------------------------------------------------------
(* The steps of a run, as steps of the promise.                              *)
PromiseStep == [Promised!PromiseNext]_(Promised!promiseVars)

(* A step that writes nothing and leaves the write loop stops or stutters.   *)
LEMMA StaysOrStops ==
    ASSUME IInv, NEW r \in Runs, UNCHANGED tenant, OthersStay(r),
           pc'[r] \notin Writes
    PROVE  PromiseStep
  <1>1. Remaining(r)' = <<>>
    BY DEF Remaining, Writes
  <1>2. Left' = [Left EXCEPT ![r] = <<>>]
    BY <1>1, OnlyOwnRemains
  <1>3. CASE Left[r] = <<>>
    <2>1. Left' = Left
      BY <1>2, <1>3 DEF Left
    <2>2. QED
      BY <2>1 DEF PromiseStep, Promised!promiseVars, Left
  <1>4. CASE Left[r] # <<>>
    <2>1. Promised!Stop(r)
      BY <1>2, <1>4 DEF Promised!Stop, Left
    <2>2. QED
      BY <2>1 DEF PromiseStep, Promised!PromiseNext
  <1>5. QED
    BY <1>3, <1>4

(* The approval: the plan a run begins to write is complete and proven.      *)
LEMMA PlanReturnsPromised ==
    ASSUME IInv, NEW r \in Runs, PlanReturns(r)
    PROVE  PromiseStep
  <1>1. OthersStay(r) /\ UNCHANGED tenant /\ pc[r] = "planned"
    BY DEF PlanReturns, Goto, ExitWith, OthersStay, IInv, TypeOK
  <1>2. CASE ~ applying[r]
    <2>1. pc'[r] \notin Writes
      BY <1>2 DEF PlanReturns, Goto, ExitWith, Writes, IInv, TypeOK
    <2>2. QED
      BY <1>1, <2>1, StaysOrStops
  <1>3. CASE applying[r]
    <2>1. /\ pc'[r] = "write" /\ materials' = materials /\ written' = written
      BY <1>3 DEF PlanReturns, Goto, IInv, TypeOK
    <2>2. written[r] = 0 /\ materials[r] \in Seq(PlannedMaterial)
      BY <1>1, CompletePlanPaths DEF IInv, RunInv, Progress
    <2>3. Remaining(r)' = materials[r]
      <3>1. Remaining(r)' = SubSeq(materials[r], 1, Len(materials[r]))
        BY <2>1, <2>2 DEF Remaining
      <3>2. QED
        BY <2>2, <3>1, SubSeqFull
    <2>4. Remaining(r) = <<>>
      BY <1>1 DEF Remaining
    <2>5. ProvenForTenant(materials[r])
      BY <1>1, CompletePlanIsProven
    <2>6. Left' = [Left EXCEPT ![r] = materials[r]] /\ Left'[r] = materials[r]
      BY <1>1, <2>3, OnlyOwnRemains DEF Left
    <2>7. Promised!Approve(r)
      BY <1>1, <2>4, <2>5, <2>6 DEF Promised!Approve, Left
    <2>8. QED
      BY <2>7 DEF PromiseStep, Promised!PromiseNext
  <1>4. QED
    BY <1>2, <1>3

(* The truncation.                                                           *)
LEMMA OpenFilePromised ==
    ASSUME IInv, NEW r \in Runs, OpenFile(r)
    PROVE  PromiseStep
  <1>1. pc[r] \in Writes /\ written[r] < Len(materials[r])
    BY DEF OpenFile, Writes
  <1>2. /\ OthersStay(r) /\ pc'[r] = "writing"
        /\ materials' = materials /\ written' = written
    BY DEF OpenFile, Goto, program, OthersStay, IInv, TypeOK
  <1>3. Remaining(r)' = Remaining(r)
    BY <1>1, <1>2 DEF Remaining, Writes
  <1>4. Left' = Left
    BY <1>2, <1>3, OnlyOwnRemains DEF Left
  <1>5. tenant' = [tenant EXCEPT ![Current(r).path] = <<>>]
    BY DEF OpenFile, Put
  <1>6. Left[r] # <<>> /\ Head(Left[r]) = Current(r)
    BY <1>1, LeftToWrite DEF Left
  <1>7. Promised!Truncate(r)
    BY <1>4, <1>5, <1>6 DEF Promised!Truncate, Left
  <1>8. QED
    BY <1>7 DEF PromiseStep, Promised!PromiseNext

(* What lands in the file of a run's next material is laid over it.          *)
LEMMA LandsOver ==
    ASSUME IInv, NEW r \in Runs, pc[r] \in Writes, written[r] < Len(materials[r]),
           NEW contents,
           Put(Current(r).path, Landed(contents, tenant[Current(r).path]))
    PROVE  Promised!LaysOver(Current(r), contents)
  <1>1. Current(r).path \in TenantPaths
    BY LeftToWrite
  <1>2. tenant \in [TenantPaths -> Contents \cup {Absent}]
    BY DEF IInv, TypeOK
  <1>3. QED
    BY <1>1, <1>2 DEF Put, Landed, After, Promised!LaysOver

(* A completed write is the whole head of what is left.                      *)
LEMMA WriteFilePromised ==
    ASSUME IInv, NEW r \in Runs, WriteFile(r)
    PROVE  PromiseStep
  <1>1. /\ pc[r] \in Writes /\ pc[r] = "writing" /\ written[r] < Len(materials[r])
    BY LeftToWrite DEF WriteFile, Writes
  <1>2. /\ OthersStay(r) /\ pc'[r] = "write"
        /\ materials' = materials /\ written'[r] = written[r] + 1
    BY DEF WriteFile, Goto, OthersStay, IInv, TypeOK
  <1>3. Remaining(r)' = Tail(Remaining(r))
    <2>1. written[r] \in Nat
      BY DEF IInv, TypeOK
    <2>2. Remaining(r)' = SubSeq(materials[r], (written[r] + 1) + 1, Len(materials[r]))
      BY <1>2 DEF Remaining
    <2>3. (written[r] + 1) + 1 = written[r] + 2
      BY <2>1
    <2>4. QED
      BY <1>1, <2>2, <2>3, LeftToWrite
  <1>4. Left' = [Left EXCEPT ![r] = Tail(@)]
    BY <1>2, <1>3, OnlyOwnRemains DEF Left
  <1>5. Left[r] # <<>> /\ Head(Left[r]) = Current(r)
    BY <1>1, LeftToWrite DEF Left
  <1>6. Promised!LaysOver(Current(r), Current(r).contents)
    BY <1>1, LandsOver DEF WriteFile
  <1>7. Promised!Write(r)
    BY <1>4, <1>5, <1>6 DEF Promised!Write, Left
  <1>8. QED
    BY <1>7 DEF PromiseStep, Promised!PromiseNext

(* An interrupted write breaks off, and the run with it.                     *)
LEMMA PutsPartPromised ==
    ASSUME IInv, NEW r \in Runs, pc[r] = "writing", PutsPart(r), OthersStay(r),
           pc'[r] \notin Writes
    PROVE  PromiseStep
  <1>1. pc[r] \in Writes /\ written[r] < Len(materials[r])
    BY LeftToWrite DEF Writes
  <1>2. Remaining(r)' = <<>>
    BY DEF Remaining, Writes
  <1>3. Left' = [Left EXCEPT ![r] = <<>>]
    BY <1>2, OnlyOwnRemains
  <1>4. Left[r] # <<>> /\ Head(Left[r]) = Current(r)
    BY <1>1, LeftToWrite DEF Left
  <1>5. PICK n \in 0..Len(Current(r).contents) :
           Put(Current(r).path, Landed(SubSeq(Current(r).contents, 1, n),
                                       tenant[Current(r).path]))
    BY DEF PutsPart
  <1>6. Promised!LaysOver(Current(r), SubSeq(Current(r).contents, 1, n))
    BY <1>1, <1>5, LandsOver
  <1>7. Promised!BreakOff(r)
    BY <1>3, <1>4, <1>5, <1>6 DEF Promised!BreakOff, Left
  <1>8. QED
    BY <1>7 DEF PromiseStep, Promised!PromiseNext

(* A failing read, open or write and a crash: the run stops, its last write  *)
(* possibly cut.                                                             *)
LEMMA FaultPromised ==
    ASSUME IInv, NEW r \in Runs, FaultStep(r)
    PROVE  PromiseStep
  <1>1. /\ \E code \in {-1, 0, 1, 2} : ExitWith(r, code)
        /\ UNCHANGED program
        /\ tenant' = tenant \/ (pc[r] = "writing" /\ PutsPart(r))
    BY DEF FaultStep, ReadFails, OpenFails, WriteFails, Crash
  <1>2. OthersStay(r) /\ pc'[r] \notin Writes
    BY <1>1 DEF ExitWith, program, OthersStay, Writes, IInv, TypeOK
  <1>3. QED
    BY <1>1, <1>2, StaysOrStops, PutsPartPromised

(* The owners' edits touch the paths the promise leaves to them.             *)
LEMMA AuthorPromised ==
    ASSUME IInv, NEW path \in {BindingsFileName} \cup GitignorePaths \cup ToolsPaths,
           NEW STATE contents, Author(path, contents)
    PROVE  PromiseStep
  <1>1. path \in TenantPaths
    BY PathsAreTenantPaths
  <1>2. tenant' = [tenant EXCEPT ![path] = contents]
    BY DEF Author, Put
  <1>3. tenant' = [tenant EXCEPT ![path] = tenant'[path]]
    BY <1>1, <1>2 DEF IInv, TypeOK
  <1>4. Left' = Left
    BY DEF Author, program, Left, Remaining
  <1>5. Promised!TenantEdit(path)
    BY <1>3, <1>4 DEF Promised!TenantEdit, Left
  <1>6. QED
    BY <1>5 DEF PromiseStep, Promised!PromiseNext

(* Every owner's edit is one the promise leaves to the tenant.               *)
LEMMA TenantStepPromised ==
    ASSUME IInv, TenantStep
    PROVE  PromiseStep
  <1>1. ASSUME NEW path \in GitignorePaths, NEW block \in ProjectBlocks,
               EditProjectBlock(path, block)
        PROVE  PromiseStep
    BY <1>1, AuthorPromised DEF EditProjectBlock
  <1>2. ASSUME NEW path \in GitignorePaths, RemoveUnmarked(path)
        PROVE  PromiseStep
    BY <1>2, AuthorPromised DEF RemoveUnmarked
  <1>3. ASSUME NEW b \in Manifests, Rebind(b)
        PROVE  PromiseStep
    BY <1>3, AuthorPromised DEF Rebind
  <1>4. ASSUME NEW path \in ToolsPaths, NEW release \in Published,
               RepinTools(path, release)
        PROVE  PromiseStep
    BY <1>4, AuthorPromised DEF RepinTools
  <1>5. QED
    BY <1>1, <1>2, <1>3, <1>4 DEF TenantStep

-------------------------------------------------------------------------------
(* The steps of a run that neither begin nor continue a write.               *)
LEMMA ReadsArePromised ==
    ASSUME IInv, NEW r \in Runs,
           \/ Start(r) \/ Return(r)
           \/ DecodeTenantBindings(r) \/ ResolveHomeRoot(r) \/ ChooseMode(r)
           \/ PlanCallers(r) \/ PlanFileTopics(r) \/ PlanGitignore(r)
           \/ PlanCodeowners(r) \/ PlanConventions(r)
           \/ Confirm(r) \/ Decline(r) \/ Finish(r)
    PROVE  PromiseStep
  <1> USE DEF OthersStay, Writes, Goto, ExitWith, IInv, TypeOK
  <1>1. CASE Start(r)
    <2>1. OthersStay(r) /\ UNCHANGED tenant /\ pc'[r] \notin Writes
      BY <1>1 DEF Start
    <2>2. QED
      BY <2>1, StaysOrStops
  <1>2. CASE Return(r)
    <2>1. OthersStay(r) /\ UNCHANGED tenant /\ pc'[r] \notin Writes
      BY <1>2 DEF Return
    <2>2. QED
      BY <2>1, StaysOrStops
  <1>3. CASE DecodeTenantBindings(r)
    <2>1. OthersStay(r) /\ UNCHANGED tenant /\ pc'[r] \notin Writes
      BY <1>3 DEF DecodeTenantBindings
    <2>2. QED
      BY <2>1, StaysOrStops
  <1>4. CASE ResolveHomeRoot(r)
    <2>1. OthersStay(r) /\ UNCHANGED tenant /\ pc'[r] \notin Writes
      BY <1>4 DEF ResolveHomeRoot
    <2>2. QED
      BY <2>1, StaysOrStops
  <1>5. CASE ChooseMode(r)
    <2>1. OthersStay(r) /\ UNCHANGED tenant /\ pc'[r] \notin Writes
      BY <1>5 DEF ChooseMode
    <2>2. QED
      BY <2>1, StaysOrStops
  <1>6. ASSUME NEW STATE proven, NEW STATE appended,
               NEW here, NEW there \in {"topics", "gitignore", "codeowners",
                                       "conventions", "planned"},
               PlanStep(r, here, proven, appended, there)
        PROVE  PromiseStep
    <2>1. OthersStay(r) /\ UNCHANGED tenant /\ pc'[r] \notin Writes
      BY <1>6 DEF PlanStep
    <2>2. QED
      BY <2>1, StaysOrStops
  <1>7. CASE \/ PlanCallers(r) \/ PlanFileTopics(r) \/ PlanGitignore(r)
             \/ PlanCodeowners(r) \/ PlanConventions(r)
    BY <1>6, <1>7 DEF PlanCallers, PlanFileTopics, PlanGitignore,
                      PlanCodeowners, PlanConventions
  <1>8. CASE Confirm(r)
    <2>1. OthersStay(r) /\ UNCHANGED tenant /\ pc'[r] \notin Writes
      BY <1>8 DEF Confirm
    <2>2. QED
      BY <2>1, StaysOrStops
  <1>9. CASE Decline(r) \/ Finish(r)
    <2>1. OthersStay(r) /\ UNCHANGED tenant /\ pc'[r] \notin Writes
      BY <1>9 DEF Decline, Finish, program
    <2>2. QED
      BY <2>1, StaysOrStops
  <1>10. QED
    BY <1>1, <1>2, <1>3, <1>4, <1>5, <1>7, <1>8, <1>9

(* Nothing is approved initially.                                            *)
LEMMA InitPromised == Init => Promised!Promised
  <1> SUFFICES ASSUME Init
               PROVE  [r \in Runs |-> Remaining(r)] = [r \in Runs |-> <<>>]
    BY DEF Promised!Promised
  <1>1. ASSUME NEW r \in Runs
        PROVE  Remaining(r) = <<>>
    BY DEF Init, Remaining
  <1>2. QED
    BY <1>1

(* Every step of the provisioning is a step of the promise or a stutter.     *)
LEMMA NextPromised == IInv /\ [Next]_vars => PromiseStep
  <1> SUFFICES ASSUME IInv, [Next]_vars PROVE PromiseStep
    OBVIOUS
  <1>1. ASSUME NEW r \in Runs, RunStep(r)
        PROVE  PromiseStep
    BY <1>1, ReadsArePromised, PlanReturnsPromised, OpenFilePromised,
       WriteFilePromised DEF RunStep
  <1>2. CASE UNCHANGED vars
    <2>1. Left' = Left /\ tenant' = tenant
      BY <1>2 DEF vars, program, Left, Remaining
    <2>2. QED
      BY <2>1 DEF PromiseStep, Promised!promiseVars, Left
  <1>3. QED
    BY <1>1, <1>2, ReadsArePromised, FaultPromised, TenantStepPromised DEF Next

(* Every proof of every surface comes before the first write: the tenant     *)
(* tree changes only by the owners' edits and by the materials of plans that *)
(* were complete and proven against a home tree and a valid manifest, each   *)
(* run writing its own in order, the last one possibly cut (Apply).          *)
THEOREM ProvisionerKeepsThePromise == Spec => ProofsBeforeWrites
  <1>1. IInv /\ [Next]_vars => [Promised!PromiseNext]_(Promised!promiseVars)
    BY NextPromised DEF PromiseStep
  <1>2. QED
    BY InitPromised, <1>1, InductiveInvariant, PTL
       DEF Spec, ProofsBeforeWrites, Promised!Promise

===============================================================================
