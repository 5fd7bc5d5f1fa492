------------------------------ MODULE RenderCore ------------------------------
(***************************************************************************)
(* The render core both exposures share: what each canonical surface of a  *)
(* tenant is, given the binding manifest and the pinned home tree, and the *)
(* proofs of each exposure about it.  The provisioner's proofs (provision. *)
(* go) decide whether a surface may be written, the verifier's proofs      *)
(* (callers.go, files.go, conventions.go) whether a tenant file carries    *)
(* it.  Both are operators over a home tree h, a function from home paths  *)
(* to contents, and a manifest b; the state machines apply them.           *)
(***************************************************************************)
EXTENDS Bindings

CONSTANTS
    Releases,           \* the home trees there are
    Manifests,          \* the binding manifests a tenant may carry
    Texts,              \* the texts and token names files are made of
    CallerHashRecords   \* the caller-hash records a home may publish

CodeownersTemplatePath  == <<"template", "CODEOWNERS">>
ConventionsTemplatePath == <<"template", "conventions">>
CallerHashesPath        == <<"record", "caller-hashes">>

TopicPath(topic) == <<"file", topic>>

Token(name) == [kind |-> "token", name |-> name]

Material(path, contents) == [path |-> path, contents |-> contents]

(* The tooling module is a sequence of lines; a require line pins a module.  *)
Require(repository, release) ==
    [kind |-> "require", repository |-> repository, release |-> release]

(* The release the tooling module pins for a module, if it is there and      *)
(* requires it: the stand ResolveModuleDir downloads and finds.              *)
PinnedReleases(tooling, repository) ==
    IF tooling = Absent THEN {}
    ELSE {tooling[i].release :
            i \in {j \in DOMAIN tooling : /\ tooling[j].kind = "require"
                                          /\ tooling[j].repository = repository}}

-------------------------------------------------------------------------------
(* The quality-gates classes with a canonical platform sentence.             *)
ConventionsClasses == {"full", "linux-only"}

(* What a file can hold. A home fragment is made of lines only.              *)
FragmentNames == AreaFragments \cup {CoreFragment}

Line == {Mark, LineFeed, [kind |-> "comment"]}
            \cup [kind : {"pattern"}, pattern : DOMAIN Matches]

Chunk ==
    Line
    \cup [kind : {"header"}, fragments : Seq(FragmentNames), pin : Pins]
    \cup [kind : {"block"}, fragment : FragmentNames, lines : Seq(Line)]
    \cup [kind : {"text"}, text : Texts]
    \cup [kind : {"token"}, name : Texts]
    \cup [kind : {"platforms"}, class : ConventionsClasses]
    \cup [kind : {"uses"}, repository : Repositories, pin : Pins]
    \cup [kind : {"require"}, repository : Repositories, release : Releases]
    \cup [kind : {"callerHashes"}, callers : CallerHashRecords]
    \cup [kind : {"manifest"}, bindings : Manifests]

Contents == Seq(Chunk)

(* The paths the exposures read in a home tree.                              *)
HomePaths ==
    MasterPaths
    \cup {FragmentPath(fragment) : fragment \in FragmentNames}
    \cup {TopicPath(FileTopics[i]) : i \in 1..3}
    \cup {CodeownersTemplatePath, ConventionsTemplatePath, CallerHashesPath}

TypedHome(h) ==
    /\ \A path \in HomePaths : h[path] \in Contents \cup {Absent}
    /\ \A fragment \in FragmentNames :
          h[FragmentPath(fragment)] \in Seq(Line) \cup {Absent}

(* What decoding makes of the manifest's lists and render values, before     *)
(* they are validated.                                                       *)
TypedManifest(b) ==
    /\ IsSequence(b.callers) /\ IsSequence(b.files["gitignore"].fragments)
    /\ b.codeowners.defaultOwner \in Chunk \cup {Empty}
    /\ \/ b.conventions = Unbound
       \/ {b.conventions.organization, b.conventions.repository,
           b.conventions.rationale} \subseteq Chunk \cup {Empty}

ASSUME ManifestsAssumption == \A b \in Manifests : TypedManifest(b)
ASSUME AbsentAssumption == Absent \notin Contents
ASSUME ClassesAssumption == ConventionsClasses \subseteq Texts

-------------------------------------------------------------------------------
(* Rendering.                                                                *)

RenderedCodeowners(h, b) ==
    [i \in 1..Len(h[CodeownersTemplatePath]) |->
        IF h[CodeownersTemplatePath][i] = Token("defaultOwner")
        THEN b.codeowners.defaultOwner
        ELSE h[CodeownersTemplatePath][i]]

CodeownersRenders(h) ==
    /\ h[CodeownersTemplatePath] # Absent
    /\ Contains(h[CodeownersTemplatePath], Token("defaultOwner"))

Text(string) == [kind |-> "text", text |-> string]
PlatformSentence(class) == [kind |-> "platforms", class |-> class]

(* What the first n of the five replacements of renderConventionsReadme make *)
(* of a chunk, in their order. A value may itself be a token, which a later  *)
(* replacement then finds.                                                   *)
Replaced(chunk, b, n) ==
    LET After1 == IF n >= 1 /\ chunk = Token("organization")
                  THEN b.conventions.organization ELSE chunk
        After2 == IF n >= 2 /\ After1 = Token("repository")
                  THEN b.conventions.repository ELSE After1
        After3 == IF n >= 3 /\ After2 = Token("class")
                  THEN Text(b.class.qualityGates) ELSE After2
        After4 == IF n >= 4 /\ After3 = Token("platforms")
                  THEN PlatformSentence(b.class.qualityGates) ELSE After3
    IN  IF n >= 5 /\ After4 = Token("rationale")
        THEN b.conventions.rationale ELSE After4

ConventionsStep(h, b, n) ==
    [i \in 1..Len(h[ConventionsTemplatePath]) |->
        Replaced(h[ConventionsTemplatePath][i], b, n)]

RenderedConventions(h, b) == ConventionsStep(h, b, 5)

(* Each token is looked up in what the replacements before it produced.      *)
ConventionsRender(h, b) ==
    /\ h[ConventionsTemplatePath] # Absent
    /\ b.class.qualityGates \in ConventionsClasses
    /\ Contains(ConventionsStep(h, b, 0), Token("organization"))
    /\ Contains(ConventionsStep(h, b, 1), Token("repository"))
    /\ Contains(ConventionsStep(h, b, 2), Token("class"))
    /\ Contains(ConventionsStep(h, b, 3), Token("platforms"))
    /\ Contains(ConventionsStep(h, b, 4), Token("rationale"))

BoundRegion(h, b) ==
    GovernedRegion(h, b.files["gitignore"].fragments, b.home.sha)

(* The gitignore proof both exposures begin with.                            *)
RegionProven(h, b) ==
    /\ RegionRenders(h, b.files["gitignore"].fragments, b.home.sha)
    /\ Sum256Hex(BoundRegion(h, b)) = b.files["gitignore"].sha256

(* The first proof of the other hash-bound surfaces, likewise.               *)
MasterProven(h, path, sha256) ==
    h[path] # Absent /\ Sum256Hex(h[path]) = sha256

-------------------------------------------------------------------------------
(* The provisioner's plan, surface by surface: the condition under which the *)
(* step returns materials, and the materials it appends.                     *)

CallersProven(h, b) ==
    \A i \in DOMAIN b.callers :
        MasterProven(h, b.callers[i].master, b.callers[i].sha256)

CallerMaterials(h, b) ==
    [i \in 1..Len(b.callers) |->
        Material(b.callers[i].file, h[b.callers[i].master])]

(* Mutation: the digest comparison is missing. *)
FileTopicsReadable(h, b) ==
    \A i \in DOMAIN FileTopics : h[TopicPath(FileTopics[i])] # Absent

FileTopicsProven(h, b) ==
    \A i \in DOMAIN FileTopics :
        MasterProven(h, TopicPath(FileTopics[i]), b.files[FileTopics[i]].sha256)

FileTopicMaterials(h, b) ==
    [i \in 1..Len(FileTopics) |->
        Material(b.files[FileTopics[i]].path, h[TopicPath(FileTopics[i])])]

(* existing is what the tenant's gitignore path holds when it is read.       *)
GitignoreComposes(h, b, existing) ==
    existing = Absent \/ Preservable(existing, BoundRegion(h, b))

GitignoreMaterial(h, b, existing) ==
    Material(b.files["gitignore"].path,
             IF existing = Absent THEN BoundRegion(h, b)
             ELSE Preserved(existing, BoundRegion(h, b)))

(* Mutation: the path of the wrong section. *)
CodeownersMaterialAtConfig(h, b) ==
    Material(b.quality.config, RenderedCodeowners(h, b))

CodeownersMaterial(h, b) ==
    Material(b.codeowners.path, RenderedCodeowners(h, b))

ConventionsProven(h, b) ==
    b.conventions = Unbound \/ ConventionsRender(h, b)

ConventionsMaterials(h, b) ==
    IF b.conventions = Unbound THEN <<>>
    ELSE <<Material(b.conventions.path, RenderedConventions(h, b))>>

-------------------------------------------------------------------------------
(* The verifier's proofs of the same surfaces, over a tenant tree t.  Each   *)
(* is true when the verifier reports no finding for the surface.             *)

(* The first "uses" line of a caller decides; it names the home and its pin. *)
CallerPinned(contents, home) ==
    LET uses == SelectSeq(contents, LAMBDA chunk : chunk.kind = "uses")
    IN  /\ uses # <<>>
        /\ uses[1].repository = home.repository
        /\ uses[1].pin = home.sha

(* The published record: master path |-> digest.  Absent, or a file that is  *)
(* not a record, is a read finding.                                          *)
PublishedCallerHashes(h) ==
    IF /\ h[CallerHashesPath] # Absent
       /\ Len(h[CallerHashesPath]) = 1
       /\ h[CallerHashesPath][1].kind = "callerHashes"
    THEN h[CallerHashesPath][1].callers
    ELSE [master \in {} |-> Empty]

CallerConforms(t, h, b, caller) ==
    /\ t[caller.file] # Absent
    /\ Sum256Hex(t[caller.file]) = caller.sha256
    /\ MasterProven(h, caller.master, caller.sha256)
    /\ caller.master \in DOMAIN PublishedCallerHashes(h)
    /\ PublishedCallerHashes(h)[caller.master] = caller.sha256
    /\ CallerPinned(t[caller.file], b.home)

CallersConform(t, h, b) ==
    \A i \in DOMAIN b.callers : CallerConforms(t, h, b, b.callers[i])

FileTopicConforms(t, h, b, topic) ==
    /\ MasterProven(h, TopicPath(topic), b.files[topic].sha256)
    /\ t[b.files[topic].path] # Absent
    /\ Sum256Hex(t[b.files[topic].path]) = b.files[topic].sha256

GitignoreConforms(t, h, b) ==
    LET tenant == t[b.files["gitignore"].path]
    IN  /\ RegionProven(h, b)
        /\ tenant # Absent
        /\ IsPrefix(BoundRegion(h, b), tenant)
        /\ b.class.licenseHub => LicenseViolations(tenant) = {}

CodeownersConforms(t, h, b) ==
    /\ CodeownersRenders(h)
    /\ t[b.codeowners.path] = RenderedCodeowners(h, b)

ConventionsConform(t, h, b) ==
    \/ b.conventions = Unbound
    \/ /\ ConventionsRender(h, b)
       /\ t[b.conventions.path] = RenderedConventions(h, b)

(* Every proof of the surfaces the provisioner writes.                       *)
SurfacesConform(t, h, b) ==
    /\ CallersConform(t, h, b)
    /\ \A i \in DOMAIN FileTopics : FileTopicConforms(t, h, b, FileTopics[i])
    /\ GitignoreConforms(t, h, b)
    /\ CodeownersConforms(t, h, b)
    /\ ConventionsConform(t, h, b)
===============================================================================
