------------------------------- MODULE Bindings -------------------------------
(***************************************************************************)
(* The tenant's binding manifest, repo-bindings.json, and its validation   *)
(* (internal/canonical/bindings.go).  A manifest is the record             *)
(*                                                                         *)
(*   schemaVersion, home [repository, sha],                                *)
(*   class [qualityGates, licenseHub],                                     *)
(*   callers <<[file, master, sha256], ...>>,                              *)
(*   files [lefthook, gitattributes, dependabot: [path, sha256],           *)
(*          gitignore: [path, fragments, sha256]],                         *)
(*   codeowners [path, defaultOwner],                                      *)
(*   conventions: Unbound or [path, organization, repository, rationale],  *)
(*   quality [config, schemaVersion], tools [module, catalogVersion]       *)
(*                                                                         *)
(* The grammars of single strings (paths, pins, coordinates) are the sets  *)
(* below: a string is what it is tested for.  A render value is a chunk,   *)
(* and the empty string is Empty.                                          *)
(***************************************************************************)
EXTENDS GovernedRegion

CONSTANTS
    ManifestPaths,   \* the strings validateManifestPath accepts
    WorkflowPaths,   \* the strings callerFilePattern accepts
    MasterPaths,     \* the strings masterPattern accepts
    Pins,            \* full-length lowercase commit SHAs
    Repositories,    \* owner/repository coordinates
    Unbound,         \* the conventions binding of a manifest without one
    Empty            \* the empty string as a render value

BindingsFileName == "repo-bindings.json"

BindingsSchemaVersion == 2
QualitySchemaVersion == 4
MaxCallerCount == 16

(* The three byte-identical file topics, in the order both exposures walk    *)
(* them.                                                                     *)
FileTopics == <<"lefthook", "gitattributes", "dependabot">>

IsSequence(s) == Len(s) \in Nat /\ s = [i \in 1..Len(s) |-> s[i]]

-------------------------------------------------------------------------------
(* A digest names exactly the contents it was taken from; the digest of two  *)
(* different contents is never the same value.                               *)
Sum256Hex(contents) == [sha256 |-> contents]

(* A well-formed digest: anything but a value no contents hash to.           *)
IsHash(hash) == hash # Empty

(* Mutation: the bound itself is rejected. *)
ValidCallersBelowBound(callers) ==
    /\ Len(callers) \in 1..(MaxCallerCount - 1)
    /\ \A i \in DOMAIN callers :
          /\ callers[i].file \in WorkflowPaths
          /\ callers[i].master \in MasterPaths
          /\ IsHash(callers[i].sha256)
    /\ \A i, j \in DOMAIN callers :
          \/ i = j
          \/ /\ callers[i].file # callers[j].file
             /\ callers[i].master # callers[j].master

ValidCallers(callers) ==
    /\ Len(callers) \in 1..MaxCallerCount
    /\ \A i \in DOMAIN callers :
          /\ callers[i].file \in WorkflowPaths
          /\ callers[i].master \in MasterPaths
          /\ IsHash(callers[i].sha256)
    /\ \A i, j \in DOMAIN callers :
          \/ i = j
          \/ /\ callers[i].file # callers[j].file
             /\ callers[i].master # callers[j].master

ValidFiles(files) ==
    /\ \A i \in DOMAIN FileTopics :
          /\ files[FileTopics[i]].path \in ManifestPaths
          /\ IsHash(files[FileTopics[i]].sha256)
    /\ files["gitignore"].path \in ManifestPaths
    /\ ValidFragments(files["gitignore"].fragments)
    /\ IsHash(files["gitignore"].sha256)

(* Mutation: a section without a path counts as no section. *)
ValidConventionsWherePathed(conventions) ==
    \/ conventions = Unbound
    \/ conventions.path \notin ManifestPaths
    \/ Empty \notin {conventions.organization, conventions.repository,
                      conventions.rationale}

ValidConventions(conventions) ==
    \/ conventions = Unbound
    \/ /\ conventions.path \in ManifestPaths
       /\ Empty \notin {conventions.organization, conventions.repository,
                        conventions.rationale}

(* validateDocument, without the order in which it reports: every violation  *)
(* ends the decoding with an error and no bindings.                          *)
ValidBindings(b) ==
    /\ b.schemaVersion = BindingsSchemaVersion
    /\ b.home.repository \in Repositories /\ b.home.sha \in Pins
    /\ b.class.qualityGates \in {"full", "linux-only", "pending"}
    /\ ValidFiles(b.files)
    /\ b.codeowners.path \in ManifestPaths /\ b.codeowners.defaultOwner # Empty
    /\ ValidConventions(b.conventions)
    /\ b.quality.config \in ManifestPaths
    /\ b.quality.schemaVersion = QualitySchemaVersion
    /\ b.tools.module \in ManifestPaths /\ b.tools.catalogVersion = 1
    /\ ValidCallers(b.callers)

(* A manifest file holds one document; anything else does not decode.        *)
ManifestFile(b) == <<[kind |-> "manifest", bindings |-> b]>>

Decodes(contents) ==
    /\ contents # Absent
    /\ Len(contents) = 1
    /\ contents[1].kind = "manifest"
    /\ ValidBindings(contents[1].bindings)

-------------------------------------------------------------------------------
(* The tenant-authored files a manifest names.                               *)
TenantDataPaths(b) == {BindingsFileName, b.quality.config, b.tools.module}

(* The surfaces of a manifest in the order both exposures walk them.         *)
CallerPaths(b) == [i \in 1..Len(b.callers) |-> b.callers[i].file]

TopicPaths(b) == [i \in 1..Len(FileTopics) |-> b.files[FileTopics[i]].path]

ConventionsPaths(b) ==
    IF b.conventions = Unbound THEN <<>> ELSE <<b.conventions.path>>

SurfaceOrder(b) ==
    CallerPaths(b) \o TopicPaths(b) \o <<b.files["gitignore"].path>>
        \o <<b.codeowners.path>> \o ConventionsPaths(b)
===============================================================================
