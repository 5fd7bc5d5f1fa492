----------------------------- MODULE MCRenderCore -----------------------------
(***************************************************************************)
(* Instances of the render core: two home releases and trees that diverge  *)
(* from them, the manifests bound to either, and the tenant tree a binding *)
(* begins with.                                                            *)
(***************************************************************************)
EXTENDS RenderCore

Home == "home"
Sha1 == "sha1"
Sha2 == "sha2"

Pattern(p) == [kind |-> "pattern", pattern |-> p]
Comment    == [kind |-> "comment"]
Uses(sha)  == [kind |-> "uses", repository |-> Home, pin |-> sha]

MCAreaFragments  == {"go/core"}
MCSecretFamilies == {"secret"}
MCNegations      == {"!LICENSE"}
MCProbes         == {"LICENSE", "LICENSES/"}
MCMatches == [p \in {"secret", "build", "log", "local", "LICENSE*", "!LICENSE"} |->
                 IF p = "LICENSE*" THEN MCProbes
                 ELSE IF p = "!LICENSE" THEN {"LICENSE"} ELSE {}]

MCMasterPaths   == {<<"caller", "ci">>, <<"caller", "codeql">>}
MCWorkflowPaths == {"ci.yml", "codeql.yml"}
MCManifestPaths == {"lefthook.yml", ".gitattributes", "dependabot.yml",
                    ".gitignore", "CODEOWNERS", "README.md", "quality.json",
                    "tools/go.mod", "repo-bindings.json"}
MCTenantPaths == MCManifestPaths \cup MCWorkflowPaths
MCTexts == {"v1", "v2", "prose", "acme", "tenant", "why", "@owner",
            "linux-only", "full", "schema 4",
            "defaultOwner", "organization", "repository", "class", "platforms",
            "rationale"}

-------------------------------------------------------------------------------
(* Home trees.                                                               *)
Caller(sha) == <<Text("prose"), Uses(sha)>>

ConventionsTemplate ==
    <<Token("organization"), Token("repository"), Token("class"),
      Token("platforms"), Token("rationale")>>

Record(callers) == <<[kind |-> "callerHashes", callers |-> callers]>>

Tree(sha, core, go, lefthook) ==
    LET caller == Caller(sha)
    IN  (<<"caller", "ci">> :> caller)
        @@ (<<"caller", "codeql">> :> Absent)
        @@ (CallerHashesPath :> Record(<<"caller", "ci">> :> Sum256Hex(caller)))
        @@ (TopicPath("lefthook") :> <<Text(lefthook)>>)
        @@ (TopicPath("gitattributes") :> <<Text("v1")>>)
        @@ (TopicPath("dependabot") :> <<Text("v1")>>)
        @@ (FragmentPath("core") :> core)
        @@ (FragmentPath("go/core") :> go)
        @@ (CodeownersTemplatePath :> <<Comment, Token("defaultOwner")>>)
        @@ (ConventionsTemplatePath :> ConventionsTemplate)

Core == <<Comment, Pattern("secret")>>

Release1 == Tree(Sha1, Core, <<Pattern("build")>>, "v1")
Release2 == Tree(Sha2, Core, <<Pattern("build"), Pattern("log")>>, "v2")

MCHomeTree ==
    [release1 |-> Release1,
     release2 |-> Release2,
     \* trees handed over with --home that fail one proof of the plan each
     otherTopic |-> Tree(Sha1, Core, <<Pattern("build")>>, "v2"),
     restated |-> Tree(Sha1, Core, <<Pattern("secret")>>, "v1"),
     noOwnerToken |-> (CodeownersTemplatePath :> <<Comment>>) @@ Release1,
     noRationale |-> (ConventionsTemplatePath :>
                         SubSeq(ConventionsTemplate, 1, 4)) @@ Release1,
     unpublished |-> (CallerHashesPath :> Absent) @@ Release1]

AllReleases == DOMAIN MCHomeTree
ConsistentReleases == AllReleases \ {"unpublished"}
TwoReleases == {"release1", "release2"}

MCCallerHashRecords ==
    {<<"caller", "ci">> :> Sum256Hex(Caller(sha)) : sha \in {Sha1, Sha2}}

-------------------------------------------------------------------------------
(* Manifests.                                                                *)
Bound(h, sha, class, licenseHub, conventions) ==
    [schemaVersion |-> 2,
     home |-> [repository |-> Home, sha |-> sha],
     class |-> [qualityGates |-> class, licenseHub |-> licenseHub],
     callers |-> <<[file |-> "ci.yml", master |-> <<"caller", "ci">>,
                    sha256 |-> Sum256Hex(h[<<"caller", "ci">>])]>>,
     files |->
        [lefthook |-> [path |-> "lefthook.yml",
                       sha256 |-> Sum256Hex(h[TopicPath("lefthook")])],
         gitattributes |-> [path |-> ".gitattributes",
                            sha256 |-> Sum256Hex(h[TopicPath("gitattributes")])],
         dependabot |-> [path |-> "dependabot.yml",
                         sha256 |-> Sum256Hex(h[TopicPath("dependabot")])],
         gitignore |-> [path |-> ".gitignore",
                        fragments |-> <<"core", "go/core">>,
                        sha256 |-> Sum256Hex(GovernedRegion(
                                       h, <<"core", "go/core">>, sha))]],
     codeowners |-> [path |-> "CODEOWNERS", defaultOwner |-> Text("@owner")],
     conventions |-> conventions,
     quality |-> [config |-> "quality.json", schemaVersion |-> 4],
     tools |-> [module |-> "tools/go.mod", catalogVersion |-> 1]]

Conventions ==
    [path |-> "README.md", organization |-> Text("acme"),
     repository |-> Text("tenant"), rationale |-> Text("why")]

Manifest1 == Bound(Release1, Sha1, "linux-only", FALSE, Conventions)
Manifest2 == Bound(Release2, Sha2, "full", TRUE, Unbound)

(* It names one caller file twice.                                           *)
InvalidManifest ==
    [Manifest1 EXCEPT !.callers = @ \o [@ EXCEPT ![1].master = <<"caller", "codeql">>]]

(* The class has no canonical render.                                        *)
PendingManifest == [Manifest1 EXCEPT !.class.qualityGates = "pending"]

LicenseHubManifest == Bound(Release1, Sha1, "linux-only", TRUE, Unbound)

-------------------------------------------------------------------------------
(* Tenant trees.                                                             *)
Fresh(b, release) ==
    [path \in MCTenantPaths |->
        CASE path = "repo-bindings.json" -> ManifestFile(b)
          [] path = "tools/go.mod" -> <<Require(Home, release)>>
          [] path = "quality.json" -> <<Text("schema 4")>>
          [] OTHER -> Absent]

Local == <<Pattern("local")>>

With(tree, path, contents) == [tree EXCEPT ![path] = contents]

(* The tenant tree of a manifest that is provisioned from the tree h.        *)
ProvisionedTree(h, b, release) ==
    LET plan == CallerMaterials(h, b) \o FileTopicMaterials(h, b)
                \o <<GitignoreMaterial(h, b, <<Mark, LineFeed>> \o Local),
                     CodeownersMaterial(h, b)>>
                \o ConventionsMaterials(h, b)
    IN  [path \in MCTenantPaths |->
            IF \E i \in DOMAIN plan : plan[i].path = path
            THEN plan[CHOOSE i \in DOMAIN plan : plan[i].path = path].contents
            ELSE Fresh(b, release)[path]]

Provisioned == ProvisionedTree(Release1, Manifest1, "release1")
===============================================================================
