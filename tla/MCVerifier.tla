----------------------------- MODULE MCVerifier -------------------------------
(***************************************************************************)
(* Instances of Verifier: two registries, a tool catalog, a license hub,   *)
(* and tenant checkouts that conform or diverge in one or several of their *)
(* proof families.                                                         *)
(***************************************************************************)
EXTENDS Verifier, MCRenderCore

MCAuthority == "go-quality-authority"
MCKernel == "supply-chain-governance"
MCLicenseHub == "license-hub"

Package(name) == [package |-> name]
MCLicenseTool == Package("license")

-------------------------------------------------------------------------------
(* Lines and documents of the files only the verifier reads.                 *)
Module(name)         == [kind |-> "module", module |-> name]
Toolchain(parts)     == [kind |-> "toolchain", parts |-> parts]
Tool(package)        == [kind |-> "tool", package |-> package]
Entry(package)       == [kind |-> "entry", package |-> package]
OpenBlock            == [kind |-> "toolBlock"]
CloseBlock           == [kind |-> "close"]
Config(version, extends) ==
    <<[kind |-> "config", schemaVersion |-> version, extends |-> extends]>>
Reference(capability, major) ==
    [pinned |-> TRUE, capability |-> capability, major |-> major]
Unpinned == [pinned |-> FALSE]
Lock(prefixed) ==
    <<[kind |-> "lock", template |-> [prefixed |-> prefixed, path |-> "oss"]]>>
Json == <<[kind |-> "json"]>>
Registry(packs) == <<[kind |-> "registry", packs |-> packs]>>

Pack(area, capability, major) ==
    [area |-> area, capability |-> capability, major |-> major,
     identity |-> [area |-> area, capability |-> capability, major |-> major]]

(* Its descriptor lies at a location it does not state.                      *)
Misplaced(pack, major) == [pack EXCEPT !.major = major]

-------------------------------------------------------------------------------
Catalog(schema) ==
    [schema |-> schema, packages |-> {Package("staticcheck"), MCLicenseTool}]

AuthorityPacks == {Pack("go", "lint", 1), Pack("go", "lint", 2),
                   Misplaced(Pack("go", "sbom", 1), 2)}
KernelPacks    == {Pack("core", "audit", 1), Pack("core", "vex", 1),
                   Pack("policy", "vex", 1)}

(* A registry that carries lint@1, too.                                      *)
KernelPacksWithLint == KernelPacks \cup {Pack("core", "lint", 1)}

ModuleOf(packs, catalog) ==
    [packs |-> packs, catalog |-> catalog, templates |-> "oss" :> <<Text("v1")>>]

ModulesOf(kernelPacks) ==
    MCAuthority :> ("release1" :> ModuleOf(AuthorityPacks, Catalog("canonical"))
                    @@ "release2" :> ModuleOf(AuthorityPacks, Catalog("foreign")))
    @@ MCKernel :> ("release1" :> ModuleOf(kernelPacks, Absent))
    @@ MCLicenseHub :> ("release1" :> ModuleOf({}, Absent))

DisjointModules    == ModulesOf(KernelPacks)
OverlappingModules == ModulesOf(KernelPacksWithLint)

HomeModule == HomeModulePath :> <<Module(Home)>>
MCVerifierHomeTree ==
    [release \in AllReleases |-> HomeModule @@ MCHomeTree[release]]

-------------------------------------------------------------------------------
(* Tooling modules.                                                          *)
Requires == <<Require(Home, "release1"), Require(MCAuthority, "release1"),
              Require(MCKernel, "release1"), Require(MCLicenseHub, "release1")>>

Tooling ==
    Requires \o <<OpenBlock, Entry(Package("staticcheck")), Entry(MCLicenseTool),
                  CloseBlock, Tool([verifierOf |-> Home])>>

Toolings ==
    {Tooling, Requires, Absent,
     Requires \o <<OpenBlock, Entry(Package("staticcheck"))>>,
     Requires \o <<OpenBlock, Require(Home, "release1"), CloseBlock>>,
     Requires \o <<Tool(Package("unknown")), Comment>>,
     \* the catalog module is not required, or has another schema
     SelectSeq(Tooling, LAMBDA line : line # Require(MCAuthority, "release1")),
     <<Require(MCAuthority, "release2")>>
         \o SelectSeq(Tooling, LAMBDA line : line # Require(MCAuthority, "release1"))}

(* go.mod files: a tenant's and those of the two registry homes.             *)
GoMod(name) == <<Module(name), Toolchain(3)>>

GoMods ==
    {GoMod("tenant"), GoMod(MCAuthority), GoMod(MCKernel), Absent,
     <<Toolchain(3), Module("tenant")>>,
     <<Module("tenant")>>, <<Module("tenant"), Toolchain(0), Toolchain(3)>>}

(* Config seams: packs that resolve, are unknown, unpinned, misplaced,       *)
(* carried twice, or have a major beyond the largest int.                    *)
Extends ==
    {<<>>, <<Reference("lint", 1)>>, <<Reference("lint", 2), Reference("audit", 1)>>,
     <<Reference("audit", 2)>>, <<Unpinned, Reference("audit", 1)>>, <<Unpinned>>,
     <<Reference("sbom", 2)>>, <<Reference("vex", 1)>>, <<Reference("lint", 9)>>}

Configs == {Config(4, extends) : extends \in Extends} \cup {Config(3, <<>>), Json, Absent}

-------------------------------------------------------------------------------
(* Checkouts.                                                                *)
Checkout(b, h, extends, goMod, tools) ==
    (GoModPath :> goMod) @@ (CapabilitiesPath :> Registry({Pack("own", "lint", 1)}))
    @@ (LicenseFiles.values :> Json) @@ (LicenseFiles.lock :> Lock(TRUE))
    @@ ("LICENSE" :> <<Text("v1")>>)
    @@ ("quality.json" :> extends) @@ ("tools/go.mod" :> tools)
    @@ ProvisionedTree(h, b, "release1")

(* Everything but the canonical surfaces varies: every config with every     *)
(* registry owner, and every go.mod with every tooling module.               *)
OwnerGoMods == {GoMod("tenant"), GoMod(MCAuthority), GoMod(MCKernel)}

FamilyTrees ==
    {Checkout(Manifest1, Release1, config, goMod, Tooling) :
        config \in Configs, goMod \in OwnerGoMods}
    \cup
    {Checkout(Manifest1, Release1, Config(4, extends), goMod, tools) :
        extends \in {<<>>, <<Reference("lint", 1)>>}, goMod \in GoMods, tools \in Toolings}

(* A conforming license-hub tenant, and everything varies one at a time.     *)
LicenseTenant ==
    Checkout(LicenseHubManifest, Release1, Config(4, <<Reference("lint", 1)>>),
             GoMod("tenant"), Tooling)

DivergedTrees ==
    {LicenseTenant} \cup
    {With(LicenseTenant, path, contents) :
        path \in {"ci.yml", "lefthook.yml", ".gitignore", "CODEOWNERS", "LICENSE",
                  "license.values.json", "license.lock.json", "tools/go.mod",
                  "repo-bindings.json", CapabilitiesPath},
        contents \in {Absent, <<Text("v2")>>}}
    \cup {With(LicenseTenant, "license.lock.json", Lock(FALSE)),
          With(LicenseTenant, ".gitignore", LicenseTenant[".gitignore"]
                                                \o <<Pattern("LICENSE*")>>),
          With(LicenseTenant, ".gitignore", Local)}

MCTrees == FamilyTrees \cup DivergedTrees

(* Tenants, and the two registry homes, that declare packs; no capability is *)
(* carried by two of the registries they can reach.                          *)
PackTrees ==
    {With(Checkout(Manifest1, Release1, Config(4, extends), goMod, Tooling),
          CapabilitiesPath, Registry({Pack("own", "fmt", 1)})) :
        extends \in Extends \cup {<<Reference("fmt", 1), Reference("lint", 1)>>},
        goMod \in OwnerGoMods}

(* Calls fail where packs are declared, where tools are, and where each of   *)
(* the other families has something to prove.                                *)
FaultTrees ==
    PackTrees \cup DivergedTrees
    \cup {Checkout(Manifest1, Release1, Config(4, <<>>), GoMod("tenant"), tools) :
              tools \in Toolings}

EveryTree == MCTrees \cup FaultTrees

LintTree == {Checkout(Manifest1, Release1, Config(4, <<Reference("lint", 1)>>),
                      GoMod("tenant"), Tooling)}
TwoPartTree == {Checkout(Manifest1, Release1, Config(4, <<>>),
                         <<Module("tenant"), Toolchain(2)>>, Tooling)}

EveryHome == AllReleases \cup {None}
PinnedHome == {None}

VerifierManifests == {Manifest1, LicenseHubManifest}

(* Every checkout with the home its tooling module pins; with every other    *)
(* home, checkouts that conform but for their tooling module, and one that   *)
(* is not provisioned.                                                       *)
HomeTrees ==
    {LicenseTenant, With(LicenseTenant, "lefthook.yml", <<Text("v2")>>)}
    \cup {Checkout(Manifest1, Release1, Config(4, <<>>), GoMod("tenant"), tools) :
              tools \in Toolings}

VerifyInit == Init /\ (homeFlag = None \/ tenant \in HomeTrees)

VerifySpec == VerifyInit /\ [][Next]_vars

(* What the theorems about packs ask for.                                    *)
ASSUME InstancesFit == MajorsFit
===============================================================================
