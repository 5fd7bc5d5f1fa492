------------------------------- MODULE Exposures -------------------------------
(***************************************************************************)
(* Both exposures on one working tree: the provisioning runs of Provisioner*)
(* and a verification that reads the tree surface by surface while they    *)
(* write it (Verifier.Verify, internal/canonical/verify.go).  Verifier     *)
(* models the whole verification of a checkout that stands still; here the *)
(* families that read what the provisioner writes are walked one file at a *)
(* time, and nothing locks the tree between two of them.                   *)
(***************************************************************************)
EXTENDS Provisioner

VARIABLES
    place,       \* where the verification is
    claim,       \* the manifest and home tree it verifies, None before
    position,    \* the surface it reads next
    finding,     \* whether a surface had a finding
    verdict,     \* whether the last verification passed, None before
    deserved,    \* the verdicts of the trees since the claim (auxiliary)
    quiet,       \* whether no call failed since the claim (auxiliary)
    standing     \* the claim that passed last, if since it was made nobody
                 \* edited the tree and no call failed; or None (auxiliary)

verification == <<place, position, finding>>
history == <<claim, deserved, verdict, quiet, standing>>
exposures == <<vars, verification, history>>

Claims == [release : Releases, bindings : Manifests]

ASSUME ClaimsAssumption == None \notin Claims

Surfaces(c) == Len(SurfaceOrder(c.bindings))

(* The proof of one surface, in the order the families read them.            *)
SurfaceConforms(t, c, i) ==
    LET h == HomeTree[c.release]
        b == c.bindings
        callers == Len(b.callers)
        topics == callers + Len(FileTopics)
    IN  \/ i \in 1..callers /\ CallerConforms(t, h, b, b.callers[i])
        \/ /\ i \in (callers + 1)..topics
           /\ FileTopicConforms(t, h, b, FileTopics[i - callers])
        \/ i = topics + 1 /\ GitignoreConforms(t, h, b)
        \/ i = topics + 2 /\ CodeownersConforms(t, h, b)
        \/ i = topics + 3 /\ ConventionsConform(t, h, b)

TreeConforms(t, c) == SurfacesConform(t, HomeTree[c.release], c.bindings)

ExposuresInit ==
    /\ Init
    /\ place = "idle" /\ claim = None /\ position = 1 /\ finding = FALSE
    /\ verdict = None /\ deserved = {} /\ quiet = TRUE /\ standing = None

-------------------------------------------------------------------------------
(* The verification.                                                         *)

(* Main: the manifest, then the home tree of --home or of the tooling module.*)
(* Without either the process ends in an error and has no claim.             *)
ClaimsOf(t, home) ==
    LET b == t[BindingsFileName][1].bindings
        releases == IF home # None THEN {home}
                    ELSE PinnedReleases(t[b.tools.module], b.home.repository)
    IN  IF Decodes(t[BindingsFileName])
        THEN {[release |-> release, bindings |-> b] : release \in releases}
        ELSE {}

(* Neither file is written by a run, and owners do not edit during one, so   *)
(* the two reads are one step.                                               *)
BeginVerification ==
    /\ place = "idle"
    /\ \E invocation \in Invocations : \E c \in ClaimsOf(tenant, invocation.home) :
          claim' = c /\ deserved' = {TreeConforms(tenant, c)}
    /\ place' = "surfaces" /\ position' = 1 /\ finding' = FALSE
    /\ verdict' = None /\ quiet' = TRUE
    /\ UNCHANGED <<vars, standing>>

(* Mutation: the walk reads one surface too many. *)
VerifySurfaceTooFar ==
    /\ place = "surfaces" /\ position <= Surfaces(claim) + 1
    /\ finding' = (finding \/ ~ SurfaceConforms(tenant, claim, position))
    /\ position' = position + 1
    /\ UNCHANGED <<vars, place, history>>

(* Mutation: the last surface decides. *)
VerifySurfaceForgetting ==
    /\ place = "surfaces" /\ position <= Surfaces(claim)
    /\ finding' = ~ SurfaceConforms(tenant, claim, position)
    /\ position' = position + 1
    /\ UNCHANGED <<vars, place, history>>

VerifySurface ==
    /\ place = "surfaces" /\ position <= Surfaces(claim)
    /\ finding' = (finding \/ ~ SurfaceConforms(tenant, claim, position))
    /\ position' = position + 1
    /\ UNCHANGED <<vars, place, history>>

ReportVerdict ==
    /\ place = "surfaces" /\ position > Surfaces(claim)
    /\ verdict' = ~ finding
    /\ standing' = IF quiet /\ ~ finding THEN claim ELSE standing
    /\ place' = "idle" /\ claim' = None /\ deserved' = {}
    /\ UNCHANGED <<vars, position, finding, quiet>>

VerificationStep == BeginVerification \/ VerifySurface \/ ReportVerdict

-------------------------------------------------------------------------------
(* What happens to the tree meanwhile.                                       *)
Observed ==
    /\ deserved' = IF claim = None \/ tenant' = tenant THEN deserved
                   ELSE deserved \cup {TreeConforms(tenant', claim)}
    /\ UNCHANGED <<verification, claim, verdict>>

ProvisioningStep ==
    /\ \E r \in Runs : Start(r) \/ RunStep(r) \/ Return(r)
    /\ Observed
    /\ UNCHANGED <<quiet, standing>>

ProvisioningFault ==
    /\ \E r \in Runs : FaultStep(r)
    /\ Observed
    /\ quiet' = FALSE /\ standing' = None

OwnersStep ==
    /\ place = "idle" \/ EditsDuringRuns
    /\ TenantStep
    /\ Observed
    /\ quiet' = FALSE /\ standing' = None

ExposuresNext ==
    VerificationStep \/ ProvisioningStep \/ ProvisioningFault \/ OwnersStep

ExposuresSpec == ExposuresInit /\ [][ExposuresNext]_exposures

-------------------------------------------------------------------------------
(* Properties.                                                               *)

(* Every variable of the verification keeps its type; a claim is under way   *)
(* exactly while surfaces are read (cmd/verify-canonical/main.go:70-88).     *)
ExposuresTypeOK ==
    /\ place \in {"idle", "surfaces"}
    /\ (claim = None) = (place = "idle")
    /\ claim \in Claims \cup {None}
    /\ position \in 1..(IF claim = None THEN MaxCallerCount + 7 ELSE Surfaces(claim) + 1)
    /\ finding \in BOOLEAN
    /\ verdict \in BOOLEAN \cup {None}
    /\ deserved \subseteq BOOLEAN
    /\ (deserved = {}) = (claim = None)
    /\ quiet \in BOOLEAN /\ standing \in Claims \cup {None}

AtOneTree == INSTANCE AtomicVerification WITH
    Conforms <- TreeConforms, tree <- tenant

(* Although the families read one file after the other while a run truncates *)
(* and writes them, crashes and is retried, a verification passes only if at *)
(* one instant since it began the whole tree conformed, and it fails only if *)
(* at one instant it did not: no verdict is put together from surfaces of    *)
(* different stands (verify.go:43-63 beside provision.go:67-81).             *)
VerdictOfSomeTree == AtOneTree!Verification

(* A pass lasts: until an owner edits or a call fails, runs that re-provision*)
(* the verified tree leave every surface conforming to the claim that passed,*)
(* except a file whose rewriting is under way - although the run under way   *)
(* when the verdict fell may have been planned before the verification began.*)
PassLasts ==
    standing # None =>
        \A i \in 1..Surfaces(standing) :
            \/ SurfaceConforms(tenant, standing, i)
            \/ \E r \in Runs : Holds(r, SurfaceOrder(standing.bindings)[i])
===============================================================================
