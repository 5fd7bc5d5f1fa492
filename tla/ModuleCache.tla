------------------------------- MODULE ModuleCache -----------------------------
(***************************************************************************)
(* ResolveModuleDir (internal/canonical/production.go): a module is        *)
(* downloaded by one process of the Go toolchain and its directory listed  *)
(* by a second one, over a module cache that other processes of the machine*)
(* fill and clean and a tooling module that its owners edit.  Both CLIs    *)
(* resolve every module they read in this way: the home tree, the catalog, *)
(* the registries and the license hub.                                     *)
(***************************************************************************)
EXTENDS Naturals, FiniteSets

CONSTANTS
    Processes,        \* the processes that resolve modules
    Modules,          \* the modules they ask for
    Versions,         \* the versions a tooling module can require
    NotRequired,      \* what it requires of a module it does not name
    Failed,           \* the outcome of a resolution that ended in an error
    NoDirectory,      \* the empty line "go list" prints of a module it lacks
    MixedOutput,      \* a directory or an empty line, and lines of stderr
    None,             \* no module asked for, no outcome yet
    Disturbances,     \* which of "network", "stderr", "clean", "edit" can happen
    MaxDisturbances   \* bound on the disturbances of a behavior

VARIABLES
    required,         \* the tooling module: module |-> version or NotRequired
    cache,            \* the <<module, version>> pairs with a directory
    place,            \* process |-> the command it runs next
    asked,            \* process |-> the module it resolves or resolved last
    outcome,          \* process |-> the outcome of its last call
    disturbed,        \* the processes whose call was disturbed (auxiliary)
    disturbances      \* how many there were (auxiliary: bounds them)

vars == <<required, cache, place, asked, outcome, disturbed, disturbances>>

ASSUME CacheAssumption ==
    /\ NotRequired \notin Versions
    /\ {Failed, NoDirectory, MixedOutput, None} \cap Versions = {}
    /\ None \notin Modules
    /\ MaxDisturbances \in Nat

-------------------------------------------------------------------------------
Init ==
    /\ required \in [Modules -> Versions \cup {NotRequired}]
    /\ cache \in {{}, Modules \X Versions}
    /\ place = [p \in Processes |-> "idle"]
    /\ asked = [p \in Processes |-> None]
    /\ outcome = [p \in Processes |-> None]
    /\ disturbed = {}
    /\ disturbances = 0

Call(p, m, command) ==
    /\ place[p] = "idle"
    /\ place' = [place EXCEPT ![p] = command]
    /\ asked' = [asked EXCEPT ![p] = m]
    /\ outcome' = [outcome EXCEPT ![p] = None]
    /\ disturbed' = disturbed \ {p}
    /\ UNCHANGED <<required, cache, disturbances>>

(* Mutation: a warm cache is trusted. *)
ResolveTrustingCache(p, m) == Call(p, m, "list")

(* Mutation: a module that was found before is not downloaded again. *)
ResolveOnce(p, m) == Call(p, m, IF outcome[p] = None THEN "download" ELSE "list")

ResolveModuleDir(p, m) == Call(p, m, "download")

Return(p, result) ==
    /\ place' = [place EXCEPT ![p] = "idle"]
    /\ outcome' = [outcome EXCEPT ![p] = result]
    /\ UNCHANGED asked

(* The directory of the version the tooling module requires, at the pinned   *)
(* channel; without a requirement the command fails.                         *)
Download(p) ==
    /\ place[p] = "download"
    /\ LET version == required[asked[p]]
       IN  IF version = NotRequired
           THEN Return(p, Failed) /\ UNCHANGED cache
           ELSE /\ cache' = cache \cup {<<asked[p], version>>}
                /\ place' = [place EXCEPT ![p] = "list"]
                /\ UNCHANGED <<asked, outcome>>
    /\ UNCHANGED <<required, disturbed, disturbances>>

(* What "go list -m -f {{.Dir}}" prints.                                     *)
Listed(m) ==
    IF required[m] = NotRequired THEN Failed
    ELSE IF <<m, required[m]>> \in cache THEN required[m] ELSE NoDirectory

(* Mutation: an empty directory is an answer. *)
ListUnchecked(p) ==
    /\ place[p] = "list"
    /\ Return(p, Listed(asked[p]))
    /\ UNCHANGED <<required, cache, disturbed, disturbances>>

(* An empty line is an error.                                                *)
List(p) ==
    /\ place[p] = "list"
    /\ LET resolved == Listed(asked[p])
       IN  Return(p, IF resolved = NoDirectory THEN Failed ELSE resolved)
    /\ UNCHANGED <<required, cache, disturbed, disturbances>>

-------------------------------------------------------------------------------
(* Disturbances.                                                             *)
Disturb(kind) ==
    /\ kind \in Disturbances /\ disturbances < MaxDisturbances
    /\ disturbances' = disturbances + 1

Calling == {p \in Processes : place[p] # "idle"}

(* The download meets no network or a sum that diverges; listing, a tooling  *)
(* module that does not load.                                                *)
CommandFails(p) ==
    /\ Disturb("network")
    /\ place[p] # "idle"
    /\ Return(p, Failed)
    /\ disturbed' = disturbed \cup {p}
    /\ UNCHANGED <<required, cache>>

(* Listing succeeds and writes to stderr too: both streams are the answer    *)
(* (CombinedOutput), which is no directory and is not empty either.          *)
ListWarns(p) ==
    /\ Disturb("stderr")
    /\ place[p] = "list" /\ Listed(asked[p]) # Failed
    /\ Return(p, MixedOutput)
    /\ disturbed' = disturbed \cup {p}
    /\ UNCHANGED <<required, cache>>

(* go clean -modcache, or a runner that evicts its cache.                    *)
CleanCache ==
    /\ Disturb("clean")
    /\ cache' = {}
    /\ disturbed' = disturbed \cup Calling
    /\ UNCHANGED <<required, place, asked, outcome>>

(* An owner adds, bumps or drops a requirement.                              *)
EditTooling(m, version) ==
    /\ Disturb("edit")
    /\ required' = [required EXCEPT ![m] = version]
    /\ disturbed' = disturbed \cup Calling
    /\ UNCHANGED <<cache, place, asked, outcome>>

(* Another process of the machine downloads a module.  No disturbance.       *)
FillCache(m, version) ==
    /\ cache' = cache \cup {<<m, version>>}
    /\ UNCHANGED <<required, place, asked, outcome, disturbed, disturbances>>

-------------------------------------------------------------------------------
Command(p) == Download(p) \/ List(p)

Next ==
    \/ \E p \in Processes :
          \/ Command(p) \/ CommandFails(p) \/ ListWarns(p)
          \/ \E m \in Modules : ResolveModuleDir(p, m)
    \/ CleanCache
    \/ \E m \in Modules, version \in Versions : FillCache(m, version)
    \/ \E m \in Modules, version \in Versions \cup {NotRequired} :
          EditTooling(m, version)

Spec == Init /\ [][Next]_vars

(* A command of the toolchain ends, and a process that is through with one   *)
(* module resolves the next or the same again.                               *)
FairSpec ==
    /\ Spec
    /\ \A p \in Processes :
          WF_vars(Command(p)) /\ WF_vars(\E m \in Modules : ResolveModuleDir(p, m))

-------------------------------------------------------------------------------
(* Properties.                                                               *)

(* Every variable keeps its type: an outcome is a version, an error or what  *)
(* was mixed with stderr, never an empty directory (production.go:87-89).    *)
TypeOK ==
    /\ required \in [Modules -> Versions \cup {NotRequired}]
    /\ cache \subseteq Modules \X Versions
    /\ place \in [Processes -> {"idle", "download", "list"}]
    /\ asked \in [Processes -> Modules \cup {None}]
    /\ \A p \in Processes : asked[p] = None => place[p] = "idle"
    /\ outcome \in [Processes -> Versions \cup {Failed, MixedOutput, None}]
    /\ disturbed \subseteq Processes
    /\ disturbances \in 0..MaxDisturbances

WithoutCache == INSTANCE CachelessResolution WITH
    asked <- [p \in Processes |-> IF place[p] = "idle" THEN None ELSE asked[p]]

(* Whatever the cache holds and whoever fills or cleans it, a resolution     *)
(* behaves as if there were none: it answers the version the tooling module  *)
(* requires, and it fails, or answers a mixed path, only for a module that is*)
(* not required or in a call that was disturbed while it ran; a cold cache   *)
(* alone never does that (production.go:67-91).                              *)
CacheDoesNotMatter == WithoutCache!Promise

(* Once commands have ceased to fail and to warn, caches to be cleaned and   *)
(* owners to edit - they do, by their bound - no resolution of a required    *)
(* module ends in an error or at anything but its version any more: nothing  *)
(* a process or the cache remembers of the disturbances outlasts them        *)
(* (production.go:72-91).                                                    *)
ResolutionsRecover ==
    <>[](\A p \in Processes :
            /\ place[p] = "idle" /\ asked[p] # None
            /\ required[asked[p]] # NotRequired
            => outcome[p] = required[asked[p]])
===============================================================================
