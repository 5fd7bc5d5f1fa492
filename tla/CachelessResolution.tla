-------------------------- MODULE CachelessResolution --------------------------
(***************************************************************************)
(* What a module resolution promises: its outcome is the tooling module's. *)
(* There is no cache in this specification, so that no state of one can    *)
(* change an outcome (self-sufficient-module-resolution.md: "A cold cache  *)
(* is a normal input, never a failure mode").                              *)
(***************************************************************************)
CONSTANTS
    Processes,     \* the processes that resolve modules
    Modules,       \* the modules they ask for
    Versions,      \* the versions a tooling module can require
    NotRequired,   \* what it requires of a module it does not name
    Failed,        \* the outcome of a resolution that ended in an error
    MixedOutput,   \* the outcome of one that took a warning for a directory
    None           \* no module asked for, no outcome yet

VARIABLES
    required,      \* the tooling module: module |-> version or NotRequired
    asked,         \* process |-> the module it resolves, None between calls
    outcome,       \* process |-> the outcome of its last call
    disturbed      \* the processes in whose call a command failed or warned,
                   \* the cache was cleaned or the tooling module edited

promiseVars == <<required, asked, outcome, disturbed>>

-------------------------------------------------------------------------------
Quiet ==
    /\ required \in [Modules -> Versions \cup {NotRequired}]
    /\ asked = [p \in Processes |-> None]
    /\ outcome = [p \in Processes |-> None]
    /\ disturbed = {}

Asks(p, m) ==
    /\ asked[p] = None
    /\ asked' = [asked EXCEPT ![p] = m]
    /\ outcome' = [outcome EXCEPT ![p] = None]
    /\ disturbed' = disturbed \ {p}
    /\ UNCHANGED required

(* A call answers with what is required at that instant.  It fails for a     *)
(* module that is not required, and else only in a disturbed call; only there*)
(* it answers with what is no directory.                                     *)
Answers(p) ==
    /\ asked[p] # None
    /\ LET version == required[asked[p]]
       IN  \/ /\ version # NotRequired
              /\ outcome' = [outcome EXCEPT ![p] = version]
           \/ /\ version = NotRequired \/ p \in disturbed'
              /\ outcome' = [outcome EXCEPT ![p] = Failed]
           \/ /\ version # NotRequired /\ p \in disturbed'
              /\ outcome' = [outcome EXCEPT ![p] = MixedOutput]
    /\ asked' = [asked EXCEPT ![p] = None]
    /\ disturbed' \in {disturbed, disturbed \cup {p}}
    /\ UNCHANGED required

Disturbs ==
    /\ disturbed' = disturbed \cup {p \in Processes : asked[p] # None}
    /\ required' \in [Modules -> Versions \cup {NotRequired}]
    /\ UNCHANGED <<asked, outcome>>

PromiseNext ==
    \/ \E p \in Processes : Answers(p) \/ \E m \in Modules : Asks(p, m)
    \/ Disturbs

Promise == Quiet /\ [][PromiseNext]_promiseVars
===============================================================================
