-------------------------- MODULE AtomicVerification ---------------------------
(***************************************************************************)
(* What a verdict is worth beside a writer: the verifier claims that a     *)
(* tree conforms, the tree changes as it likes, and the verdict is the one *)
(* that some tree since the claim deserves.  Nothing is said of how the    *)
(* verifier reads: it might as well have looked at one tree at once.       *)
(***************************************************************************)
EXTENDS FiniteSets

CONSTANTS
    Claims,          \* what a tree can be verified against
    Conforms(_, _),  \* whether a tree conforms to a claim
    None             \* no claim under way, no verdict yet

VARIABLES
    tree,            \* what is verified
    claim,           \* the claim of the verification under way
    deserved,        \* the verdicts of the trees since the claim was made
    verdict          \* the last verdict

verificationVars == <<tree, claim, deserved, verdict>>

-------------------------------------------------------------------------------
Unclaimed == claim = None /\ deserved = {} /\ verdict = None

Claim(c) ==
    /\ claim = None
    /\ claim' = c
    /\ deserved' = {Conforms(tree, c)}
    /\ verdict' = None
    /\ UNCHANGED tree

Change ==
    /\ tree' # tree
    /\ deserved' = IF claim = None THEN {}
                   ELSE deserved \cup {Conforms(tree', claim)}
    /\ UNCHANGED <<claim, verdict>>

Judge ==
    /\ claim # None
    /\ verdict' \in deserved
    /\ claim' = None /\ deserved' = {}
    /\ UNCHANGED tree

Verification ==
    Unclaimed /\ [][(\E c \in Claims : Claim(c)) \/ Change \/ Judge]_verificationVars
===============================================================================
