---------------------------- MODULE GovernedRegion ----------------------------
(***************************************************************************)
(* The gitignore topic of the render core (internal/canonical/gitignore.go *)
(* and preserveGitignoreProjectBlock of provision.go): the governed region *)
(* a tenant's gitignore begins with, the conditions under which it renders *)
(* at all, and the composition of a re-rendered region with the free       *)
(* project block a tenant keeps below the mark.                            *)
(*                                                                         *)
(* A file is a sequence of chunks, and a chunk is a record with a "kind".  *)
(* A chunk is the unit of every comparison the code makes on bytes: a      *)
(* pattern line, a comment line, the mark, a line feed, the generated      *)
(* header of a region, or one fragment with its generated source header.   *)
(***************************************************************************)
EXTENDS Naturals, Sequences, FiniteSets, SequencesExt, FiniteSetsExt

CONSTANTS
    Absent,          \* what reading a file that does not exist returns
    CoreFragment,    \* the org core, the only fragment name without a slash
    AreaFragments,   \* the "<area>/<concern>" names of the fragment grammar
    SecretFamilies,  \* the patterns the org core must carry
    Negations,       \* the patterns that begin with "!"
    Probes,          \* the probe paths of the protected license family
    Matches          \* pattern |-> the probes it matches (the pattern engine)

Mark     == [kind |-> "mark"]
LineFeed == [kind |-> "lineFeed"]

(* The home-relative path of a fragment. *)
FragmentPath(fragment) == <<"gitignore", fragment>>

-------------------------------------------------------------------------------
(* The fragment list form: the org core first, names of the grammar, no      *)
(* repetition.                                                               *)
ValidFragments(fragments) ==
    /\ fragments # <<>>
    /\ fragments[1] = CoreFragment
    /\ \A i \in DOMAIN fragments : fragments[i] \in AreaFragments \cup {CoreFragment}
    /\ \A i, j \in DOMAIN fragments : fragments[i] = fragments[j] => i = j

(* The pattern lines of a document, in order: a block contributes the        *)
(* pattern lines of its fragment.                                            *)
PatternLines(contents) ==
    LET Lines(chunk) == IF chunk.kind = "block" THEN chunk.lines ELSE <<chunk>>
    IN  SelectSeq(FlattenSeq([i \in DOMAIN contents |-> Lines(contents[i])]),
                  LAMBDA line : line.kind = "pattern")

(* The license-family probes a document ignores. The last matching pattern   *)
(* decides, and a negation re-includes.                                      *)
LicenseViolations(contents) ==
    LET lines == PatternLines(contents)
        MatchedBy(probe) ==
            {i \in DOMAIN lines : probe \in Matches[lines[i].pattern]}
    IN  {probe \in Probes :
            /\ MatchedBy(probe) # {}
            /\ lines[Max(MatchedBy(probe))].pattern \notin Negations}

-------------------------------------------------------------------------------
Header(fragments, pin) ==
    [kind |-> "header", fragments |-> fragments, pin |-> pin]

Block(fragment, lines) ==
    [kind |-> "block", fragment |-> fragment, lines |-> lines]

(* Everything of the region above the mark. *)
RegionBody(home, fragments, pin) ==
    <<Header(fragments, pin)>> \o
    [i \in 1..Len(fragments) |->
        Block(fragments[i], home[FragmentPath(fragments[i])])]

GovernedRegion(home, fragments, pin) ==
    RegionBody(home, fragments, pin) \o <<Mark, LineFeed>>

(* The fail-closed conditions of the render. GovernedRegion is the region    *)
(* only when they hold; the code returns an error otherwise.                 *)
RegionRenders(home, fragments, pin) ==
    /\ ValidFragments(fragments)
    /\ \A i \in DOMAIN fragments :
          /\ home[FragmentPath(fragments[i])] # Absent
          /\ ~ Contains(home[FragmentPath(fragments[i])], Mark)
    /\ LET restated == PatternLines(RegionBody(home, fragments, pin))
           core == PatternLines(home[FragmentPath(CoreFragment)])
           corePatterns == {core[i].pattern : i \in DOMAIN core}
       IN  /\ \A i, j \in DOMAIN restated : restated[i] = restated[j] => i = j
           /\ corePatterns \cap Negations = {}
           /\ SecretFamilies \subseteq corePatterns
    /\ LicenseViolations(GovernedRegion(home, fragments, pin)) = {}

-------------------------------------------------------------------------------
HasMark(contents) == \E i \in 1..Len(contents) : contents[i] = Mark

FirstMark(contents) ==
    CHOOSE i \in 1..Len(contents) :
        /\ contents[i] = Mark
        /\ \A j \in 1..(i - 1) : contents[j] # Mark

After(contents, i) == SubSeq(contents, i + 1, Len(contents))

(* The free project block of a marked file: what follows the first mark, the *)
(* line feed that ends the mark's own line left out.                         *)
ProjectBlock(contents) ==
    LET tail == After(contents, FirstMark(contents))
    IN  IF tail # <<>> /\ Head(tail) = LineFeed THEN Tail(tail) ELSE tail

(* preserveGitignoreProjectBlock refuses an existing file that neither       *)
(* begins with the region nor carries the mark.                              *)
Preservable(existing, rendered) ==
    IsPrefix(rendered, existing) \/ HasMark(existing)

(* Mutation: the mark's line feed is kept with the block. *)
PreservedUntrimmed(existing, rendered) ==
    IF IsPrefix(rendered, existing)
    THEN rendered \o After(existing, Len(rendered))
    ELSE rendered \o After(existing, FirstMark(existing))

(* Mutation: the kept part begins one chunk early. *)
PreservedOffByOne(existing, rendered) ==
    IF IsPrefix(rendered, existing)
    THEN rendered \o After(existing, Len(rendered) - 1)
    ELSE rendered \o ProjectBlock(existing)

(* Its result otherwise: the re-rendered region over what it keeps.          *)
Preserved(existing, rendered) ==
    IF IsPrefix(rendered, existing)
    THEN rendered \o After(existing, Len(rendered))
    ELSE rendered \o ProjectBlock(existing)
===============================================================================
