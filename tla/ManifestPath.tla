------------------------------ MODULE ManifestPath -----------------------------
(***************************************************************************)
(* The grammar of the paths a manifest may bind: validateManifestPath and  *)
(* splitPath (internal/canonical/bindings.go), on paths as sequences of    *)
(* characters.                                                             *)
(***************************************************************************)
EXTENDS Integers, Sequences, FiniteSetsExt

Slash == "/"
Backslash == "backslash"
Dot == "."
Colon == ":"
Control == "control character"

Segment(path, end, ends) ==
    SubSeq(path, 1 + Max({0} \cup {e \in ends : e < end}), end - 1)

(* Mutation: the loop stops at the last character. *)
SplitPathUnended(path) ==
    LET ends == {index \in DOMAIN path : path[index] = Slash}
    IN  {Segment(path, end, ends) : end \in ends}

(* What lies between slashes; the index one past the end closes the last.    *)
SplitPath(path) ==
    LET ends == {index \in 1..(Len(path) + 1) :
                    index = Len(path) + 1 \/ path[index] = Slash}
    IN  {Segment(path, end, ends) : end \in ends}

ValidManifestPath(path) ==
    /\ path # <<>>
    /\ path[1] \notin {Slash, Backslash}
    /\ Len(path) > 1 => path[2] # Colon
    /\ <<Dot, Dot>> \notin SplitPath(path)
    /\ \A i \in DOMAIN path : path[i] \notin {Backslash, Control}

-------------------------------------------------------------------------------
(* Where the path leads, character by character: how many directories below  *)
(* the root its complete segments are, a segment of two dots going up, an    *)
(* empty one or one dot going nowhere.                                       *)
Descend(walk, char) ==
    IF char # Slash THEN [walk EXCEPT !.segment = Append(@, char)]
    ELSE [segment |-> <<>>,
          depth |-> CASE walk.segment = <<Dot, Dot>> -> walk.depth - 1
                      [] walk.segment \in {<<>>, <<Dot>>} -> walk.depth
                      [] OTHER -> walk.depth + 1,
          escaped |-> \/ walk.escaped
                      \/ walk.segment = <<Dot, Dot>> /\ walk.depth = 0]

StaysBelow(path) ==
    LET walk[i \in 0..(Len(path) + 1)] ==
            IF i = 0 THEN [segment |-> <<>>, depth |-> 0, escaped |-> FALSE]
            ELSE Descend(walk[i - 1], IF i > Len(path) THEN Slash ELSE path[i])
    IN  ~ walk[Len(path) + 1].escaped

(* On every platform it is a path below the root it is joined to.            *)
StaysInside(path) ==
    /\ StaysBelow(path)
    /\ path[1] \notin {Slash, Backslash}
    /\ Len(path) > 1 => path[2] # Colon
    /\ \A i \in DOMAIN path : path[i] # Backslash
===============================================================================
