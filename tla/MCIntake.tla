------------------------------- MODULE MCIntake -------------------------------
(***************************************************************************)
(* Instances of the intake: every command line of up to four arguments     *)
(* with a good manifest, and one command line with manifests that deviate  *)
(* from the published form in one or two places.                           *)
(***************************************************************************)
EXTENDS Intake

Chars == {"/", "backslash", ".", ":", "a", "control character"}
MCManifestPaths == {path \in SeqOf(Chars, 4) : ValidManifestPath(path)}
AllPaths == SeqOf(Chars, 4)
MCWorkflowPaths == {<<"workflow", i>> : i \in 1..17}
MCMasterPaths == {<<"master", i>> : i \in 1..17}
MCAreaFragments == {"go/core"}
MCMatches == [p \in {} |-> {}]

Hash == [sha256 |-> <<"contents">>]
APath == <<"a">>

GoodValue(field) ==
    CASE field \in PathFields -> APath
      [] field \in HashFields -> Hash
      [] field = "home.repository" -> "home"
      [] field = "home.version" -> "v1.0.0"
      [] field = "home.sha" -> "sha1"
      [] field = "class.qualityGates" -> "full"
      [] field = "schemaVersion" -> 2
      [] field = "quality.schemaVersion" -> 4
      [] field = "tools.catalogVersion" -> 1
      [] field \in Flags -> TRUE
      [] field = "files.gitignore.fragments" -> <<"core", "go/core">>
      [] OTHER -> "text"

OtherValues(field) ==
    CASE field \in PathFields -> {<<>>, <<".", ".">>}
      [] field \in HashFields -> {Empty}
      [] field = "home.version" -> {Empty, "latest"}
      [] field = "class.qualityGates" -> {"pending", "none"}
      [] field \in Numbers -> {0, 1, 3}
      [] field \in Flags -> {FALSE}
      [] field = "files.gitignore.fragments" ->
            {<<>>, <<"core">>, <<"go/core", "core">>, <<"core", "core">>,
             <<"core", "go/core", "go/core">>, <<"core", "secret">>}
      [] OTHER -> {Empty, "Other"}

Forms(field) ==
    {Missing, Null, Mistyped, Respelled(GoodValue(field))}
        \cup {Given(value) : value \in OtherValues(field)}

GoodCaller(i) ==
    [file |-> Given(<<"workflow", i>>), master |-> Given(<<"master", i>>),
     sha256 |-> Given(Hash)]

GoodDocument ==
    [envelope |-> "one document",
     fields |-> [field \in Fields |-> Given(GoodValue(field))],
     conventions |-> "object",
     callers |-> <<GoodCaller(1), GoodCaller(2)>>]

WithField(doc, field, wire) == [doc EXCEPT !.fields = (field :> wire) @@ @]

(* The second caller: a field that is no good, or that the first one has.    *)
DeviatingCallers ==
    UNION {{<<field, wire>> : wire \in {Missing, Null, Mistyped, Given(Empty),
                                        Respelled(GoodCaller(2)[field].value),
                                        GoodCaller(1)[field]}} :
           field \in CallerFields}

(* One deviation of a document.                                              *)
Deviating(doc) ==
    {WithField(doc, field, wire) : <<field, wire>> \in
        UNION {{field} \X Forms(field) : field \in Fields}}
    \cup {[doc EXCEPT !.envelope = e] :
            e \in {"empty", "oversized", "malformed", "trailing", "unknown field"}}
    \cup {[doc EXCEPT !.conventions = c] : c \in {"missing", "null"}}
    \cup {[doc EXCEPT !.callers = [i \in 1..n |-> GoodCaller(i)]] : n \in {0, 1, 16, 17}}
    \cup {[doc EXCEPT !.callers = <<@[1], [@[2] EXCEPT ![field] = wire]>>] :
            <<field, wire>> \in IF Len(doc.callers) = 2 THEN DeviatingCallers ELSE {}}

OneDeviation == {GoodDocument} \cup Deviating(GoodDocument)

(* Every path in every place of a path.                                      *)
PathDocuments ==
    {WithField(GoodDocument, field, Given(path)) :
        field \in PathFields, path \in AllPaths}

-------------------------------------------------------------------------------
Here == Word(".")
There == Word("elsewhere")

Arguments ==
    {Word(w) : w \in {"--version", "--dry-run", "--yes", "--repo", "--home", "elsewhere"}}
    \cup {Assignment(flag, value) : flag \in ValueFlags, value \in {There, Empty}}

CommandLines ==
    [cli : {ProvisionCLI, VerifyCLI}, args : SeqOf(Arguments, 4)]

OtherDocument == WithField(GoodDocument, "class.licenseHub", Given(FALSE))

StartedWith(line, manifests) == command = line /\ disk = manifests /\ Started

(* The command lines vary over good manifests, and the manifests under a     *)
(* command line without arguments.                                           *)
MCInit ==
    \/ \E line \in CommandLines :
          StartedWith(line, Here :> GoodDocument @@ There :> OtherDocument)
    \/ \E doc \in PathDocuments \cup OneDeviation :
          \E deviating \in {doc} \cup IF doc \in OneDeviation THEN Deviating(doc) ELSE {} :
             StartedWith([cli |-> VerifyCLI, args |-> <<>>], Here :> deviating)

MCSpec == MCInit /\ [][Next]_vars
===============================================================================
