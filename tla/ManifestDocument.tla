--------------------------- MODULE ManifestDocument ---------------------------
(***************************************************************************)
(* The wire form of the binding manifest: what the file of a tenant says,  *)
(* what DecodeBindings (internal/canonical/bindings.go) makes of it, and   *)
(* what the published schema (schemas/repo-bindings/v2) admits.            *)
(*                                                                         *)
(* A document is [envelope, fields, conventions, callers]: how the bytes   *)
(* are framed, the wire form of every scalar field and of the fragment     *)
(* list, the form of the optional section, and the callers, each with the  *)
(* wire form of its fields.  A required section that is missing or null is *)
(* one whose every field is missing.                                       *)
(***************************************************************************)
EXTENDS Bindings, Functions

CONSTANTS ReleaseTags   \* the strings versionPattern accepts

(* No grammar of a string takes the empty one.                               *)
ASSUME GrammarsAssumption ==
    /\ Empty \notin Repositories /\ Empty \notin Pins /\ Empty \notin ReleaseTags
    /\ Empty \notin WorkflowPaths /\ Empty \notin MasterPaths
    /\ Empty \notin {"full", "linux-only", "pending"}

(* The wire forms of a field.  Respelled: the key in another letter case.    *)
Missing == [form |-> "missing"]
Null == [form |-> "null"]
Mistyped == [form |-> "mistyped"]
Given(value) == [form |-> "given", value |-> value]
Respelled(value) == [form |-> "respelled", value |-> value]

PathFields ==
    {"files.lefthook.path", "files.gitattributes.path", "files.dependabot.path",
     "files.gitignore.path", "codeowners.path", "quality.config", "tools.module",
     "conventions.path"}

HashFields ==
    {"files.lefthook.sha256", "files.gitattributes.sha256",
     "files.dependabot.sha256", "files.gitignore.sha256"}

ConventionsTexts ==
    {"conventions.organization", "conventions.repository", "conventions.rationale"}

TextFields ==
    {"home.repository", "home.version", "home.sha", "class.qualityGates",
     "codeowners.defaultOwner"} \cup ConventionsTexts

Numbers == {"schemaVersion", "quality.schemaVersion", "tools.catalogVersion"}

Flags == {"class.codeScanning", "class.licenseHub"}

Fields == PathFields \cup HashFields \cup TextFields \cup Numbers \cup Flags
              \cup {"files.gitignore.fragments"}

CallerFields == {"file", "master", "sha256"}

IsWire(wire) ==
    \/ wire \in {Missing, Null, Mistyped}
    \/ wire = Given(wire.value)
    \/ wire = Respelled(wire.value)

-------------------------------------------------------------------------------
(* The decoder.  encoding/json takes a key in any letter case, and leaves    *)
(* the zero value where a key is missing or null.                            *)
Zero(field) ==
    CASE field \in PathFields \cup {"files.gitignore.fragments"} -> <<>>
      [] field \in Numbers -> 0
      [] field \in Flags -> FALSE
      [] OTHER -> Empty

Value(wire, zero) ==
    IF wire.form \in {"given", "respelled"} THEN wire.value ELSE zero

Decoded(doc) ==
    LET of(field) == Value(doc.fields[field], Zero(field))
        file(path, sha256) == [path |-> of(path), sha256 |-> of(sha256)]
    IN  [schemaVersion |-> of("schemaVersion"),
         home |-> [repository |-> of("home.repository"),
                   version |-> of("home.version"), sha |-> of("home.sha")],
         class |-> [qualityGates |-> of("class.qualityGates"),
                    codeScanning |-> of("class.codeScanning"),
                    licenseHub |-> of("class.licenseHub")],
         callers |-> [i \in DOMAIN doc.callers |->
                         [field \in CallerFields |->
                             Value(doc.callers[i][field], Empty)]],
         files |-> [lefthook |-> file("files.lefthook.path", "files.lefthook.sha256"),
                    gitattributes |->
                       file("files.gitattributes.path", "files.gitattributes.sha256"),
                    dependabot |->
                       file("files.dependabot.path", "files.dependabot.sha256"),
                    gitignore |->
                       [path |-> of("files.gitignore.path"),
                        fragments |-> of("files.gitignore.fragments"),
                        sha256 |-> of("files.gitignore.sha256")]],
         codeowners |-> [path |-> of("codeowners.path"),
                         defaultOwner |-> of("codeowners.defaultOwner")],
         conventions |->
            IF doc.conventions # "object" THEN Unbound
            ELSE [path |-> of("conventions.path"),
                  organization |-> of("conventions.organization"),
                  repository |-> of("conventions.repository"),
                  rationale |-> of("conventions.rationale")],
         quality |-> [config |-> of("quality.config"),
                      schemaVersion |-> of("quality.schemaVersion")],
         tools |-> [module |-> of("tools.module"),
                    catalogVersion |-> of("tools.catalogVersion")]]

(* A document: the values the properties tell apart by their type have it,   *)
(* and no section decodes to the mark of a missing one.                      *)
IsDocument(doc) ==
    /\ doc = [envelope |-> doc.envelope, fields |-> doc.fields,
              conventions |-> doc.conventions, callers |-> doc.callers]
    /\ doc.envelope \in {"one document", "oversized", "empty", "malformed", "trailing",
                         "unknown field"}
    /\ doc.conventions \in {"object", "null", "missing"}
    /\ DOMAIN doc.fields = Fields /\ \A field \in Fields : IsWire(doc.fields[field])
    /\ \A field \in Flags :
          doc.fields[field] = Mistyped \/ Value(doc.fields[field], FALSE) \in BOOLEAN
    /\ LET fragments == doc.fields["files.gitignore.fragments"]
       IN  fragments = Mistyped \/ IsSequence(Value(fragments, <<>>))
    /\ IsSequence(doc.callers)
    /\ \A i \in DOMAIN doc.callers : \A field \in CallerFields :
          IsWire(doc.callers[i][field])
    /\ doc.conventions = "object" => Decoded(doc).conventions # Unbound
    /\ Decoded(doc) # Unbound

(* The fields that stand in the document.                                    *)
Bears(doc, field) ==
    \/ field \notin ConventionsTexts \cup {"conventions.path"}
    \/ doc.conventions = "object"

WellTyped(doc) ==
    /\ \A field \in Fields : Bears(doc, field) => doc.fields[field] # Mistyped
    /\ \A i \in DOMAIN doc.callers :
          \A field \in CallerFields : doc.callers[i][field] # Mistyped

ValidVersion(version) == version \in ReleaseTags \cup {Empty}

DecodeBindings(doc) ==
    /\ doc.envelope = "one document"
    /\ WellTyped(doc)
    /\ ValidBindings(Decoded(doc))
    /\ ValidVersion(Decoded(doc).home.version)

-------------------------------------------------------------------------------
(* The published schema: the values it takes for a field, and the documents  *)
(* it admits.  It bounds neither the size of a document nor the grammar of a *)
(* path, and relates no caller to another.                                   *)
SchemaTakes(field, value) ==
    CASE field \in PathFields -> value # <<>>
      [] field \in HashFields \cup ConventionsTexts \cup {"codeowners.defaultOwner"} ->
            value # Empty
      [] field = "home.repository" -> value \in Repositories
      [] field = "home.version" -> value \in ReleaseTags
      [] field = "home.sha" -> value \in Pins
      [] field = "class.qualityGates" -> value \in {"full", "linux-only", "pending"}
      [] field \in Flags -> value \in BOOLEAN
      [] field = "schemaVersion" -> value = 2
      [] field = "quality.schemaVersion" -> value = 4
      [] field = "tools.catalogVersion" -> value = 1
      [] field = "files.gitignore.fragments" ->
            /\ value # <<>> /\ value[1] = CoreFragment
            /\ Range(Tail(value)) \subseteq AreaFragments
            /\ IsInjective(value)

SchemaTakesOfCaller(field, value) ==
    CASE field = "file" -> value \in WorkflowPaths
      [] field = "master" -> value \in MasterPaths
      [] field = "sha256" -> value # Empty

SchemaAdmits(doc) ==
    /\ doc.envelope \in {"one document", "oversized"}
    /\ doc.conventions # "null"
    /\ \A field \in Fields :
          \/ ~ Bears(doc, field)
          \/ doc.fields[field] = Missing /\ field = "home.version"
          \/ /\ doc.fields[field].form = "given"
             /\ SchemaTakes(field, doc.fields[field].value)
    /\ Len(doc.callers) \in 1..16
    /\ \A i \in DOMAIN doc.callers : \A field \in CallerFields :
          /\ doc.callers[i][field].form = "given"
          /\ SchemaTakesOfCaller(field, doc.callers[i][field].value)

(* What the home says of a manifest outside its schema: callers name every   *)
(* file and every master once, paths follow the path grammar, and the file   *)
(* keeps the size bound.                                                     *)
PublishedForm(doc) ==
    LET named(field) == [i \in DOMAIN doc.callers |-> doc.callers[i][field]]
    IN  /\ doc.envelope # "oversized"
        /\ IsInjective(named("file")) /\ IsInjective(named("master"))
        /\ \A field \in PathFields :
              Bears(doc, field) => doc.fields[field].value \in ManifestPaths

(* The document a reader of the decoded bindings would write: the keys in    *)
(* their own spelling, and what may be left out written out or left out.     *)
CompletedWire(field, wire) ==
    IF field \in Flags /\ wire \in {Missing, Null} THEN Given(FALSE)
    ELSE IF field = "home.version" /\ wire \in {Null, Given(Empty), Respelled(Empty)}
    THEN Missing
    ELSE IF wire.form = "respelled" THEN Given(wire.value) ELSE wire

Completed(doc) ==
    [doc EXCEPT
        !.fields = [field \in Fields |-> CompletedWire(field, doc.fields[field])],
        !.conventions = IF @ = "null" THEN "missing" ELSE @,
        !.callers = [i \in DOMAIN @ |->
            [field \in CallerFields |-> CompletedWire(field, @[i][field])]]]
===============================================================================
