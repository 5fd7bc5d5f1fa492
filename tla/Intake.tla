-------------------------------- MODULE Intake --------------------------------
(***************************************************************************)
(* What both CLIs do before they look at a surface (run, of                *)
(* cmd/provision-canonical/main.go and cmd/verify-canonical/main.go): read *)
(* the command line, read and decode the manifest of the repository it     *)
(* names, and bind the home tree.  Provisioner and Verifier begin where    *)
(* this module ends, with a manifest that is one of their constants.       *)
(***************************************************************************)
EXTENDS CommandLine, ManifestPath, ManifestDocument

CONSTANTS DefaultRoot   \* the root "." of a command line that names none

(* What the decoder takes for a path is a string, here one of characters,    *)
(* that validateManifestPath takes.                                          *)
ASSUME PathsAssumption ==
    \A path \in ManifestPaths : IsSequence(path) /\ ValidManifestPath(path)

VARIABLES
    command,    \* [cli, args], as the process was started
    disk,       \* the manifests of the repository roots
    index,      \* the next argument
    parsed,     \* what the loop has read so far
    stage,      \* "arguments", "manifest", "home", "admitted", "ended"
    bindings,   \* the decoded manifest, Unbound before
    home,       \* "flag" or "pinned": how the home tree is bound
    exit        \* the exit code, NoValue while the process runs

vars == <<command, disk, index, parsed, stage, bindings, home, exit>>

Args == command.args

(* An empty root joins to the current directory, as the default does.        *)
Root ==
    IF parsed.values["--repo"] \in {NoValue, Empty} THEN DefaultRoot
    ELSE parsed.values["--repo"]

Document == IF Root \in DOMAIN disk THEN disk[Root] ELSE Absent

IsCommandLine(line) ==
    /\ line.cli \in {ProvisionCLI, VerifyCLI}
    /\ IsSequence(line.args) /\ \A i \in DOMAIN line.args : IsArgument(line.args[i])

Started ==
    /\ index = 1 /\ parsed = Unparsed
    /\ stage = "arguments" /\ bindings = Unbound /\ home = "none" /\ exit = NoValue

(* A process starts with any command line, on any disk.  Instances choose.   *)
Init ==
    /\ IsCommandLine(command)
    /\ \A root \in DOMAIN disk : IsDocument(disk[root])
    /\ Started

EndWith(code) == stage' = "ended" /\ exit' = code

-------------------------------------------------------------------------------
(* One argument; --version and a usage error return at once.                 *)
NextArgument ==
    /\ stage = "arguments" /\ index <= Len(Args)
    /\ parsed' = ParseArgument(command.cli, parsed, Args[index])
    /\ index' = index + 1
    /\ CASE parsed'.ended = "version" -> EndWith(0)
         [] parsed'.ended = "usage" -> EndWith(2)
         [] OTHER -> UNCHANGED <<stage, exit>>
    /\ UNCHANGED <<command, disk, bindings, home>>

(* A flag without a following value is a usage error.                        *)
EndOfArguments ==
    /\ stage = "arguments" /\ index > Len(Args)
    /\ IF parsed.expects # NoValue
       THEN EndWith(2)
       ELSE stage' = "manifest" /\ UNCHANGED exit
    /\ UNCHANGED <<command, disk, index, parsed, bindings, home>>

(* Mutation: a manifest that does not decode leaves zero bindings behind. *)
ReadManifestOrNone ==
    /\ stage = "manifest"
    /\ IF Document = Absent
       THEN EndWith(1) /\ UNCHANGED bindings
       ELSE /\ stage' = "home" /\ bindings' = Decoded(Document)
            /\ UNCHANGED exit
    /\ UNCHANGED <<command, disk, index, parsed, home>>

(* decodeTenantBindings.                                                     *)
ReadManifest ==
    /\ stage = "manifest"
    /\ IF Document = Absent \/ ~ DecodeBindings(Document)
       THEN EndWith(1) /\ UNCHANGED bindings
       ELSE /\ stage' = "home" /\ bindings' = Decoded(Document)
            /\ UNCHANGED exit
    /\ UNCHANGED <<command, disk, index, parsed, home>>

(* resolveHomeRoot: the flag wins, an empty one does not; the resolution of  *)
(* the pinned module may fail.                                               *)
BindHome ==
    /\ stage = "home"
    /\ \/ /\ parsed.values["--home"] \notin {NoValue, Empty}
          /\ home' = "flag" /\ stage' = "admitted" /\ UNCHANGED exit
       \/ /\ parsed.values["--home"] \in {NoValue, Empty}
          /\ \/ home' = "pinned" /\ stage' = "admitted" /\ UNCHANGED exit
             \/ EndWith(1) /\ UNCHANGED home
    /\ UNCHANGED <<command, disk, index, parsed, bindings>>

Next == NextArgument \/ EndOfArguments \/ ReadManifest \/ BindHome

Spec == Init /\ [][Next]_vars

-------------------------------------------------------------------------------
Exits == {NoValue, 0, 1, 2}

(* The type invariant: a process that has no exit code is still reading, and *)
(* only one past the decoder carries a manifest.                             *)
TypeOK ==
    /\ IsCommandLine(command) /\ \A root \in DOMAIN disk : IsDocument(disk[root])
    /\ index \in 1..(Len(Args) + 1)
    /\ parsed.ended \in {"no", "version", "usage"}
    /\ parsed.expects \in ValueFlags \cup {NoValue}
    /\ parsed.switches \subseteq Switches(command.cli)
    /\ DOMAIN parsed.values = ValueFlags
    /\ stage \in {"arguments", "manifest", "home", "admitted", "ended"}
    /\ exit \in Exits /\ (exit = NoValue <=> stage # "ended")
    /\ home \in {"none", "flag", "pinned"} /\ (home # "none" <=> stage = "admitted")
    /\ stage \in {"home", "admitted"} => ValidBindings(bindings)

(* Every argument is a switch, a flag or the value of one, never two of      *)
(* them: the loop agrees with the reading of the whole command line.  It     *)
(* ends early exactly at the first argument that ends it, a switch is set    *)
(* exactly when it stands where no flag takes it for its value, and of the   *)
(* values of a flag the last one counts (the loops of both run functions and *)
(* flagValue).                                                               *)
ArgumentsPlayOneRole ==
    LET cli == command.cli
    IN  /\ stage = "ended" /\ exit \in {0, 2} =>
              Ending(cli, Args) = IF exit = 0 THEN "version" ELSE "usage"
        /\ stage \in {"manifest", "home", "admitted"} =>
              /\ Ending(cli, Args) = "no"
              /\ \A switch \in Switches(cli) :
                    switch \in parsed.switches
                    <=> \E i \in Read(Args) : Args[i] = Word(switch)
              /\ \A flag \in ValueFlags :
                    parsed.values[flag] = LastValue(Args, flag)

(* A manifest in the published form is decoded (validateDocument and         *)
(* everything it calls, against schemas/repo-bindings/v2).                   *)
PublishedManifestsDecode ==
    stage = "ended" /\ exit = 1 /\ bindings = Unbound /\ Document # Absent
    => ~ (SchemaAdmits(Document) /\ PublishedForm(Document))

(* What is decoded is a document of the schema, up to the fields the decoder *)
(* fills with their zero value and the spelling of keys: no other omission,  *)
(* type, value or framing passes it.                                         *)
NothingElseByOmission ==
    stage \in {"home", "admitted"} => SchemaAdmits(Completed(Document))

(* Every path a decoded manifest binds leads, from the root it is joined to, *)
(* to a place below that root, on every platform (validateManifestPath, for  *)
(* the joins of verify.go, provision.go and extends.go).                     *)
DecodedPathsStayBelow ==
    stage \in {"home", "admitted"} =>
        \A path \in {bindings.codeowners.path, bindings.quality.config,
                     bindings.tools.module}
                    \cup {bindings.files[t].path : t \in DOMAIN bindings.files}
                    \cup Range(ConventionsPaths(bindings)) :
            StaysInside(path)

(* Every field the schema requires stands in what is decoded: the schema, by *)
(* its own description, is strictly decoded (DecodeBindings).                *)
RequiredFieldsAreStated ==
    stage \in {"home", "admitted"} =>
        \A field \in Fields \ {"home.version"} :
            Bears(Document, field)
            => Document.fields[field].form \notin {"missing", "null"}
===============================================================================
