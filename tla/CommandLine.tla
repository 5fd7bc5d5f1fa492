------------------------------ MODULE CommandLine ------------------------------
(***************************************************************************)
(* The argument loop of both CLIs (cmd/provision-canonical/main.go and     *)
(* cmd/verify-canonical/main.go).  An argument is a word, or an assignment *)
(* --repo=value or --home=value; a value is any argument.                  *)
(***************************************************************************)
EXTENDS Naturals, FiniteSets, SequencesExt

CONSTANTS NoValue   \* a flag that was not given, and no exit code

ProvisionCLI == "provision-canonical"
VerifyCLI == "verify-canonical"

Switches(cli) == IF cli = ProvisionCLI THEN {"--dry-run", "--yes"} ELSE {}

ValueFlags == {"--repo", "--home"}

ASSUME NoValueAssumption == NoValue \notin ValueFlags /\ NoValue \notin {0, 1, 2}

Word(text) == [word |-> text, value |-> NoValue]
Assignment(flag, value) == [word |-> flag, value |-> value]

IsAssignment(arg) == arg.value # NoValue

IsArgument(arg) ==
    /\ arg = [word |-> arg.word, value |-> arg.value]
    /\ IsAssignment(arg) => arg.word \in ValueFlags

Unparsed ==
    [ended |-> "no", expects |-> NoValue, switches |-> {},
     values |-> [flag \in ValueFlags |-> NoValue]]

Bind(parsed, flag, value) ==
    [parsed EXCEPT !.values[flag] = value, !.expects = NoValue]

(* Mutation: a switch is never taken for a value. *)
ParseArgumentSparingSwitches(cli, parsed, arg) ==
    IF parsed.ended # "no" THEN parsed
    ELSE IF parsed.expects # NoValue /\ arg.word \notin Switches(cli)
    THEN Bind(parsed, parsed.expects, arg)
    ELSE IF IsAssignment(arg) THEN Bind(parsed, arg.word, arg.value)
    ELSE IF arg.word = "--version" THEN [parsed EXCEPT !.ended = "version"]
    ELSE IF arg.word \in Switches(cli)
    THEN [parsed EXCEPT !.switches = @ \cup {arg.word}]
    ELSE IF arg.word \in ValueFlags THEN [parsed EXCEPT !.expects = arg.word]
    ELSE [parsed EXCEPT !.ended = "usage"]

(* One turn of the loop; flagValue takes the next argument whatever it is.   *)
ParseArgument(cli, parsed, arg) ==
    IF parsed.ended # "no" THEN parsed
    ELSE IF parsed.expects # NoValue THEN Bind(parsed, parsed.expects, arg)
    ELSE IF IsAssignment(arg) THEN Bind(parsed, arg.word, arg.value)
    ELSE IF arg.word = "--version" THEN [parsed EXCEPT !.ended = "version"]
    ELSE IF arg.word \in Switches(cli)
    THEN [parsed EXCEPT !.switches = @ \cup {arg.word}]
    ELSE IF arg.word \in ValueFlags THEN [parsed EXCEPT !.expects = arg.word]
    ELSE [parsed EXCEPT !.ended = "usage"]

-------------------------------------------------------------------------------
(* The same, said of the whole command line at once: of a row of value flags *)
(* every second is the value of the one before it.                           *)
IsValue(args, i) ==
    LET isFlag(j) == ~ IsAssignment(args[j]) /\ args[j].word \in ValueFlags
        row == {j \in 1..(i - 1) : \A k \in j..(i - 1) : isFlag(k)}
    IN  Cardinality(row) % 2 = 1

(* The arguments that are read as such, and those of them that end the loop. *)
Read(args) == {i \in DOMAIN args : ~ IsValue(args, i)}

Ends(cli, args) ==
    {i \in Read(args) :
        /\ ~ IsAssignment(args[i])
        /\ \/ args[i].word \notin ValueFlags \cup Switches(cli)
           \/ args[i].word \in ValueFlags /\ i = Len(args)}

LastValue(args, flag) ==
    LET given == {i \in Read(args) : args[i].word = flag}
        last == CHOOSE i \in given : \A j \in given : j <= i
    IN  IF given = {} THEN NoValue
        ELSE IF IsAssignment(args[last]) THEN args[last].value
        ELSE args[last + 1]

Ending(cli, args) ==
    LET first == CHOOSE i \in Ends(cli, args) : \A j \in Ends(cli, args) : i <= j
    IN  IF Ends(cli, args) = {} THEN "no"
        ELSE IF args[first].word = "--version" THEN "version" ELSE "usage"
===============================================================================
