----------------------------- MODULE IntakeProofs -----------------------------
(***************************************************************************)
(* What both CLIs read out of a command line and a manifest, for command   *)
(* lines, paths and manifests of any length.                               *)
(*                                                                         *)
(* The argument loop and the walk along a path are compared with a reading *)
(* of the whole, by induction over the index; the decoder and the schema,  *)
(* field by field.                                                         *)
(***************************************************************************)
EXTENDS Intake, GovernedRegionProofs, FiniteSetTheorems

-------------------------------------------------------------------------------
(* Types.                                                                    *)
LEMMA NextKeepsType == TypeOK /\ [Next]_vars => TypeOK'
  <1> SUFFICES ASSUME TypeOK, [Next]_vars PROVE TypeOK'
    OBVIOUS
  <1> USE DEF TypeOK, Exits
  <1>1. CASE NextArgument
    <2>1. command' = command /\ disk' = disk /\ bindings' = bindings /\ home' = home
      BY <1>1 DEF NextArgument
    <2>2. Len(Args) \in Nat /\ index' \in 1..(Len(Args) + 1)
      BY <1>1 DEF NextArgument, IsCommandLine, IsSequence, Args
    <2>3. IsArgument(Args[index])
      BY <1>1 DEF NextArgument, IsCommandLine, IsSequence, Args
    <2>4. /\ parsed'.ended \in {"no", "version", "usage"}
          /\ parsed'.expects \in ValueFlags \cup {NoValue}
          /\ parsed'.switches \subseteq Switches(command.cli)
          /\ DOMAIN parsed'.values = ValueFlags
      BY <1>1, <2>3 DEF NextArgument, ParseArgument, Bind, IsArgument
    <2>5. /\ stage' \in {"arguments", "ended"} /\ exit' \in Exits
          /\ exit' = NoValue <=> stage' # "ended"
          /\ home = "none"
      BY <1>1, <2>4, NoValueAssumption DEF NextArgument, EndWith
    <2> QED
      BY <2>1, <2>2, <2>4, <2>5 DEF Args
  <1>2. CASE EndOfArguments
    BY <1>2, NoValueAssumption DEF EndOfArguments, EndWith, Args
  <1>3. CASE ReadManifest
    <2>1. stage' = "home" => ValidBindings(bindings')
      BY <1>3 DEF ReadManifest, EndWith, DecodeBindings
    <2> QED
      BY <1>3, <2>1, NoValueAssumption DEF ReadManifest, EndWith, Args
  <1>4. CASE BindHome
    BY <1>4, NoValueAssumption DEF BindHome, EndWith, Args
  <1>5. CASE UNCHANGED vars
    BY <1>5 DEF vars, Args
  <1> QED
    BY <1>1, <1>2, <1>3, <1>4, <1>5 DEF Next

LEMMA InitTyped == Init => TypeOK
  BY NoValueAssumption
     DEF Init, Started, TypeOK, Exits, Unparsed, IsCommandLine, IsSequence, Args

(* Every reachable state is well typed, for every command line and every     *)
(* disk: a process that has no exit code is still reading, and only one past *)
(* the decoder carries a manifest, which is valid (run of both main.go).     *)
THEOREM IntakeTypeCorrect == Spec => []TypeOK
  BY InitTyped, NextKeepsType, PTL DEF Spec

-------------------------------------------------------------------------------
(* The argument loop.                                                        *)
TakesNext(args, i) == ~ IsAssignment(args[i]) /\ args[i].word \in ValueFlags

FlagRow(args, i) == {j \in 1..(i - 1) : \A k \in j..(i - 1) : TakesNext(args, k)}

LEMMA ValueByRow ==
    ASSUME NEW args, NEW i
    PROVE  IsValue(args, i) <=> Cardinality(FlagRow(args, i)) % 2 = 1
  BY DEF IsValue, FlagRow, TakesNext

(* An argument is the value of the one before it, if that is a flag that     *)
(* takes one and is no value itself.                                         *)
LEMMA ValuesAlternate ==
    ASSUME NEW args, NEW i \in Nat \ {0}
    PROVE  IsValue(args, i + 1) <=> TakesNext(args, i) /\ ~ IsValue(args, i)
  <1> DEFINE row == FlagRow(args, i)
             next == FlagRow(args, i + 1)
  <1>1. row \in SUBSET (1..(i - 1)) /\ IsFiniteSet(row)
    <2>1. IsFiniteSet(1..(i - 1))
      BY FS_Interval
    <2>2. row \in SUBSET (1..(i - 1))
      BY DEF FlagRow
    <2> QED
      BY <2>1, <2>2, FS_Subset
  <1>2. Cardinality(row) \in Nat
    BY <1>1, FS_CardinalityType
  <1>3. CASE TakesNext(args, i)
    <2>1. next = row \cup {i}
      BY <1>3 DEF FlagRow
    <2>2. i \notin row
      BY <1>1
    <2>3. Cardinality(next) = Cardinality(row) + 1
      BY <1>1, <2>1, <2>2, FS_AddElement
    <2> HIDE DEF row, next
    <2>4. Cardinality(next) % 2 = 1 <=> ~ (Cardinality(row) % 2 = 1)
      BY <1>2, <2>3
    <2> QED
      BY <1>3, <2>4, ValueByRow DEF row, next
  <1>4. CASE ~ TakesNext(args, i)
    <2>1. next = {}
      BY <1>4 DEF FlagRow
    <2>2. Cardinality(next) = 0
      BY <2>1, FS_EmptySet
    <2> QED
      BY <1>4, <2>2, ValueByRow
  <1> QED
    BY <1>3, <1>4

LEMMA FirstIsNoValue ==
    ASSUME NEW args
    PROVE  ~ IsValue(args, 1)
  <1>1. FlagRow(args, 1) = {}
    BY DEF FlagRow
  <1>2. Cardinality(FlagRow(args, 1)) = 0
    BY <1>1, FS_EmptySet
  <1> QED
    BY <1>2, ValueByRow

(* What the loop has read before the argument n: the argument at which it    *)
(* reads a flag's value last.                                                *)
GivenBefore(args, flag, n) ==
    {i \in Read(args) :
        /\ i < n /\ args[i].word = flag
        /\ IsAssignment(args[i]) \/ i + 1 < n}

ValueAt(args, i) == IF IsAssignment(args[i]) THEN args[i].value ELSE args[i + 1]

CountsLast(args, flag, n, value) ==
    LET given == GivenBefore(args, flag, n)
    IN  \/ given = {} /\ value = NoValue
        \/ \E i \in given : (\A j \in given : j <= i) /\ value = ValueAt(args, i)

Expecting(args, n, expects) ==
    /\ expects # NoValue <=> IsValue(args, n)
    /\ expects # NoValue =>
          /\ n - 1 \in Read(args) /\ TakesNext(args, n - 1)
          /\ expects = args[n - 1].word

NothingEnded(cli, args, n) ==
    \A i \in Read(args) :
        i < n /\ ~ IsAssignment(args[i]) => args[i].word \in ValueFlags \cup Switches(cli)

SwitchesBefore(cli, args, n, switches) ==
    \A switch \in Switches(cli) :
        switch \in switches <=> \E i \in Read(args) : i < n /\ args[i] = Word(switch)

(* What the loop knows is what the arguments before its index say.           *)
LoopInv ==
    stage = "arguments" =>
        /\ parsed.ended = "no"
        /\ Expecting(Args, index, parsed.expects)
        /\ NothingEnded(command.cli, Args, index)
        /\ SwitchesBefore(command.cli, Args, index, parsed.switches)
        /\ \A flag \in ValueFlags :
              CountsLast(Args, flag, index, parsed.values[flag])

(* The argument n, and what it adds to the ones before.                      *)
LEMMA ArgumentRead ==
    ASSUME NEW args, IsSequence(args), NEW n \in 1..Len(args)
    PROVE  \A i : i \in Read(args) /\ i < n + 1 <=>
              (i \in Read(args) /\ i < n) \/ (i = n /\ ~ IsValue(args, n))
  <1>1. Len(args) \in Nat /\ DOMAIN args = 1..Len(args)
    BY DEF IsSequence
  <1>2. Read(args) \subseteq 1..Len(args)
    BY <1>1 DEF Read
  <1> QED
    BY <1>1, <1>2 DEF Read

(* A value: the flag before it is given here, and last.                      *)
LEMMA ValueCounts ==
    ASSUME NEW args, IsSequence(args), NEW n \in 1..Len(args), IsValue(args, n),
           NEW expects, expects # NoValue, Expecting(args, n, expects),
           NEW flag, NEW value, CountsLast(args, flag, n, value)
    PROVE  CountsLast(args, flag, n + 1, IF flag = expects THEN args[n] ELSE value)
  <1> DEFINE before == GivenBefore(args, flag, n)
             after == GivenBefore(args, flag, n + 1)
  <1>1. Len(args) \in Nat /\ DOMAIN args = 1..Len(args)
    BY DEF IsSequence
  <1>2. Read(args) \subseteq 1..Len(args)
    BY <1>1 DEF Read
  <1>3. n - 1 \in Read(args) /\ TakesNext(args, n - 1) /\ expects = args[n - 1].word
    BY DEF Expecting
  <1>4. after = before \cup (IF flag = expects THEN {n - 1} ELSE {})
    BY <1>1, <1>2, <1>3, ArgumentRead DEF GivenBefore, TakesNext
  <1>5. CASE flag = expects
    <2>1. n - 1 \in after /\ \A j \in after : j <= n - 1
      BY <1>2, <1>3, <1>4, <1>5 DEF GivenBefore
    <2>2. ValueAt(args, n - 1) = args[n]
      BY <1>1, <1>2, <1>3 DEF ValueAt, TakesNext
    <2> QED
      BY <1>5, <2>1, <2>2 DEF CountsLast
  <1>6. CASE flag # expects
    BY <1>4, <1>6 DEF CountsLast
  <1> QED
    BY <1>5, <1>6

(* An argument that is no value: only an assignment gives anything here.     *)
LEMMA AssignmentCounts ==
    ASSUME NEW args, IsSequence(args), NEW n \in 1..Len(args), ~ IsValue(args, n),
           NEW flag \in ValueFlags, NEW value, CountsLast(args, flag, n, value)
    PROVE  CountsLast(args, flag, n + 1,
                      IF IsAssignment(args[n]) /\ args[n].word = flag
                      THEN args[n].value ELSE value)
  <1> DEFINE before == GivenBefore(args, flag, n)
             after == GivenBefore(args, flag, n + 1)
             counts == IsAssignment(args[n]) /\ args[n].word = flag
  <1>1. Len(args) \in Nat /\ DOMAIN args = 1..Len(args)
    BY DEF IsSequence
  <1>2. Read(args) \subseteq 1..Len(args)
    BY <1>1 DEF Read
  <1>3. \A i \in Read(args) :
           i < n /\ args[i].word = flag /\ ~ IsAssignment(args[i]) => i + 1 < n
    BY <1>2, ValuesAlternate DEF TakesNext, Read
  <1>4. after = before \cup (IF counts THEN {n} ELSE {})
    BY <1>1, <1>2, <1>3, ArgumentRead DEF GivenBefore
  <1>5. CASE counts
    <2>1. n \in after /\ \A j \in after : j <= n
      BY <1>2, <1>4, <1>5 DEF GivenBefore
    <2>2. ValueAt(args, n) = args[n].value
      BY <1>5 DEF ValueAt
    <2> QED
      BY <1>5, <2>1, <2>2 DEF CountsLast
  <1>6. CASE ~ counts
    BY <1>4, <1>6 DEF CountsLast
  <1> QED
    BY <1>5, <1>6

(* Values and assignments end nothing and set no switch.                     *)
LEMMA NothingElse ==
    ASSUME NEW cli, NEW args, IsSequence(args), NEW n \in 1..Len(args),
           IsValue(args, n) \/ IsAssignment(args[n]),
           NothingEnded(cli, args, n),
           NEW switches, SwitchesBefore(cli, args, n, switches)
    PROVE  NothingEnded(cli, args, n + 1) /\ SwitchesBefore(cli, args, n + 1, switches)
  <1>1. \A switch : args[n] = Word(switch) => ~ IsAssignment(args[n])
    BY DEF Word, IsAssignment
  <1> QED
    BY <1>1, ArgumentRead DEF NothingEnded, SwitchesBefore

(* One turn of the loop that goes on.                                        *)
LEMMA ArgumentKeepsLoop ==
    ASSUME TypeOK, LoopInv, NextArgument, stage' = "arguments"
    PROVE  LoopInv'
  <1> DEFINE cli == command.cli
             args == Args
             n == index
             arg == args[n]
             next == ParseArgument(cli, parsed, arg)
  <1>1. /\ IsSequence(args) /\ n \in 1..Len(args) /\ Len(args) \in Nat
        /\ IsArgument(arg) /\ DOMAIN args = 1..Len(args)
    BY DEF TypeOK, NextArgument, IsCommandLine, IsSequence, Args
  <1>2. /\ parsed' = next /\ index' = n + 1 /\ command' = command /\ Args' = args
        /\ next.ended = "no"
    <2>1. /\ parsed' = next /\ index' = n + 1 /\ command' = command
          /\ parsed'.ended = "version" => stage' = "ended"
          /\ parsed'.ended = "usage" => stage' = "ended"
      BY DEF NextArgument, EndWith
    <2>2. parsed.ended \in {"no", "version", "usage"}
      BY DEF TypeOK
    <2>3. next.ended \in {"no", "version", "usage"}
      BY <2>2 DEF ParseArgument, Bind
    <2> QED
      BY <2>1, <2>3 DEF Args
  <1>3. /\ parsed.ended = "no" /\ stage = "arguments"
        /\ Expecting(args, n, parsed.expects)
        /\ NothingEnded(cli, args, n)
        /\ SwitchesBefore(cli, args, n, parsed.switches)
        /\ \A flag \in ValueFlags : CountsLast(args, flag, n, parsed.values[flag])
    BY DEF LoopInv, NextArgument
  <1>4. DOMAIN parsed.values = ValueFlags
    BY DEF TypeOK
  <1> SUFFICES /\ Expecting(args, n + 1, next.expects)
               /\ NothingEnded(cli, args, n + 1)
               /\ SwitchesBefore(cli, args, n + 1, next.switches)
               /\ \A flag \in ValueFlags :
                     CountsLast(args, flag, n + 1, next.values[flag])
    BY <1>2 DEF LoopInv
  <1>5. IsValue(args, n + 1) <=> TakesNext(args, n) /\ ~ IsValue(args, n)
    BY <1>1, ValuesAlternate
  <1>6. CASE parsed.expects # NoValue
    <2>1. IsValue(args, n)
      BY <1>3, <1>6 DEF Expecting
    <2>2. next = Bind(parsed, parsed.expects, arg)
      BY <1>3, <1>6 DEF ParseArgument
    <2>3. /\ next.expects = NoValue /\ next.switches = parsed.switches
          /\ \A flag \in ValueFlags :
                next.values[flag] = IF flag = parsed.expects THEN arg ELSE parsed.values[flag]
      BY <1>4, <2>2 DEF Bind
    <2>4. Expecting(args, n + 1, next.expects)
      BY <1>5, <2>1, <2>3 DEF Expecting
    <2>5. NothingEnded(cli, args, n + 1) /\ SwitchesBefore(cli, args, n + 1, next.switches)
      BY <1>1, <1>3, <2>1, <2>3, NothingElse
    <2>6. \A flag \in ValueFlags : CountsLast(args, flag, n + 1, next.values[flag])
      BY <1>1, <1>3, <1>6, <2>1, <2>3, ValueCounts
    <2> QED
      BY <2>4, <2>5, <2>6
  <1>7. CASE parsed.expects = NoValue
    <2>1. ~ IsValue(args, n)
      BY <1>3, <1>7 DEF Expecting
    <2>2. CASE IsAssignment(arg)
      <3>1. next = Bind(parsed, arg.word, arg.value)
        BY <1>3, <1>7, <2>2 DEF ParseArgument
      <3>2. /\ next.expects = NoValue /\ next.switches = parsed.switches
            /\ \A flag \in ValueFlags :
                  next.values[flag]
                    = IF IsAssignment(arg) /\ arg.word = flag THEN arg.value
                      ELSE parsed.values[flag]
        BY <1>1, <1>4, <2>2, <3>1 DEF Bind
      <3>3. Expecting(args, n + 1, next.expects)
        BY <1>5, <2>2, <3>2 DEF Expecting, TakesNext
      <3>4. NothingEnded(cli, args, n + 1) /\ SwitchesBefore(cli, args, n + 1, next.switches)
        BY <1>1, <1>3, <2>2, <3>2, NothingElse
      <3>5. \A flag \in ValueFlags : CountsLast(args, flag, n + 1, next.values[flag])
        BY <1>1, <1>3, <2>1, <3>2, AssignmentCounts
      <3> QED
        BY <3>3, <3>4, <3>5
    <2>3. CASE ~ IsAssignment(arg)
      <3>1. /\ next.values = parsed.values
            /\ arg.word \in Switches(cli) \cup ValueFlags
            /\ next.switches = IF arg.word \in Switches(cli)
                               THEN parsed.switches \cup {arg.word} ELSE parsed.switches
            /\ next.expects = IF arg.word \in Switches(cli) THEN NoValue ELSE arg.word
        BY <1>2, <1>3, <1>7, <2>3 DEF ParseArgument
      <3>2. Switches(cli) \cap ValueFlags = {}
        BY DEF Switches, ValueFlags
      <3>3. Expecting(args, n + 1, next.expects)
        BY <1>1, <1>5, <2>1, <2>3, <3>1, <3>2, NoValueAssumption
           DEF Expecting, TakesNext, Read
      <3>4. NothingEnded(cli, args, n + 1)
        BY <1>1, <1>3, <3>1, ArgumentRead DEF NothingEnded
      <3>5. \A switch : args[n] = Word(switch) <=> arg.word = switch
        BY <1>1, <2>3 DEF Word, IsArgument, IsAssignment
      <3>6. SwitchesBefore(cli, args, n + 1, next.switches)
        BY <1>1, <1>3, <2>1, <3>1, <3>5, ArgumentRead DEF SwitchesBefore
      <3>7. \A flag \in ValueFlags : CountsLast(args, flag, n + 1, next.values[flag])
        BY <1>1, <1>3, <2>1, <2>3, <3>1, AssignmentCounts
      <3> QED
        BY <3>3, <3>4, <3>6, <3>7
    <2> QED
      BY <2>2, <2>3
  <1> QED
    BY <1>6, <1>7

(* The loop ends at the first argument that ends it.                         *)
LEMMA FirstEnding ==
    ASSUME NEW cli, NEW args, IsSequence(args), NEW n \in Ends(cli, args),
           \A i \in Ends(cli, args) : n <= i
    PROVE  Ending(cli, args) = IF args[n].word = "--version" THEN "version" ELSE "usage"
  <1> DEFINE first == CHOOSE i \in Ends(cli, args) : \A j \in Ends(cli, args) : i <= j
  <1>1. Ends(cli, args) \subseteq Nat
    BY DEF Ends, Read, IsSequence
  <1>2. first \in Ends(cli, args) /\ \A j \in Ends(cli, args) : first <= j
    OBVIOUS
  <1>3. first = n
    BY <1>1, <1>2
  <1> QED
    BY <1>3 DEF Ending

(* What the loop knows at the end is what the whole command line says.       *)
LEMMA WholeLineCounts ==
    ASSUME NEW args, IsSequence(args), NEW flag \in ValueFlags, NEW value,
           ~ IsValue(args, Len(args) + 1), CountsLast(args, flag, Len(args) + 1, value)
    PROVE  value = LastValue(args, flag)
  <1> DEFINE given == {i \in Read(args) : args[i].word = flag}
             last == CHOOSE i \in given : \A j \in given : j <= i
  <1>1. Len(args) \in Nat /\ DOMAIN args = 1..Len(args) /\ Read(args) \subseteq 1..Len(args)
    BY DEF IsSequence, Read
  <1>2. \A i \in given : ~ IsAssignment(args[i]) => i + 1 < Len(args) + 1
    BY <1>1, ValuesAlternate DEF TakesNext, Read
  <1>3. GivenBefore(args, flag, Len(args) + 1) = given
    BY <1>1, <1>2 DEF GivenBefore
  <1>4. CASE given = {}
    BY <1>3, <1>4 DEF CountsLast, LastValue
  <1>5. CASE given # {}
    <2>1. PICK i \in given : (\A j \in given : j <= i) /\ value = ValueAt(args, i)
      BY <1>3, <1>5 DEF CountsLast
    <2>2. last = i
      BY <1>1, <2>1
    <2> QED
      BY <1>5, <2>1, <2>2 DEF ValueAt, LastValue
  <1> QED
    BY <1>4, <1>5

(* An argument that ends the loop is the first that does.                    *)
LEMMA ArgumentEnds ==
    ASSUME TypeOK, LoopInv, NextArgument, stage' = "ended"
    PROVE  Ending(command.cli, Args) = (IF exit' = 0 THEN "version" ELSE "usage")
           /\ exit' \in {0, 2}
  <1> DEFINE cli == command.cli
             args == Args
             n == index
             arg == args[n]
             next == ParseArgument(cli, parsed, arg)
  <1>1. /\ IsSequence(args) /\ n \in 1..Len(args) /\ Len(args) \in Nat
        /\ IsArgument(arg) /\ DOMAIN args = 1..Len(args)
    BY DEF TypeOK, NextArgument, IsCommandLine, IsSequence, Args
  <1>2. /\ parsed.ended = "no" /\ stage = "arguments"
        /\ Expecting(args, n, parsed.expects) /\ NothingEnded(cli, args, n)
    BY DEF LoopInv, NextArgument
  <1>3. next.ended \in {"no", "version", "usage"}
    BY <1>2 DEF ParseArgument, Bind
  <1>4. /\ next.ended = "version" => exit' = 0
        /\ next.ended = "usage" => exit' = 2
        /\ next.ended # "no"
    BY <1>2, <1>3 DEF NextArgument, EndWith
  <1>5. /\ parsed.expects = NoValue /\ ~ IsAssignment(arg)
        /\ arg.word \notin ValueFlags \cup Switches(cli)
        /\ next.ended = IF arg.word = "--version" THEN "version" ELSE "usage"
    BY <1>2, <1>4 DEF ParseArgument, Bind, ValueFlags, Switches
  <1>6. n \in Ends(cli, args)
    BY <1>1, <1>2, <1>5 DEF Ends, Read, Expecting
  <1>7. \A i \in Ends(cli, args) : n <= i
    BY <1>1, <1>2 DEF Ends, Read, NothingEnded, Switches, ValueFlags
  <1>8. Ending(cli, args) = IF arg.word = "--version" THEN "version" ELSE "usage"
    BY <1>1, <1>6, <1>7, FirstEnding
  <1> QED
    BY <1>3, <1>4, <1>5, <1>8

LEMMA EndIsSaid ==
    ASSUME TypeOK, LoopInv, EndOfArguments
    PROVE  ArgumentsPlayOneRole'
  <1> DEFINE cli == command.cli
             args == Args
  <1>1. /\ IsSequence(args) /\ index = Len(args) + 1 /\ Len(args) \in Nat
        /\ \A i \in DOMAIN args : IsArgument(args[i])
        /\ DOMAIN args = 1..Len(args) /\ Read(args) \subseteq 1..Len(args)
    BY DEF TypeOK, EndOfArguments, IsCommandLine, IsSequence, Args, Read
  <1>2. /\ parsed.ended = "no" /\ stage = "arguments"
        /\ Expecting(args, index, parsed.expects) /\ NothingEnded(cli, args, index)
        /\ SwitchesBefore(cli, args, index, parsed.switches)
        /\ \A flag \in ValueFlags : CountsLast(args, flag, index, parsed.values[flag])
    BY DEF LoopInv, EndOfArguments
  <1>3. Args' = args /\ command' = command /\ parsed' = parsed
    BY DEF EndOfArguments, Args
  <1>4. \A i \in Ends(cli, args) : i = Len(args) /\ args[i].word \in ValueFlags
                                     /\ ~ IsAssignment(args[i])
    BY <1>1, <1>2 DEF Ends, NothingEnded
  <1>5. CASE parsed.expects # NoValue
    <2>1. Len(args) \in Read(args) /\ TakesNext(args, Len(args))
      BY <1>1, <1>2, <1>5 DEF Expecting
    <2>2. Len(args) \in Ends(cli, args) /\ args[Len(args)].word # "--version"
      BY <2>1 DEF Ends, TakesNext, ValueFlags
    <2>3. Ending(cli, args) = "usage"
      BY <1>1, <1>4, <2>2, FirstEnding
    <2>4. stage' = "ended" /\ exit' = 2
      BY <1>5 DEF EndOfArguments, EndWith
    <2> QED
      BY <1>3, <2>3, <2>4 DEF ArgumentsPlayOneRole
  <1>6. CASE parsed.expects = NoValue
    <2>1. ~ IsValue(args, Len(args) + 1)
      BY <1>1, <1>2, <1>6 DEF Expecting
    <2>2. Ends(cli, args) = {}
      BY <1>1, <1>4, <2>1, ValuesAlternate DEF Ends, TakesNext, Read
    <2>3. Ending(cli, args) = "no"
      BY <2>2 DEF Ending
    <2>4. \A switch \in Switches(cli) :
             switch \in parsed.switches <=> \E i \in Read(args) : args[i] = Word(switch)
      BY <1>1, <1>2 DEF SwitchesBefore
    <2>5. \A flag \in ValueFlags : parsed.values[flag] = LastValue(args, flag)
      BY <1>1, <1>2, <2>1, WholeLineCounts
    <2>6. stage' = "manifest"
      BY <1>6 DEF EndOfArguments
    <2> QED
      BY <1>3, <2>3, <2>4, <2>5, <2>6 DEF ArgumentsPlayOneRole
  <1> QED
    BY <1>5, <1>6

LEMMA NextKeepsRoles ==
    TypeOK /\ LoopInv /\ ArgumentsPlayOneRole /\ [Next]_vars
    => LoopInv' /\ ArgumentsPlayOneRole'
  <1> SUFFICES ASSUME TypeOK, LoopInv, ArgumentsPlayOneRole, [Next]_vars
               PROVE  LoopInv' /\ ArgumentsPlayOneRole'
    OBVIOUS
  <1>1. CASE NextArgument
    <2>1. Args' = Args /\ command' = command /\ stage' \in {"arguments", "ended"}
      BY <1>1 DEF NextArgument, EndWith, Args
    <2>2. CASE stage' = "arguments"
      BY <1>1, <2>2, ArgumentKeepsLoop DEF ArgumentsPlayOneRole
    <2>3. CASE stage' = "ended"
      BY <1>1, <2>1, <2>3, ArgumentEnds DEF ArgumentsPlayOneRole, LoopInv
    <2> QED
      BY <2>1, <2>2, <2>3
  <1>2. CASE EndOfArguments
    <2>1. LoopInv'
      BY <1>2 DEF EndOfArguments, EndWith, LoopInv
    <2> QED
      BY <1>2, <2>1, EndIsSaid
  <1>3. CASE ReadManifest
    BY <1>3 DEF ReadManifest, EndWith, LoopInv, ArgumentsPlayOneRole, Args
  <1>4. CASE BindHome
    BY <1>4 DEF BindHome, EndWith, LoopInv, ArgumentsPlayOneRole, Args
  <1>5. CASE UNCHANGED vars
    BY <1>5 DEF vars, LoopInv, ArgumentsPlayOneRole, Args
  <1> QED
    BY <1>1, <1>2, <1>3, <1>4, <1>5 DEF Next

LEMMA InitRoles == Init => LoopInv /\ ArgumentsPlayOneRole
  <1> SUFFICES ASSUME Init PROVE LoopInv /\ ArgumentsPlayOneRole
    OBVIOUS
  <1>1. stage = "arguments" /\ index = 1 /\ parsed = Unparsed
    BY DEF Init, Started
  <1>2. Expecting(Args, 1, NoValue)
    BY FirstIsNoValue DEF Expecting
  <1>3. Read(Args) \subseteq Nat \ {0}
    BY DEF Init, IsCommandLine, IsSequence, Read, Args
  <1>4. \A flag : GivenBefore(Args, flag, 1) = {}
    BY <1>3 DEF GivenBefore
  <1> QED
    BY <1>1, <1>2, <1>3, <1>4
       DEF LoopInv, ArgumentsPlayOneRole, NothingEnded, SwitchesBefore, CountsLast, Unparsed

(* Whatever the command line, its arguments play the one role the whole of   *)
(* it gives them, although the loop sees one at a time (the loops of both    *)
(* main.go, and flagValue): it ends early exactly at the first argument that *)
(* ends it, sets the switches that are no values, and keeps last values.     *)
THEOREM ArgumentsAreRead == Spec => []ArgumentsPlayOneRole
  <1>1. Init => TypeOK /\ LoopInv /\ ArgumentsPlayOneRole
    BY InitTyped, InitRoles
  <1>2. TypeOK /\ LoopInv /\ ArgumentsPlayOneRole /\ [Next]_vars
        => (TypeOK /\ LoopInv /\ ArgumentsPlayOneRole)'
    BY NextKeepsType, NextKeepsRoles
  <1> QED
    BY <1>1, <1>2, PTL DEF Spec

-------------------------------------------------------------------------------
(* The paths.                                                                *)
At(path, i) == IF i > Len(path) THEN Slash ELSE path[i]

IsWalk(walk, path) ==
    walk = [i \in 0..(Len(path) + 1) |->
               IF i = 0 THEN [segment |-> <<>>, depth |-> 0, escaped |-> FALSE]
               ELSE Descend(walk[i - 1], At(path, i))]

(* The walk along a path of any length is there.                             *)
LEMMA PathIsWalked ==
    ASSUME NEW path, IsSequence(path)
    PROVE  \E walk : IsWalk(walk, path)
  <1> DEFINE n == Len(path) + 1
             Chars == {path[i] : i \in DOMAIN path}
             S == [segment : Seq(Chars), depth : Int, escaped : BOOLEAN]
             start == [segment |-> <<>>, depth |-> 0, escaped |-> FALSE]
             step == [i \in 1..n |-> [walk \in S |-> Descend(walk, At(path, i))]]
  <1>1. n \in Nat /\ Len(path) \in Nat /\ DOMAIN path = 1..Len(path)
    BY DEF IsSequence
  <1>2. start \in S
    OBVIOUS
  <1>3. ASSUME NEW i \in 1..n, NEW walk \in S
        PROVE  Descend(walk, At(path, i)) \in S
    <2>1. CASE At(path, i) # Slash
      <3>1. i \in 1..Len(path) /\ At(path, i) \in Chars
        BY <1>1, <2>1 DEF At
      <3>2. Append(walk.segment, At(path, i)) \in Seq(Chars)
        BY <3>1
      <3> QED
        BY <2>1, <3>2 DEF Descend
    <2>2. CASE At(path, i) = Slash
      BY <2>2 DEF Descend
    <2> QED
      BY <2>1, <2>2
  <1>4. step \in [1..n -> [S -> S]]
    BY <1>3
  <1>5. PICK walk \in [0..n -> S] :
           walk[0] = start /\ \A i \in 1..n : walk[i] = step[i][walk[i - 1]]
    <2>1. start \in S /\ n \in Nat /\ step \in [1..n -> [S -> S]]
      BY <1>1, <1>2, <1>4
    <2> HIDE DEF step, n, start, S
    <2> QED
      BY <2>1, LoopRuns
  <1>6. \A i \in 1..n : walk[i] = Descend(walk[i - 1], At(path, i))
    <2>1. \A i \in 1..n : i - 1 \in 0..n
      BY <1>1
    <2> HIDE DEF n, S
    <2> QED
      BY <1>5, <2>1
  <1>7. \A i \in 0..n : i = 0 \/ i \in 1..n
    BY <1>1
  <1>8. walk = [i \in 0..n |->
                  IF i = 0 THEN start ELSE Descend(walk[i - 1], At(path, i))]
    <2> HIDE DEF start, S, step, n
    <2> QED
      BY <1>5, <1>6, <1>7
  <1> QED
    BY <1>8 DEF IsWalk

(* Where the segment before i begins: after the last slash.                  *)
Begins(path, i, m) ==
    /\ m \in 0..i /\ (m = 0 \/ path[m] = Slash)
    /\ \A k \in (m + 1)..i : path[k] # Slash

(* What splitPath takes out before an end.                                   *)
LEMMA SegmentIsSplit ==
    ASSUME NEW path, IsSequence(path), NEW i \in 0..Len(path),
           At(path, i + 1) = Slash, NEW m, Begins(path, i, m)
    PROVE  SubSeq(path, m + 1, i) \in SplitPath(path)
  <1> DEFINE ends == {e \in 1..(Len(path) + 1) : e = Len(path) + 1 \/ path[e] = Slash}
             before == {0} \cup {e \in ends : e < i + 1}
  <1>1. Len(path) \in Nat
    BY DEF IsSequence
  <1>2. i + 1 \in ends
    BY <1>1 DEF At
  <1>3. m \in before /\ \A e \in before : m >= e
    BY <1>1 DEF Begins
  <1>4. before \subseteq Nat
    OBVIOUS
  <1>5. Max(before) = m
    <2> DEFINE top == CHOOSE x \in before : \A y \in before : x >= y
    <2> HIDE DEF before
    <2>1. top \in before /\ \A y \in before : top >= y
      BY <1>3
    <2>2. top >= m /\ m >= top /\ m \in Nat /\ top \in Nat
      BY <1>3, <1>4, <2>1
    <2>3. top = m
      <3> HIDE DEF top
      <3> QED
        BY <2>2
    <2> QED
      BY <2>3 DEF Max
  <1>6. Segment(path, i + 1, ends) = SubSeq(path, m + 1, i)
    <2>1. 1 + m = m + 1 /\ (i + 1) - 1 = i
      BY <1>1 DEF Begins
    <2> QED
      BY <1>5, <2>1 DEF Segment
  <1> QED
    BY <1>2, <1>6 DEF SplitPath

LEMMA SegmentGrows ==
    ASSUME NEW S, NEW path \in Seq(S), NEW i \in 0..(Len(path) - 1), NEW m \in 0..i
    PROVE  Append(SubSeq(path, m + 1, i), path[i + 1]) = SubSeq(path, m + 1, i + 1)
  <1> DEFINE short == SubSeq(path, m + 1, i)
             long == SubSeq(path, m + 1, i + 1)
  <1>1. Len(path) \in Nat /\ \A k \in 1..(i + 1) : path[k] \in S
    BY LenProperties
  <1>2. /\ short \in Seq(S) /\ Len(short) = i - m
        /\ \A k \in 1..(i - m) : short[k] = path[m + k]
    BY <1>1, SubSeqProperties
  <1>3. /\ long \in Seq(S) /\ Len(long) = i + 1 - m
        /\ \A k \in 1..(i + 1 - m) : long[k] = path[m + k]
    BY <1>1, SubSeqProperties
  <1>4. path[i + 1] \in S /\ m + (i + 1 - m) = i + 1
    BY <1>1
  <1> HIDE DEF short, long
  <1>5. /\ Append(short, path[i + 1]) \in Seq(S)
        /\ Len(Append(short, path[i + 1])) = i + 1 - m
        /\ \A k \in 1..(i - m) : Append(short, path[i + 1])[k] = short[k]
        /\ Append(short, path[i + 1])[i + 1 - m] = path[i + 1]
    BY <1>2, <1>4
  <1>6. \A k \in 1..(i + 1 - m) : Append(short, path[i + 1])[k] = long[k]
    <2>1. \A k \in 1..(i + 1 - m) : k \in 1..(i - m) \/ k = i + 1 - m
      OBVIOUS
    <2> QED
      BY <1>2, <1>3, <1>4, <1>5, <2>1
  <1> QED
    BY <1>3, <1>5, <1>6, SeqEqual DEF short, long

(* What a character does to the walk.                                        *)
Walked(segment, depth) == [segment |-> segment, depth |-> depth, escaped |-> FALSE]

LEMMA DescendAlong ==
    ASSUME NEW segment, NEW depth \in Nat, NEW char
    PROVE  /\ char # Slash =>
                 Descend(Walked(segment, depth), char) = Walked(Append(segment, char), depth)
           /\ char = Slash /\ segment # <<Dot, Dot>> =>
                 \E deeper \in Nat :
                    Descend(Walked(segment, depth), char) = Walked(<<>>, deeper)
  <1>1. CASE char # Slash
    BY <1>1 DEF Descend, Walked
  <1>2. CASE char = Slash /\ segment # <<Dot, Dot>>
    <2>1. Descend(Walked(segment, depth), char)
            = Walked(<<>>, IF segment \in {<<>>, <<Dot>>} THEN depth ELSE depth + 1)
      BY <1>2 DEF Descend, Walked
    <2> QED
      BY <1>2, <2>1
  <1> QED
    BY <1>1, <1>2

LEMMA WalkSteps ==
    ASSUME NEW path, IsSequence(path), NEW walk, IsWalk(walk, path)
    PROVE  /\ walk[0] = Walked(<<>>, 0)
           /\ \A i \in 0..Len(path) : walk[i + 1] = Descend(walk[i], At(path, i + 1))
  <1>1. Len(path) \in Nat
    BY DEF IsSequence
  <1>2. \A i \in 0..(Len(path) + 1) :
           walk[i] = IF i = 0 THEN Walked(<<>>, 0) ELSE Descend(walk[i - 1], At(path, i))
    BY DEF IsWalk, Walked
  <1>3. 0 \in 0..(Len(path) + 1)
    BY <1>1
  <1>4. \A i \in 0..Len(path) :
           i + 1 \in 0..(Len(path) + 1) /\ i + 1 # 0 /\ (i + 1) - 1 = i
    BY <1>1
  <1> QED
    BY <1>2, <1>3, <1>4

(* The walk before the character i + 1: below the root, and in the segment   *)
(* that follows the last slash.                                              *)
WalkInv(walk, path, i) ==
    \E m \in 0..i : Begins(path, i, m)
        /\ \E depth \in Nat : walk[i] = Walked(SubSeq(path, m + 1, i), depth)

LEMMA WalkStaysBelow ==
    ASSUME NEW path, IsSequence(path), ValidManifestPath(path),
           NEW walk, IsWalk(walk, path), NEW i \in 0..Len(path), WalkInv(walk, path, i)
    PROVE  /\ At(path, i + 1) = Slash =>
                 \E depth \in Nat : walk[i + 1] = Walked(<<>>, depth)
           /\ i < Len(path) => WalkInv(walk, path, i + 1)
  <1>1. Len(path) \in Nat /\ path \in Seq({path[k] : k \in 1..Len(path)})
    BY DEF IsSequence
  <1>2. walk[i + 1] = Descend(walk[i], At(path, i + 1))
    BY WalkSteps
  <1>3. PICK m \in 0..i : Begins(path, i, m)
           /\ \E depth \in Nat : walk[i] = Walked(SubSeq(path, m + 1, i), depth)
    BY DEF WalkInv
  <1>4. PICK depth \in Nat : walk[i] = Walked(SubSeq(path, m + 1, i), depth)
    BY <1>3
  <1> DEFINE segment == SubSeq(path, m + 1, i)
             char == At(path, i + 1)
  <1>5. /\ char # Slash => walk[i + 1] = Walked(Append(segment, char), depth)
        /\ char = Slash /\ segment # <<Dot, Dot>> =>
              \E deeper \in Nat : walk[i + 1] = Walked(<<>>, deeper)
    <2>1. walk[i + 1] = Descend(Walked(segment, depth), char)
      BY <1>2, <1>4
    <2> HIDE DEF segment, char
    <2>2. /\ char # Slash =>
                Descend(Walked(segment, depth), char) = Walked(Append(segment, char), depth)
          /\ char = Slash /\ segment # <<Dot, Dot>> =>
                \E deeper \in Nat :
                   Descend(Walked(segment, depth), char) = Walked(<<>>, deeper)
      BY DescendAlong
    <2> QED
      BY <2>1, <2>2
  <1>6. CASE At(path, i + 1) = Slash
    <2>1. SubSeq(path, m + 1, i) \in SplitPath(path)
      BY <1>3, <1>6, SegmentIsSplit
    <2>2. SubSeq(path, m + 1, i) # <<Dot, Dot>>
      BY <2>1 DEF ValidManifestPath
    <2>3. PICK deeper \in Nat : walk[i + 1] = Walked(<<>>, deeper)
      BY <1>6, <1>5, <2>2
    <2>4. ASSUME i < Len(path) PROVE WalkInv(walk, path, i + 1)
      <3>1. SubSeq(path, (i + 1) + 1, i + 1) = <<>>
        BY <1>1, SubSeqEmpty
      <3>2. path[i + 1] = Slash /\ i + 1 \in 0..(i + 1)
        BY <1>1, <1>6, <2>4 DEF At
      <3>3. Begins(path, i + 1, i + 1)
        BY <1>1, <3>2 DEF Begins
      <3> QED
        BY <2>3, <3>1, <3>2, <3>3 DEF WalkInv
    <2> QED
      BY <2>3, <2>4
  <1>7. CASE At(path, i + 1) # Slash
    <2>1. i + 1 \in 1..Len(path) /\ At(path, i + 1) = path[i + 1]
      BY <1>1, <1>7 DEF At
    <2>2. Begins(path, i + 1, m) /\ m \in 0..(i + 1)
      BY <1>3, <1>7, <2>1 DEF Begins
    <2>3. Append(SubSeq(path, m + 1, i), path[i + 1]) = SubSeq(path, m + 1, i + 1)
      BY <1>1, <2>1, SegmentGrows
    <2>4. walk[i + 1] = Walked(SubSeq(path, m + 1, i + 1), depth)
      BY <1>7, <1>5, <2>1, <2>3
    <2> QED
      BY <1>7, <2>2, <2>4 DEF WalkInv
  <1> QED
    BY <1>6, <1>7

(* No segment of a valid path goes up, so no step of the walk does.          *)
LEMMA ValidPathsStayBelow ==
    ASSUME NEW path, IsSequence(path), ValidManifestPath(path)
    PROVE  StaysBelow(path)
  <1> DEFINE n == Len(path)
             walk == CHOOSE w : IsWalk(w, path)
             Good == {i \in 0..n : WalkInv(walk, path, i)}
  <1>1. n \in Nat
    BY DEF IsSequence
  <1>2. IsWalk(walk, path)
    BY PathIsWalked
  <1>3. StaysBelow(path) <=> ~ walk[n + 1].escaped
    BY DEF StaysBelow, IsWalk, At
  <1> HIDE DEF walk
  <1>4. 0 \in Good
    <2>1. SubSeq(path, 0 + 1, 0) = <<>>
      BY SubSeqEmpty
    <2>2. Begins(path, 0, 0) /\ 0 \in 0..0 /\ 0 \in 0..n
      BY <1>1 DEF Begins
    <2>3. walk[0] = Walked(<<>>, 0)
      BY <1>2, WalkSteps
    <2> QED
      BY <2>1, <2>2, <2>3 DEF WalkInv
  <1>5. \A i \in 0..(n - 1) : i \in Good => i + 1 \in Good
    <2> SUFFICES ASSUME NEW i \in 0..(n - 1), i \in Good PROVE i + 1 \in Good
      OBVIOUS
    <2>1. i \in 0..n /\ i < n /\ i + 1 \in 0..n /\ WalkInv(walk, path, i)
      BY <1>1
    <2> QED
      BY <1>2, <2>1, WalkStaysBelow
  <1>6. n \in Good
    <2> HIDE DEF Good
    <2>1. 0..n \subseteq Good
      BY <1>1, <1>4, <1>5, UpTo
    <2> QED
      BY <1>1, <2>1
  <1>7. At(path, n + 1) = Slash /\ n \in 0..n
    BY <1>1 DEF At
  <1>8. \E depth \in Nat : walk[n + 1] = Walked(<<>>, depth)
    BY <1>2, <1>6, <1>7, WalkStaysBelow
  <1> QED
    BY <1>3, <1>8 DEF Walked

LEMMA ManifestPathsStayInside ==
    ASSUME NEW path \in ManifestPaths
    PROVE  StaysInside(path)
  <1>1. IsSequence(path) /\ ValidManifestPath(path)
    BY PathsAssumption
  <1>2. StaysBelow(path)
    BY <1>1, ValidPathsStayBelow
  <1> QED
    BY <1>1, <1>2 DEF StaysInside, ValidManifestPath

(* A manifest that is decoded is the one in the document.                    *)
DecodedInv ==
    stage \in {"home", "admitted"} =>
        Document # Absent /\ DecodeBindings(Document) /\ bindings = Decoded(Document)

LEMMA NextKeepsDecoded == DecodedInv /\ [Next]_vars => DecodedInv'
  <1> SUFFICES ASSUME DecodedInv, [Next]_vars PROVE DecodedInv'
    OBVIOUS
  <1>1. CASE NextArgument \/ EndOfArguments
    BY <1>1 DEF NextArgument, EndOfArguments, EndWith, DecodedInv
  <1>2. CASE ReadManifest
    <2>1. Document' = Document
      BY <1>2 DEF ReadManifest, Document, Root
    <2> QED
      BY <1>2, <2>1 DEF ReadManifest, EndWith, DecodedInv
  <1>3. CASE BindHome
    <2>1. Document' = Document
      BY <1>3 DEF BindHome, Document, Root
    <2> QED
      BY <1>3, <2>1 DEF BindHome, EndWith, DecodedInv
  <1>4. CASE UNCHANGED vars
    <2>1. Document' = Document
      BY <1>4 DEF vars, Document, Root
    <2> QED
      BY <1>4, <2>1 DEF vars, DecodedInv
  <1> QED
    BY <1>1, <1>2, <1>3, <1>4 DEF Next

LEMMA InitDecoded == Init => DecodedInv
  BY DEF Init, Started, DecodedInv

LEMMA FilesOfDecoded ==
    ASSUME NEW doc
    PROVE  DOMAIN Decoded(doc).files = {"lefthook", "gitattributes", "dependabot", "gitignore"}
  BY DEF Decoded

LEMMA BoundPathsAreManifestPaths ==
    ASSUME NEW doc, DecodeBindings(doc)
    PROVE  LET b == Decoded(doc)
           IN  {b.codeowners.path, b.quality.config, b.tools.module}
                  \cup {b.files[t].path : t \in DOMAIN b.files}
                  \cup Range(ConventionsPaths(b)) \subseteq ManifestPaths
  <1> DEFINE b == Decoded(doc)
  <1>1. ValidBindings(b)
    BY DEF DecodeBindings
  <1>2. DOMAIN b.files = {"lefthook", "gitattributes", "dependabot", "gitignore"}
    BY FilesOfDecoded
  <1> HIDE DEF b
  <1>3. \A t \in DOMAIN b.files : b.files[t].path \in ManifestPaths
    BY <1>1, <1>2 DEF ValidBindings, ValidFiles, FileTopics
  <1>4. Range(ConventionsPaths(b)) \subseteq ManifestPaths
    BY <1>1 DEF ValidBindings, ValidConventions, ConventionsPaths, Range
  <1>5. QED
    BY <1>1, <1>3, <1>4 DEF ValidBindings, b

(* Every path a decoded manifest binds leads to a place below the root it is *)
(* joined to, however long it is (validateManifestPath).                     *)
THEOREM DecodedPathsAreBelow == Spec => []DecodedPathsStayBelow
  <1>1. DecodedInv => DecodedPathsStayBelow
    BY BoundPathsAreManifestPaths, ManifestPathsStayInside DEF DecodedInv, DecodedPathsStayBelow
  <1> QED
    BY <1>1, InitDecoded, NextKeepsDecoded, PTL DEF Spec

-------------------------------------------------------------------------------
(* The decoder and the schema.                                               *)

(* What the schema takes, field by field.                                    *)
LEMMA SchemaByField ==
    ASSUME NEW value
    PROVE  /\ \A field \in PathFields : SchemaTakes(field, value) <=> value # <<>>
           /\ \A field \in HashFields \cup ConventionsTexts \cup {"codeowners.defaultOwner"} :
                 SchemaTakes(field, value) <=> value # Empty
           /\ SchemaTakes("home.repository", value) <=> value \in Repositories
           /\ SchemaTakes("home.version", value) <=> value \in ReleaseTags
           /\ SchemaTakes("home.sha", value) <=> value \in Pins
           /\ SchemaTakes("class.qualityGates", value)
                 <=> value \in {"full", "linux-only", "pending"}
           /\ \A field \in Flags : SchemaTakes(field, value) <=> value \in BOOLEAN
           /\ SchemaTakes("schemaVersion", value) <=> value = 2
           /\ SchemaTakes("quality.schemaVersion", value) <=> value = 4
           /\ SchemaTakes("tools.catalogVersion", value) <=> value = 1
           /\ SchemaTakes("files.gitignore.fragments", value)
                 <=> /\ value # <<>> /\ value[1] = CoreFragment
                     /\ Range(Tail(value)) \subseteq AreaFragments
                     /\ IsInjective(value)
  BY DEF SchemaTakes, PathFields, HashFields, ConventionsTexts, Flags

(* What is decoded, field by field.                                          *)
LEMMA ZeroByField ==
    /\ \A field \in PathFields : Zero(field) = <<>>
    /\ Zero("files.gitignore.fragments") = <<>>
    /\ \A field \in Numbers : Zero(field) = 0
    /\ \A field \in Flags : Zero(field) = FALSE
    /\ \A field \in HashFields \cup TextFields : Zero(field) = Empty
  BY DEF Zero, PathFields, HashFields, TextFields, ConventionsTexts, Numbers, Flags

LEMMA FieldSets ==
    /\ PathFields \cup HashFields \cup ConventionsTexts \cup Numbers \cup Flags \subseteq Fields
    /\ {"home.repository", "home.version", "home.sha", "class.qualityGates",
        "codeowners.defaultOwner", "files.gitignore.fragments"} \subseteq Fields
  BY DEF Fields, TextFields

(* The value a field decodes to.                                             *)
DecodedField(doc, field) == Value(doc.fields[field], Zero(field))

LEMMA DecodedFields ==
    ASSUME NEW doc
    PROVE  LET b == Decoded(doc)
               of(field) == DecodedField(doc, field)
           IN  /\ b.schemaVersion = of("schemaVersion")
               /\ b.home = [repository |-> of("home.repository"),
                            version |-> of("home.version"), sha |-> of("home.sha")]
               /\ b.class.qualityGates = of("class.qualityGates")
               /\ b.files.lefthook =
                     [path |-> of("files.lefthook.path"), sha256 |-> of("files.lefthook.sha256")]
               /\ b.files.gitattributes =
                     [path |-> of("files.gitattributes.path"),
                      sha256 |-> of("files.gitattributes.sha256")]
               /\ b.files.dependabot =
                     [path |-> of("files.dependabot.path"),
                      sha256 |-> of("files.dependabot.sha256")]
               /\ b.files.gitignore =
                     [path |-> of("files.gitignore.path"),
                      fragments |-> of("files.gitignore.fragments"),
                      sha256 |-> of("files.gitignore.sha256")]
               /\ b.codeowners = [path |-> of("codeowners.path"),
                                  defaultOwner |-> of("codeowners.defaultOwner")]
               /\ b.conventions =
                     IF doc.conventions # "object" THEN Unbound
                     ELSE [path |-> of("conventions.path"),
                           organization |-> of("conventions.organization"),
                           repository |-> of("conventions.repository"),
                           rationale |-> of("conventions.rationale")]
               /\ b.quality = [config |-> of("quality.config"),
                               schemaVersion |-> of("quality.schemaVersion")]
               /\ b.tools = [module |-> of("tools.module"),
                             catalogVersion |-> of("tools.catalogVersion")]
               /\ b.callers = [i \in DOMAIN doc.callers |->
                                  [field \in CallerFields |->
                                      Value(doc.callers[i][field], Empty)]]
  BY DEF Decoded, DecodedField

(* What validateDocument asks of the decoded fields.                         *)
LEMMA ValidByField ==
    ASSUME NEW doc
    PROVE  LET of(field) == DecodedField(doc, field)
           IN  ValidBindings(Decoded(doc)) <=>
               /\ of("schemaVersion") = 2 /\ of("quality.schemaVersion") = 4
               /\ of("tools.catalogVersion") = 1
               /\ of("home.repository") \in Repositories /\ of("home.sha") \in Pins
               /\ of("class.qualityGates") \in {"full", "linux-only", "pending"}
               /\ \A field \in PathFields \ {"conventions.path"} : of(field) \in ManifestPaths
               /\ \A field \in HashFields : of(field) # Empty
               /\ of("codeowners.defaultOwner") # Empty
               /\ ValidFragments(of("files.gitignore.fragments"))
               /\ ValidConventions(Decoded(doc).conventions)
               /\ ValidCallers(Decoded(doc).callers)
  <1> DEFINE b == Decoded(doc)
             of(field) == DecodedField(doc, field)
  <1>0. /\ b.home = [repository |-> of("home.repository"),
                     version |-> of("home.version"), sha |-> of("home.sha")]
        /\ b.schemaVersion = of("schemaVersion")
        /\ b.class.qualityGates = of("class.qualityGates")
        /\ b.files.lefthook =
              [path |-> of("files.lefthook.path"), sha256 |-> of("files.lefthook.sha256")]
        /\ b.files.gitattributes =
              [path |-> of("files.gitattributes.path"),
               sha256 |-> of("files.gitattributes.sha256")]
        /\ b.files.dependabot =
              [path |-> of("files.dependabot.path"), sha256 |-> of("files.dependabot.sha256")]
        /\ b.files.gitignore =
              [path |-> of("files.gitignore.path"),
               fragments |-> of("files.gitignore.fragments"),
               sha256 |-> of("files.gitignore.sha256")]
        /\ b.codeowners = [path |-> of("codeowners.path"),
                           defaultOwner |-> of("codeowners.defaultOwner")]
        /\ b.quality = [config |-> of("quality.config"),
                        schemaVersion |-> of("quality.schemaVersion")]
        /\ b.tools = [module |-> of("tools.module"),
                      catalogVersion |-> of("tools.catalogVersion")]
    BY DecodedFields
  <1> HIDE DEF b, of
  <1>1. /\ b.schemaVersion = of("schemaVersion")
        /\ b.home.repository = of("home.repository") /\ b.home.sha = of("home.sha")
        /\ b.class.qualityGates = of("class.qualityGates")
        /\ b.codeowners.path = of("codeowners.path")
        /\ b.codeowners.defaultOwner = of("codeowners.defaultOwner")
        /\ b.quality.config = of("quality.config")
        /\ b.quality.schemaVersion = of("quality.schemaVersion")
        /\ b.tools.module = of("tools.module")
        /\ b.tools.catalogVersion = of("tools.catalogVersion")
    BY <1>0
  <1>2. /\ b.files.lefthook.path = of("files.lefthook.path")
        /\ b.files.lefthook.sha256 = of("files.lefthook.sha256")
        /\ b.files.gitattributes.path = of("files.gitattributes.path")
        /\ b.files.gitattributes.sha256 = of("files.gitattributes.sha256")
        /\ b.files.dependabot.path = of("files.dependabot.path")
        /\ b.files.dependabot.sha256 = of("files.dependabot.sha256")
        /\ b.files.gitignore.path = of("files.gitignore.path")
        /\ b.files.gitignore.fragments = of("files.gitignore.fragments")
        /\ b.files.gitignore.sha256 = of("files.gitignore.sha256")
    BY <1>0
  <1>3. ValidFiles(b.files) <=>
           /\ of("files.lefthook.path") \in ManifestPaths
           /\ of("files.gitattributes.path") \in ManifestPaths
           /\ of("files.dependabot.path") \in ManifestPaths
           /\ of("files.gitignore.path") \in ManifestPaths
           /\ \A field \in HashFields : of(field) # Empty
           /\ ValidFragments(of("files.gitignore.fragments"))
    BY <1>2 DEF ValidFiles, FileTopics, IsHash, HashFields
  <1>4. (\A field \in PathFields \ {"conventions.path"} : of(field) \in ManifestPaths) <=>
           /\ of("files.lefthook.path") \in ManifestPaths
           /\ of("files.gitattributes.path") \in ManifestPaths
           /\ of("files.dependabot.path") \in ManifestPaths
           /\ of("files.gitignore.path") \in ManifestPaths
           /\ of("codeowners.path") \in ManifestPaths
           /\ of("quality.config") \in ManifestPaths
           /\ of("tools.module") \in ManifestPaths
    BY DEF PathFields
  <1>5. ValidBindings(b) <=>
           /\ of("schemaVersion") = 2 /\ of("quality.schemaVersion") = 4
           /\ of("tools.catalogVersion") = 1
           /\ of("home.repository") \in Repositories /\ of("home.sha") \in Pins
           /\ of("class.qualityGates") \in {"full", "linux-only", "pending"}
           /\ \A field \in PathFields \ {"conventions.path"} : of(field) \in ManifestPaths
           /\ \A field \in HashFields : of(field) # Empty
           /\ of("codeowners.defaultOwner") # Empty
           /\ ValidFragments(of("files.gitignore.fragments"))
           /\ ValidConventions(b.conventions)
           /\ ValidCallers(b.callers)
    BY <1>1, <1>3, <1>4
       DEF ValidBindings, BindingsSchemaVersion, QualitySchemaVersion
  <1> QED
    BY <1>5 DEF b, of

LEMMA ConventionsByField ==
    ASSUME NEW doc, IsDocument(doc)
    PROVE  LET of(field) == DecodedField(doc, field)
           IN  ValidConventions(Decoded(doc).conventions) <=>
               \/ doc.conventions # "object"
               \/ /\ of("conventions.path") \in ManifestPaths
                  /\ \A field \in ConventionsTexts : of(field) # Empty
  <1> DEFINE of(field) == DecodedField(doc, field)
             conventions == Decoded(doc).conventions
  <1>1. conventions = IF doc.conventions # "object" THEN Unbound
                      ELSE [path |-> of("conventions.path"),
                            organization |-> of("conventions.organization"),
                            repository |-> of("conventions.repository"),
                            rationale |-> of("conventions.rationale")]
    BY DecodedFields
  <1>2. doc.conventions = "object" => conventions # Unbound
    BY DEF IsDocument
  <1> HIDE DEF of, conventions
  <1>3. ValidConventions(conventions) <=>
           \/ doc.conventions # "object"
           \/ /\ of("conventions.path") \in ManifestPaths
              /\ \A field \in ConventionsTexts : of(field) # Empty
    BY <1>1, <1>2 DEF ValidConventions, ConventionsTexts
  <1> QED
    BY <1>3 DEF of, conventions

(* The decoder and the schema ask the same of the fragments.                 *)
LEMMA FragmentsByField ==
    ASSUME NEW fragments, IsSequence(fragments)
    PROVE  SchemaTakes("files.gitignore.fragments", fragments) <=> ValidFragments(fragments)
  <1>1. PICK n \in Nat : fragments = [i \in 1..n |-> fragments[i]] /\ n = Len(fragments)
    BY DEF IsSequence
  <1>2. fragments \in [1..n -> Range(fragments)]
    BY <1>1 DEF Range
  <1>3. fragments \in Seq(Range(fragments)) /\ DOMAIN fragments = 1..n
    BY <1>1, <1>2, FunctionIsSequence
  <1>4. SchemaTakes("files.gitignore.fragments", fragments) <=>
           /\ fragments # <<>> /\ fragments[1] = CoreFragment
           /\ Range(Tail(fragments)) \subseteq AreaFragments
           /\ IsInjective(fragments)
    BY SchemaByField
  <1>5. ASSUME fragments # <<>>
        PROVE  Range(Tail(fragments)) = {fragments[i] : i \in 2..n}
    <2>1. n \in Nat \ {0}
      BY <1>1, <1>3, <1>5, EmptySeq
    <2>2. /\ DOMAIN Tail(fragments) = 1..(n - 1)
          /\ \A i \in 1..(n - 1) : Tail(fragments)[i] = fragments[i + 1]
      BY <1>1, <1>3, <1>5, <2>1, HeadTailProperties, LenProperties
    <2>3. \A i \in 2..n : i - 1 \in 1..(n - 1) /\ fragments[i] = Tail(fragments)[i - 1]
      BY <2>1, <2>2
    <2>4. \A i \in 1..(n - 1) : i + 1 \in 2..n
      BY <2>1
    <2> DEFINE tail == Tail(fragments)
    <2> HIDE DEF tail
    <2>5. Range(tail) = {tail[i] : i \in 1..(n - 1)}
      BY <2>2 DEF tail, Range
    <2>6. \A i \in 1..(n - 1) : tail[i] = fragments[i + 1]
      BY <2>2 DEF tail
    <2>7. \A i \in 2..n : fragments[i] = tail[i - 1]
      BY <2>3 DEF tail
    <2>8. {tail[i] : i \in 1..(n - 1)} = {fragments[i] : i \in 2..n}
      BY <2>3, <2>4, <2>6, <2>7
    <2> QED
      BY <2>5, <2>8 DEF tail
  <1>6. ASSUME fragments # <<>>, fragments[1] = CoreFragment, IsInjective(fragments)
        PROVE  {fragments[i] : i \in 2..n} \subseteq AreaFragments
               <=> \A i \in DOMAIN fragments : fragments[i] \in AreaFragments \cup {CoreFragment}
    <2>1. n \in Nat \ {0}
      BY <1>1, <1>3, <1>6, EmptySeq
    <2>2. \A i \in 2..n : fragments[i] # CoreFragment
      BY <1>3, <1>6, <2>1 DEF IsInjective
    <2>3. DOMAIN fragments = {1} \cup 2..n
      BY <1>3, <2>1
    <2> QED
      BY <1>6, <2>2, <2>3
  <1> QED
    BY <1>4, <1>5, <1>6 DEF ValidFragments, IsInjective

(* What validateCallers asks of the callers as they stand in the document.   *)
LEMMA CallersByField ==
    ASSUME NEW doc, IsSequence(doc.callers)
    PROVE  LET of(i, field) == Value(doc.callers[i][field], Empty)
           IN  ValidCallers(Decoded(doc).callers) <=>
               /\ Len(doc.callers) \in 1..16
               /\ \A i \in DOMAIN doc.callers :
                     /\ of(i, "file") \in WorkflowPaths /\ of(i, "master") \in MasterPaths
                     /\ of(i, "sha256") # Empty
               /\ \A i, j \in DOMAIN doc.callers :
                     i # j => of(i, "file") # of(j, "file") /\ of(i, "master") # of(j, "master")
  <1> DEFINE of(i, field) == Value(doc.callers[i][field], Empty)
             callers == Decoded(doc).callers
  <1>1. callers = [i \in DOMAIN doc.callers |-> [field \in CallerFields |-> of(i, field)]]
    BY DecodedFields
  <1>2. Len(doc.callers) \in Nat /\ DOMAIN doc.callers = 1..Len(doc.callers)
    BY DEF IsSequence
  <1> HIDE DEF callers, of
  <1>3. \A i \in DOMAIN doc.callers : callers[i] = [field \in CallerFields |-> of(i, field)]
    BY <1>1
  <1>4. \A i \in DOMAIN doc.callers :
           /\ callers[i].file = of(i, "file") /\ callers[i].master = of(i, "master")
           /\ callers[i].sha256 = of(i, "sha256")
    BY <1>3 DEF CallerFields
  <1>5. DOMAIN callers = DOMAIN doc.callers
    BY <1>1
  <1>6. Len(callers) = Len(doc.callers)
    <2>1. callers \in [1..Len(doc.callers) -> Range(callers)]
      BY <1>1, <1>2 DEF Range
    <2> QED
      BY <1>2, <2>1, FunctionIsSequence
  <1>7. ValidCallers(callers) <=>
           /\ Len(doc.callers) \in 1..16
           /\ \A i \in DOMAIN doc.callers :
                 /\ of(i, "file") \in WorkflowPaths /\ of(i, "master") \in MasterPaths
                 /\ of(i, "sha256") # Empty
           /\ \A i, j \in DOMAIN doc.callers :
                 i # j => of(i, "file") # of(j, "file") /\ of(i, "master") # of(j, "master")
    BY <1>4, <1>5, <1>6 DEF ValidCallers, MaxCallerCount, IsHash
  <1> QED
    BY <1>7 DEF callers, of

(* What a field of an admitted document decodes to.                          *)
LEMMA AdmittedField ==
    ASSUME NEW doc, SchemaAdmits(doc), NEW field \in Fields, Bears(doc, field)
    PROVE  /\ doc.fields[field] # Mistyped
           /\ field # "home.version" =>
                 /\ DecodedField(doc, field) = doc.fields[field].value
                 /\ SchemaTakes(field, DecodedField(doc, field))
           /\ field = "home.version" => ValidVersion(DecodedField(doc, field))
  <1> DEFINE wire == doc.fields[field]
  <1>1. \/ wire = Missing /\ field = "home.version"
        \/ wire.form = "given" /\ SchemaTakes(field, wire.value)
    BY DEF SchemaAdmits
  <1>2. CASE wire = Missing /\ field = "home.version"
    <2>1. Zero(field) = Empty
      BY <1>2, ZeroByField DEF TextFields
    <2> QED
      BY <1>2, <2>1 DEF Missing, Mistyped, DecodedField, Value, ValidVersion
  <1>3. CASE wire.form = "given" /\ SchemaTakes(field, wire.value)
    <2>1. DecodedField(doc, field) = wire.value /\ wire # Mistyped
      BY <1>3 DEF DecodedField, Value, Mistyped
    <2>2. field = "home.version" => wire.value \in ReleaseTags
      BY <1>3, SchemaByField
    <2> QED
      BY <1>3, <2>1, <2>2 DEF ValidVersion
  <1> QED
    BY <1>1, <1>2, <1>3

LEMMA GivenWires ==
    ASSUME NEW wire, wire.form = "given", NEW zero
    PROVE  /\ wire # Mistyped
           /\ Value(wire, zero) = wire.value
           /\ IsWire(wire) => wire = Given(wire.value)
  BY DEF Mistyped, Value, IsWire, Missing, Null, Given, Respelled

LEMMA PublishedIsDecoded ==
    ASSUME NEW doc, IsDocument(doc), SchemaAdmits(doc), PublishedForm(doc)
    PROVE  DecodeBindings(doc)
  <1> DEFINE of(field) == DecodedField(doc, field)
  <1>1. doc.envelope = "one document"
    BY DEF SchemaAdmits, PublishedForm
  <1>2. \A field \in Fields : Bears(doc, field) => doc.fields[field] # Mistyped
    BY AdmittedField
  <1>3. ASSUME NEW i \in DOMAIN doc.callers, NEW field \in CallerFields
        PROVE  /\ doc.callers[i][field].form = "given"
               /\ doc.callers[i][field] # Mistyped
               /\ Value(doc.callers[i][field], Empty) = doc.callers[i][field].value
               /\ SchemaTakesOfCaller(field, doc.callers[i][field].value)
    <2>1. /\ doc.callers[i][field].form = "given"
          /\ SchemaTakesOfCaller(field, doc.callers[i][field].value)
      BY DEF SchemaAdmits
    <2> QED
      BY <2>1, GivenWires
  <1>4. WellTyped(doc)
    BY <1>2, <1>3 DEF WellTyped
  <1>5. ASSUME NEW field \in Fields, Bears(doc, field), field # "home.version"
        PROVE  SchemaTakes(field, of(field)) /\ of(field) = doc.fields[field].value
    BY <1>5, AdmittedField
  <1>6. ASSUME NEW field \in PathFields, Bears(doc, field)
        PROVE  of(field) \in ManifestPaths
    <2>1. field \in Fields /\ field # "home.version"
      BY FieldSets DEF PathFields
    <2> QED
      BY <1>5, <1>6, <2>1 DEF PublishedForm
  <1>7. \A field \in Fields \ (ConventionsTexts \cup {"conventions.path"}) : Bears(doc, field)
    BY DEF Bears
  <1>8. /\ of("schemaVersion") = 2 /\ of("quality.schemaVersion") = 4
        /\ of("tools.catalogVersion") = 1
    <2>1. {"schemaVersion", "quality.schemaVersion", "tools.catalogVersion"}
             \subseteq Fields \ (ConventionsTexts \cup {"conventions.path"})
      BY FieldSets DEF Numbers, ConventionsTexts
    <2> QED
      BY <1>5, <1>7, <2>1, SchemaByField
  <1>9. /\ of("home.repository") \in Repositories /\ of("home.sha") \in Pins
        /\ of("class.qualityGates") \in {"full", "linux-only", "pending"}
        /\ of("codeowners.defaultOwner") # Empty
    <2>1. {"home.repository", "home.sha", "class.qualityGates", "codeowners.defaultOwner"}
             \subseteq Fields \ (ConventionsTexts \cup {"conventions.path"})
      BY FieldSets DEF ConventionsTexts
    <2> QED
      BY <1>5, <1>7, <2>1, SchemaByField
  <1>10. \A field \in PathFields \ {"conventions.path"} : of(field) \in ManifestPaths
    <2>1. PathFields \ {"conventions.path"}
             \subseteq Fields \ (ConventionsTexts \cup {"conventions.path"})
      BY FieldSets DEF PathFields, ConventionsTexts
    <2> QED
      BY <1>6, <1>7, <2>1
  <1>11. \A field \in HashFields : of(field) # Empty
    <2>1. HashFields \subseteq Fields \ (ConventionsTexts \cup {"conventions.path", "home.version"})
      BY FieldSets DEF HashFields, ConventionsTexts
    <2> QED
      BY <1>5, <1>7, <2>1, SchemaByField
  <1>12. ValidFragments(of("files.gitignore.fragments"))
    <2>1. "files.gitignore.fragments" \in Fields \ (ConventionsTexts \cup {"conventions.path"})
      BY FieldSets DEF ConventionsTexts
    <2>2. IsSequence(of("files.gitignore.fragments"))
      BY <1>2, <1>7, <2>1, ZeroByField DEF IsDocument, DecodedField
    <2> QED
      BY <1>5, <1>7, <2>1, <2>2, FragmentsByField
  <1>13. ValidConventions(Decoded(doc).conventions)
    <2>1. doc.conventions = "object" => \A field \in Fields : Bears(doc, field)
      BY DEF Bears
    <2>2. /\ "conventions.path" \in PathFields
          /\ ConventionsTexts \subseteq Fields \ {"home.version"}
      BY FieldSets DEF PathFields, ConventionsTexts
    <2>3. doc.conventions = "object" => of("conventions.path") \in ManifestPaths
      BY <1>6, <2>1, <2>2, FieldSets
    <2>4. doc.conventions = "object" => \A field \in ConventionsTexts : of(field) # Empty
      BY <1>5, <2>1, <2>2, SchemaByField
    <2> QED
      BY <2>3, <2>4, ConventionsByField
  <1>14. ValidCallers(Decoded(doc).callers)
    <2> DEFINE wire(i, field) == doc.callers[i][field]
    <2>1. \A i, j \in DOMAIN doc.callers :
             i # j => wire(i, "file") # wire(j, "file") /\ wire(i, "master") # wire(j, "master")
      BY DEF PublishedForm, IsInjective
    <2>2. \A i \in DOMAIN doc.callers : \A field \in CallerFields :
             wire(i, field) = Given(Value(wire(i, field), Empty))
      BY <1>3, GivenWires DEF IsDocument
    <2>3. \A i \in DOMAIN doc.callers :
             /\ Value(wire(i, "file"), Empty) \in WorkflowPaths
             /\ Value(wire(i, "master"), Empty) \in MasterPaths
             /\ Value(wire(i, "sha256"), Empty) # Empty
      BY <1>3 DEF SchemaTakesOfCaller, CallerFields
    <2>4. \A i, j \in DOMAIN doc.callers : i # j =>
             /\ Value(wire(i, "file"), Empty) # Value(wire(j, "file"), Empty)
             /\ Value(wire(i, "master"), Empty) # Value(wire(j, "master"), Empty)
      BY <2>1, <2>2 DEF CallerFields
    <2>5. IsSequence(doc.callers) /\ Len(doc.callers) \in 1..16
      BY DEF IsDocument, SchemaAdmits
    <2> QED
      BY <2>3, <2>4, <2>5, CallersByField
  <1>15. ValidVersion(Decoded(doc).home.version)
    <2>1. "home.version" \in Fields /\ Bears(doc, "home.version")
      BY <1>7, FieldSets DEF Bears, ConventionsTexts
    <2>2. Decoded(doc).home.version = of("home.version")
      <3>1. Decoded(doc).home = [repository |-> of("home.repository"),
                                 version |-> of("home.version"), sha |-> of("home.sha")]
        BY DecodedFields
      <3> HIDE DEF of
      <3> QED
        BY <3>1
    <2> QED
      BY <2>1, <2>2, AdmittedField
  <1>16. ValidBindings(Decoded(doc))
    BY <1>8, <1>9, <1>10, <1>11, <1>12, <1>13, <1>14, ValidByField
  <1> QED
    BY <1>1, <1>4, <1>15, <1>16 DEF DecodeBindings

(* Only what does not decode is refused before a home tree is bound.         *)
RefusedInv ==
    stage = "ended" /\ exit = 1 /\ bindings = Unbound /\ Document # Absent
    => ~ DecodeBindings(Document)

LEMMA DocumentIsTyped == TypeOK /\ Document # Absent => IsDocument(Document)
  BY DEF TypeOK, Document

LEMMA NextKeepsRefused == TypeOK /\ DecodedInv /\ RefusedInv /\ [Next]_vars => RefusedInv'
  <1> SUFFICES ASSUME TypeOK, DecodedInv, RefusedInv, [Next]_vars PROVE RefusedInv'
    OBVIOUS
  <1>1. CASE NextArgument
    BY <1>1 DEF NextArgument, EndWith, RefusedInv
  <1>2. CASE EndOfArguments
    BY <1>2 DEF EndOfArguments, EndWith, RefusedInv
  <1>3. CASE ReadManifest
    <2>1. Document' = Document
      BY <1>3 DEF ReadManifest, Document, Root
    <2> QED
      BY <1>3, <2>1 DEF ReadManifest, EndWith, RefusedInv
  <1>4. CASE BindHome
    <2>1. stage = "home" /\ bindings' = bindings
      BY <1>4 DEF BindHome
    <2>2. bindings # Unbound
      BY <2>1, DocumentIsTyped DEF DecodedInv, IsDocument
    <2> QED
      BY <2>1, <2>2 DEF RefusedInv
  <1>5. CASE UNCHANGED vars
    <2>1. Document' = Document
      BY <1>5 DEF vars, Document, Root
    <2> QED
      BY <1>5, <2>1 DEF vars, RefusedInv
  <1> QED
    BY <1>1, <1>2, <1>3, <1>4, <1>5 DEF Next

LEMMA InitRefused == Init => RefusedInv
  BY DEF Init, Started, RefusedInv

(* Every manifest in the published form is decoded, however many callers and *)
(* fragments it has and whatever its strings (validateDocument).             *)
THEOREM PublishedAreDecoded == Spec => []PublishedManifestsDecode
  <1>1. TypeOK /\ RefusedInv => PublishedManifestsDecode
    BY DocumentIsTyped, PublishedIsDecoded DEF RefusedInv, PublishedManifestsDecode
  <1> QED
    BY <1>1, InitTyped, NextKeepsType, InitDecoded, NextKeepsDecoded,
       InitRefused, NextKeepsRefused, PTL DEF Spec

LEMMA CompletedParts ==
    ASSUME NEW doc, IsDocument(doc)
    PROVE  LET whole == Completed(doc)
           IN  /\ whole.envelope = doc.envelope
               /\ whole.fields = [field \in Fields |-> CompletedWire(field, doc.fields[field])]
               /\ whole.conventions = IF doc.conventions = "null" THEN "missing"
                                      ELSE doc.conventions
               /\ whole.callers =
                     [i \in DOMAIN doc.callers |->
                         [field \in CallerFields |->
                             CompletedWire(field, doc.callers[i][field])]]
  <1>1. DOMAIN doc = {"envelope", "fields", "conventions", "callers"}
    <2>1. doc = [envelope |-> doc.envelope, fields |-> doc.fields,
                 conventions |-> doc.conventions, callers |-> doc.callers]
      BY DEF IsDocument
    <2>2. \A e, f, c, k : DOMAIN [envelope |-> e, fields |-> f, conventions |-> c, callers |-> k]
                             = {"envelope", "fields", "conventions", "callers"}
      OBVIOUS
    <2> QED
      BY <2>1, <2>2
  <1> QED
    BY <1>1 DEF Completed

(* A wire that decodes to no zero value is completed to that value.          *)
LEMMA CompletedValue ==
    ASSUME NEW wire, IsWire(wire), NEW zero, Value(wire, zero) # zero,
           NEW field, field \notin Flags, field # "home.version"
    PROVE  /\ CompletedWire(field, wire).form = "given"
           /\ CompletedWire(field, wire).value = Value(wire, zero)
  BY DEF IsWire, Missing, Null, Mistyped, Given, Respelled, Value, CompletedWire

LEMMA CompletedFlag ==
    ASSUME NEW wire, IsWire(wire), wire # Mistyped, Value(wire, FALSE) \in BOOLEAN,
           NEW field \in Flags
    PROVE  /\ CompletedWire(field, wire).form = "given"
           /\ CompletedWire(field, wire).value \in BOOLEAN
  <1>1. field # "home.version"
    BY DEF Flags
  <1>2. CASE wire \in {Missing, Null}
    BY <1>2 DEF Given, CompletedWire
  <1>3. CASE wire = Given(wire.value) \/ wire = Respelled(wire.value)
    <2>1. wire.form \in {"given", "respelled"} /\ wire \notin {Missing, Null}
      BY <1>3 DEF Missing, Null, Given, Respelled
    <2>2. wire.value \in BOOLEAN
      BY <2>1 DEF Value
    <2>3. CompletedWire(field, wire) = IF wire.form = "respelled" THEN Given(wire.value) ELSE wire
      BY <1>1, <2>1 DEF CompletedWire
    <2>4. CompletedWire(field, wire).value = wire.value
      BY <2>3 DEF Given
    <2>5. CompletedWire(field, wire).form = "given"
      BY <2>1, <2>3 DEF Given
    <2> QED
      BY <2>2, <2>4, <2>5
  <1> QED
    BY <1>2, <1>3 DEF IsWire

LEMMA CompletedVersion ==
    ASSUME NEW wire, IsWire(wire), wire # Mistyped, ValidVersion(Value(wire, Empty))
    PROVE  LET whole == CompletedWire("home.version", wire)
           IN  \/ whole = Missing
               \/ whole.form = "given" /\ whole.value \in ReleaseTags
  <1>1. "home.version" \notin Flags
    BY DEF Flags
  <1> QED
    BY <1>1 DEF IsWire, Missing, Null, Mistyped, Given, Respelled, Value, CompletedWire,
                ValidVersion

LEMMA OmissionCompleted ==
    ASSUME NEW doc, IsDocument(doc), DecodeBindings(doc)
    PROVE  SchemaAdmits(Completed(doc))
  <1> DEFINE of(field) == DecodedField(doc, field)
             whole == Completed(doc)
             wire(field) == CompletedWire(field, doc.fields[field])
  <1>1. /\ whole.envelope = doc.envelope
        /\ whole.conventions = IF doc.conventions = "null" THEN "missing" ELSE doc.conventions
        /\ \A field \in Fields : whole.fields[field] = wire(field)
    <2>1. /\ whole.envelope = doc.envelope
          /\ whole.conventions = IF doc.conventions = "null" THEN "missing" ELSE doc.conventions
          /\ whole.fields = [field \in Fields |-> wire(field)]
      BY CompletedParts
    <2> HIDE DEF whole, wire
    <2> QED
      BY <2>1
  <1>2. whole.envelope \in {"one document", "oversized"} /\ whole.conventions # "null"
    BY <1>1 DEF DecodeBindings
  <1>3. \A field : Bears(whole, field) => Bears(doc, field)
    BY <1>1 DEF Bears
  <1>4. \A field \in Fields : Bears(doc, field) => doc.fields[field] # Mistyped
    BY DEF DecodeBindings, WellTyped
  <1>5. \A field \in Fields : IsWire(doc.fields[field])
    BY DEF IsDocument
  <1>6. ASSUME NEW field \in Fields \ (Flags \cup {"home.version"}),
               of(field) # Zero(field), SchemaTakes(field, of(field))
        PROVE  wire(field).form = "given" /\ SchemaTakes(field, wire(field).value)
    BY <1>5, <1>6, CompletedValue DEF DecodedField
  <1>7. ValidBindings(Decoded(doc))
    BY DEF DecodeBindings
  <1>8. ASSUME NEW field \in PathFields, Bears(doc, field)
        PROVE  of(field) # Zero(field) /\ SchemaTakes(field, of(field))
    <2>1. of(field) \in ManifestPaths
      <3>1. CASE field = "conventions.path"
        <4>1. doc.conventions = "object"
          BY <1>8, <3>1 DEF Bears
        <4> QED
          BY <1>7, <3>1, <4>1, ValidByField, ConventionsByField
      <3>2. CASE field # "conventions.path"
        BY <1>7, <3>2, ValidByField
      <3> QED
        BY <3>1, <3>2
    <2>2. of(field) # <<>>
      BY <2>1, PathsAssumption DEF ValidManifestPath, IsSequence
    <2> QED
      BY <2>2, ZeroByField, SchemaByField
  <1>9. ASSUME NEW field \in ConventionsTexts, Bears(doc, field)
        PROVE  of(field) # Zero(field) /\ SchemaTakes(field, of(field))
    <2>1. doc.conventions = "object"
      BY <1>9 DEF Bears
    <2>2. of(field) # Empty
      BY <1>7, <2>1, ValidByField, ConventionsByField
    <2> QED
      BY <2>2, ZeroByField, SchemaByField DEF TextFields
  <1>10. ASSUME NEW field \in HashFields \cup {"codeowners.defaultOwner"}
         PROVE  of(field) # Zero(field) /\ SchemaTakes(field, of(field))
    <2>1. of(field) # Empty
      BY <1>7, ValidByField
    <2> QED
      BY <2>1, ZeroByField, SchemaByField DEF TextFields
  <1>11. ASSUME NEW field \in Numbers
         PROVE  of(field) # Zero(field) /\ SchemaTakes(field, of(field))
    <2>1. /\ of("schemaVersion") = 2 /\ of("quality.schemaVersion") = 4
          /\ of("tools.catalogVersion") = 1
      BY <1>7, ValidByField
    <2> HIDE DEF of
    <2> QED
      BY <2>1, ZeroByField, SchemaByField DEF Numbers
  <1>12. ASSUME NEW field \in {"home.repository", "home.sha", "class.qualityGates"}
         PROVE  of(field) # Zero(field) /\ SchemaTakes(field, of(field))
    <2>1. /\ of("home.repository") \in Repositories /\ of("home.sha") \in Pins
          /\ of("class.qualityGates") \in {"full", "linux-only", "pending"}
      BY <1>7, ValidByField
    <2> HIDE DEF of
    <2> QED
      BY <2>1, GrammarsAssumption, ZeroByField, SchemaByField DEF TextFields
  <1>13. /\ of("files.gitignore.fragments") # Zero("files.gitignore.fragments")
         /\ SchemaTakes("files.gitignore.fragments", of("files.gitignore.fragments"))
    <2>1. ValidFragments(of("files.gitignore.fragments"))
      BY <1>7, ValidByField
    <2>2. "files.gitignore.fragments" \in Fields /\ Bears(doc, "files.gitignore.fragments")
      BY FieldSets DEF Bears, ConventionsTexts
    <2>3. IsSequence(of("files.gitignore.fragments"))
      BY <1>4, <2>2, ZeroByField DEF IsDocument, DecodedField
    <2> QED
      BY <2>1, <2>3, FragmentsByField, ZeroByField DEF ValidFragments
  <1>14. ASSUME NEW field \in Flags
         PROVE  wire(field).form = "given" /\ SchemaTakes(field, wire(field).value)
    <2>1. field \in Fields /\ Bears(doc, field)
      BY FieldSets DEF Bears, ConventionsTexts, Flags
    <2>2. Value(doc.fields[field], FALSE) \in BOOLEAN
      BY <1>4, <2>1 DEF IsDocument
    <2> QED
      BY <1>4, <1>5, <2>1, <2>2, CompletedFlag, SchemaByField
  <1>15. \/ wire("home.version") = Missing
         \/ /\ wire("home.version").form = "given"
            /\ SchemaTakes("home.version", wire("home.version").value)
    <2>1. "home.version" \in Fields /\ Bears(doc, "home.version")
      BY FieldSets DEF Bears, ConventionsTexts
    <2>2. Decoded(doc).home.version = Value(doc.fields["home.version"], Empty)
      <3>1. /\ Decoded(doc).home = [repository |-> of("home.repository"),
                                    version |-> of("home.version"), sha |-> of("home.sha")]
            /\ of("home.version") = Value(doc.fields["home.version"], Empty)
        BY DecodedFields, ZeroByField DEF DecodedField, TextFields
      <3> HIDE DEF of
      <3> QED
        BY <3>1
    <2>3. ValidVersion(Value(doc.fields["home.version"], Empty))
      BY <2>2 DEF DecodeBindings
    <2> QED
      BY <1>4, <1>5, <2>1, <2>3, CompletedVersion, SchemaByField
  <1>16. ASSUME NEW field \in Fields, Bears(doc, field)
         PROVE  \/ wire(field) = Missing /\ field = "home.version"
                \/ wire(field).form = "given" /\ SchemaTakes(field, wire(field).value)
    <2>1. CASE field \in Flags
      BY <1>14, <2>1
    <2>2. CASE field = "home.version"
      BY <1>15, <2>2
    <2>3. CASE field \notin Flags \cup {"home.version"}
      <3>1. \/ field \in PathFields \cup ConventionsTexts \cup Numbers
            \/ field \in HashFields \cup {"codeowners.defaultOwner"}
            \/ field \in {"home.repository", "home.sha", "class.qualityGates"}
            \/ field = "files.gitignore.fragments"
        BY <2>3 DEF Fields, TextFields
      <3>2. of(field) # Zero(field) /\ SchemaTakes(field, of(field))
        BY <1>16, <3>1, <1>8, <1>9, <1>10, <1>11, <1>12, <1>13
      <3> QED
        BY <1>6, <2>3, <3>2
    <2> QED
      BY <2>1, <2>2, <2>3
  <1>17. /\ Len(whole.callers) \in 1..16
         /\ DOMAIN whole.callers = DOMAIN doc.callers
         /\ \A i \in DOMAIN doc.callers : \A field \in CallerFields :
               whole.callers[i][field] = CompletedWire(field, doc.callers[i][field])
    <2>1. whole.callers =
             [i \in DOMAIN doc.callers |->
                 [field \in CallerFields |-> CompletedWire(field, doc.callers[i][field])]]
      BY CompletedParts
    <2>2. IsSequence(doc.callers)
      BY DEF IsDocument
    <2>3. Len(doc.callers) \in 1..16
      BY <1>7, <2>2, ValidByField, CallersByField
    <2>4. DOMAIN doc.callers = 1..Len(doc.callers)
      BY <2>2 DEF IsSequence
    <2> HIDE DEF whole
    <2>5. whole.callers \in [1..Len(doc.callers) -> Range(whole.callers)]
      BY <2>1, <2>4 DEF Range
    <2>6. Len(whole.callers) = Len(doc.callers)
      BY <2>3, <2>5, FunctionIsSequence
    <2>7. \A i \in DOMAIN doc.callers : \A field \in CallerFields :
             whole.callers[i][field] = CompletedWire(field, doc.callers[i][field])
      BY <2>1
    <2>8. DOMAIN whole.callers = DOMAIN doc.callers
      BY <2>1
    <2> QED
      BY <2>3, <2>6, <2>7, <2>8
  <1>18. ASSUME NEW i \in DOMAIN doc.callers, NEW field \in CallerFields
         PROVE  /\ CompletedWire(field, doc.callers[i][field]).form = "given"
                /\ SchemaTakesOfCaller(field, CompletedWire(field, doc.callers[i][field]).value)
    <2> DEFINE value(f) == Value(doc.callers[i][f], Empty)
    <2>1. /\ value("file") \in WorkflowPaths /\ value("master") \in MasterPaths
          /\ value("sha256") # Empty
      BY <1>7, ValidByField, CallersByField DEF IsDocument
    <2>2. IsWire(doc.callers[i][field])
      BY DEF IsDocument
    <2>3. field \notin Flags /\ field # "home.version"
      BY DEF CallerFields, Flags
    <2>4. value(field) # Empty /\ SchemaTakesOfCaller(field, value(field))
      <3> HIDE DEF value
      <3> QED
        BY <2>1, GrammarsAssumption DEF CallerFields, SchemaTakesOfCaller
    <2> QED
      BY <2>2, <2>3, <2>4, CompletedValue
  <1> HIDE DEF whole, wire
  <1>19. \A field \in Fields :
            \/ ~ Bears(whole, field)
            \/ whole.fields[field] = Missing /\ field = "home.version"
            \/ whole.fields[field].form = "given" /\ SchemaTakes(field, whole.fields[field].value)
    BY <1>1, <1>3, <1>16
  <1>20. \A i \in DOMAIN whole.callers : \A field \in CallerFields :
            /\ whole.callers[i][field].form = "given"
            /\ SchemaTakesOfCaller(field, whole.callers[i][field].value)
    BY <1>17, <1>18
  <1>21. SchemaAdmits(whole)
    BY <1>2, <1>17, <1>19, <1>20 DEF SchemaAdmits
  <1> QED
    BY <1>21 DEF whole

(* Whatever is decoded is a document of the schema but for omitted fields    *)
(* and the spelling of keys (decodeDocument and validateDocument against the *)
(* v2 schema), for documents and grammars of any size.                       *)
THEOREM OnlyOmissionsAreDecoded == Spec => []NothingElseByOmission
  <1>1. TypeOK /\ DecodedInv => NothingElseByOmission
    BY DocumentIsTyped, OmissionCompleted DEF DecodedInv, NothingElseByOmission
  <1> QED
    BY <1>1, InitTyped, NextKeepsType, InitDecoded, NextKeepsDecoded, PTL DEF Spec
================================================================================
