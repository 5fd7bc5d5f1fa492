---------------------------- MODULE ModuleCacheProofs ---------------------------
(***************************************************************************)
(* That module resolutions behave as if there were no cache, for any number*)
(* of processes, modules, versions and disturbances.                       *)
(***************************************************************************)
EXTENDS ModuleCache, TLAPS

(* A call nobody disturbed lists a module whose required version is in the   *)
(* cache: its own download put it there.                                     *)
ListsWhatIsThere ==
    \A p \in Processes :
        place[p] = "list" /\ p \notin disturbed =>
            /\ required[asked[p]] \in Versions
            /\ <<asked[p], required[asked[p]]>> \in cache

CacheInv == TypeOK /\ ListsWhatIsThere

(* The refinement mapping: the module a process resolves, None between calls.*)
Asked == [p \in Processes |-> IF place[p] = "idle" THEN None ELSE asked[p]]

PromisedStep == [WithoutCache!PromiseNext]_(WithoutCache!promiseVars)

-------------------------------------------------------------------------------
LEMMA InitCacheInv == Init => CacheInv
  BY CacheAssumption DEF Init, CacheInv, TypeOK, ListsWhatIsThere

LEMMA ResolveKeepsInv ==
    ASSUME CacheInv, NEW p \in Processes, NEW m \in Modules, ResolveModuleDir(p, m)
    PROVE  CacheInv'
  <1>1. TypeOK'
    BY CacheAssumption DEF CacheInv, TypeOK, ResolveModuleDir, Call
  <1>2. ListsWhatIsThere'
    BY DEF CacheInv, TypeOK, ListsWhatIsThere, ResolveModuleDir, Call
  <1>3. QED
    BY <1>1, <1>2 DEF CacheInv

LEMMA DownloadKeepsInv ==
    ASSUME CacheInv, NEW p \in Processes, Download(p)
    PROVE  CacheInv'
  <1>1. asked[p] \in Modules
    BY DEF CacheInv, TypeOK, Download
  <1>2. CASE required[asked[p]] = NotRequired
    <2>1. TypeOK'
      BY <1>2, CacheAssumption DEF CacheInv, TypeOK, Download, Return
    <2>2. ListsWhatIsThere'
      BY <1>2 DEF CacheInv, TypeOK, ListsWhatIsThere, Download, Return
    <2>3. QED
      BY <2>1, <2>2 DEF CacheInv
  <1>3. CASE required[asked[p]] # NotRequired
    <2>1. required[asked[p]] \in Versions
      BY <1>1, <1>3 DEF CacheInv, TypeOK
    <2>2. /\ cache' = cache \cup {<<asked[p], required[asked[p]]>>}
          /\ place' = [place EXCEPT ![p] = "list"]
          /\ UNCHANGED <<asked, outcome, required, disturbed, disturbances>>
      BY <1>3 DEF Download
    <2>3. TypeOK'
      BY <1>1, <2>1, <2>2, CacheAssumption DEF CacheInv, TypeOK
    <2>4. ListsWhatIsThere'
      BY <2>1, <2>2 DEF CacheInv, TypeOK, ListsWhatIsThere
    <2>5. QED
      BY <2>3, <2>4 DEF CacheInv
  <1>4. QED
    BY <1>2, <1>3

LEMMA ListedIsAVersionOrAnError ==
    ASSUME CacheInv, NEW m \in Modules
    PROVE  /\ Listed(m) \in Versions \cup {Failed, NoDirectory}
           /\ Listed(m) \in Versions => Listed(m) = required[m]
  BY CacheAssumption DEF Listed, CacheInv, TypeOK

LEMMA ListKeepsInv ==
    ASSUME CacheInv, NEW p \in Processes, List(p)
    PROVE  CacheInv'
  <1>1. asked[p] \in Modules
    BY DEF CacheInv, TypeOK, List
  <1>2. PICK result \in Versions \cup {Failed} : Return(p, result)
    BY <1>1, ListedIsAVersionOrAnError DEF List
  <1>3. UNCHANGED <<required, cache, disturbed, disturbances>>
    BY DEF List
  <1>4. TypeOK'
    BY <1>2, <1>3, CacheAssumption DEF CacheInv, TypeOK, Return
  <1>5. ListsWhatIsThere'
    BY <1>2, <1>3 DEF CacheInv, TypeOK, ListsWhatIsThere, Return
  <1>6. QED
    BY <1>4, <1>5 DEF CacheInv

LEMMA DisturbanceKeepsInv ==
    ASSUME CacheInv,
           \/ \E p \in Processes : CommandFails(p) \/ ListWarns(p)
           \/ CleanCache
           \/ \E m \in Modules, version \in Versions \cup {NotRequired} :
                 EditTooling(m, version)
    PROVE  CacheInv'
  <1>1. ASSUME NEW p \in Processes, CommandFails(p) \/ ListWarns(p)
        PROVE  CacheInv'
    <2>1. TypeOK'
      BY <1>1, CacheAssumption
         DEF CacheInv, TypeOK, CommandFails, ListWarns, Disturb, Return
    <2>2. ListsWhatIsThere'
      BY <1>1
         DEF CacheInv, TypeOK, ListsWhatIsThere, CommandFails, ListWarns, Disturb,
             Return
    <2>3. QED
      BY <2>1, <2>2 DEF CacheInv
  <1>2. CASE CleanCache
    <2>1. TypeOK'
      BY <1>2, CacheAssumption DEF CacheInv, TypeOK, CleanCache, Disturb, Calling
    <2>2. ListsWhatIsThere'
      BY <1>2 DEF CacheInv, TypeOK, ListsWhatIsThere, CleanCache, Disturb, Calling
    <2>3. QED
      BY <2>1, <2>2 DEF CacheInv
  <1>3. ASSUME NEW m \in Modules, NEW version \in Versions \cup {NotRequired},
               EditTooling(m, version)
        PROVE  CacheInv'
    <2>1. TypeOK'
      BY <1>3, CacheAssumption DEF CacheInv, TypeOK, EditTooling, Disturb, Calling
    <2>2. ListsWhatIsThere'
      BY <1>3 DEF CacheInv, TypeOK, ListsWhatIsThere, EditTooling, Disturb, Calling
    <2>3. QED
      BY <2>1, <2>2 DEF CacheInv
  <1>4. QED
    BY <1>1, <1>2, <1>3

LEMMA FillKeepsInv ==
    ASSUME CacheInv, NEW m \in Modules, NEW version \in Versions,
           FillCache(m, version)
    PROVE  CacheInv'
  <1>1. TypeOK'
    BY DEF CacheInv, TypeOK, FillCache
  <1>2. ListsWhatIsThere'
    BY DEF CacheInv, ListsWhatIsThere, FillCache
  <1>3. QED
    BY <1>1, <1>2 DEF CacheInv

LEMMA NextKeepsCacheInv == CacheInv /\ [Next]_vars => CacheInv'
  <1>1. CacheInv /\ UNCHANGED vars => CacheInv'
    BY DEF CacheInv, TypeOK, ListsWhatIsThere, vars
  <1>2. CacheInv /\ Next => CacheInv'
    BY ResolveKeepsInv, DownloadKeepsInv, ListKeepsInv, DisturbanceKeepsInv,
       FillKeepsInv DEF Next, Command
  <1>3. QED
    BY <1>1, <1>2

(* Each process lists, undisturbed, only what its own download has put into  *)
(* the cache for the version required (ResolveModuleDir's order of commands).*)
THEOREM CacheInvariant == Spec => []CacheInv
  BY InitCacheInv, NextKeepsCacheInv, PTL DEF Spec

(* An outcome is a version, an error or what was mixed with stderr, never an *)
(* empty directory, and every other variable keeps its type                  *)
(* (production.go:87-89).                                                    *)
THEOREM TypeCorrect == Spec => []TypeOK
  <1>1. CacheInv => TypeOK
    BY DEF CacheInv
  <1>2. QED
    BY CacheInvariant, <1>1, PTL

-------------------------------------------------------------------------------
(* The steps of the promise.                                                 *)
LEMMA AnswersPromised ==
    ASSUME CacheInv, NEW p \in Processes, NEW result, Return(p, result),
           place[p] # "idle", UNCHANGED required,
           disturbed' \in {disturbed, disturbed \cup {p}},
           \/ required[asked[p]] # NotRequired /\ result = required[asked[p]]
           \/ /\ required[asked[p]] = NotRequired \/ p \in disturbed'
              /\ result = Failed
           \/ /\ required[asked[p]] # NotRequired /\ p \in disturbed'
              /\ result = MixedOutput
    PROVE  PromisedStep
  <1>1. Asked[p] = asked[p] /\ asked[p] # None
    BY CacheAssumption DEF Asked, CacheInv, TypeOK
  <1>2. Asked' = [Asked EXCEPT ![p] = None]
    BY DEF Asked, Return, CacheInv, TypeOK
  <1>3. outcome' = [outcome EXCEPT ![p] = result]
    BY DEF Return
  <1>4. WithoutCache!Answers(p)
    BY <1>1, <1>2, <1>3 DEF WithoutCache!Answers, Asked
  <1>5. QED
    BY <1>4 DEF PromisedStep, WithoutCache!PromiseNext

LEMMA StutterPromised ==
    ASSUME UNCHANGED <<required, outcome, disturbed>>, Asked' = Asked
    PROVE  PromisedStep
  BY DEF PromisedStep, WithoutCache!promiseVars, Asked

LEMMA ResolvePromised ==
    ASSUME CacheInv, NEW p \in Processes, NEW m \in Modules, ResolveModuleDir(p, m)
    PROVE  PromisedStep
  <1>1. Asked[p] = None /\ Asked' = [Asked EXCEPT ![p] = m]
    BY DEF Asked, CacheInv, TypeOK, ResolveModuleDir, Call
  <1>2. WithoutCache!Asks(p, m)
    BY <1>1 DEF WithoutCache!Asks, Asked, ResolveModuleDir, Call
  <1>3. QED
    BY <1>2 DEF PromisedStep, WithoutCache!PromiseNext

LEMMA DownloadPromised ==
    ASSUME CacheInv, NEW p \in Processes, Download(p)
    PROVE  PromisedStep
  <1>1. CASE required[asked[p]] = NotRequired
    BY <1>1, AnswersPromised DEF Download
  <1>2. CASE required[asked[p]] # NotRequired
    <2>1. /\ place' = [place EXCEPT ![p] = "list"]
          /\ UNCHANGED <<asked, outcome, required, disturbed>>
      BY <1>2 DEF Download
    <2>2. Asked' = Asked
      BY <2>1 DEF Asked, Download, CacheInv, TypeOK
    <2>3. QED
      BY <2>1, <2>2, StutterPromised
  <1>3. QED
    BY <1>1, <1>2

LEMMA ListPromised ==
    ASSUME CacheInv, NEW p \in Processes, List(p)
    PROVE  PromisedStep
  <1>1. asked[p] \in Modules /\ place[p] = "list"
    BY DEF CacheInv, TypeOK, List
  <1>2. CASE required[asked[p]] = NotRequired
    <2>1. Return(p, Failed)
      BY <1>2 DEF List, Listed
    <2>2. QED
      BY <1>1, <1>2, <2>1, AnswersPromised DEF List
  <1>3. CASE /\ required[asked[p]] # NotRequired
             /\ <<asked[p], required[asked[p]]>> \in cache
    <2>1. required[asked[p]] # NoDirectory
      BY <1>1, <1>3, CacheAssumption DEF CacheInv, TypeOK
    <2>2. Return(p, required[asked[p]])
      BY <1>3, <2>1 DEF List, Listed
    <2>3. QED
      BY <1>1, <1>3, <2>2, AnswersPromised DEF List
  <1>4. CASE /\ required[asked[p]] # NotRequired
             /\ <<asked[p], required[asked[p]]>> \notin cache
    <2>1. p \in disturbed
      BY <1>1, <1>4 DEF CacheInv, ListsWhatIsThere
    <2>2. Return(p, Failed)
      BY <1>4 DEF List, Listed
    <2>3. QED
      BY <1>1, <2>1, <2>2, AnswersPromised DEF List
  <1>5. QED
    BY <1>2, <1>3, <1>4

LEMMA DisturbancePromised ==
    ASSUME CacheInv, required' \in [Modules -> Versions \cup {NotRequired}],
           disturbed' = disturbed \cup Calling, UNCHANGED <<place, asked, outcome>>
    PROVE  PromisedStep
  <1>1. Calling = {p \in Processes : Asked[p] # None}
    BY CacheAssumption DEF Calling, Asked, CacheInv, TypeOK
  <1>2. Asked' = Asked
    BY DEF Asked
  <1>3. WithoutCache!Disturbs
    BY <1>1, <1>2 DEF WithoutCache!Disturbs, Asked
  <1>4. QED
    BY <1>3 DEF PromisedStep, WithoutCache!PromiseNext

LEMMA InitPromised == Init => WithoutCache!Quiet
  BY DEF Init, WithoutCache!Quiet

(* Every step of a resolution is a step of the promise or a stutter.         *)
LEMMA NextPromised == CacheInv /\ [Next]_vars => PromisedStep
  <1> SUFFICES ASSUME CacheInv, [Next]_vars PROVE PromisedStep
    OBVIOUS
  <1>1. CASE UNCHANGED vars
    BY <1>1, StutterPromised DEF vars, Asked
  <1>2. ASSUME NEW p \in Processes, Command(p)
        PROVE  PromisedStep
    BY <1>2, DownloadPromised, ListPromised DEF Command
  <1>3. ASSUME NEW p \in Processes, CommandFails(p)
        PROVE  PromisedStep
    <2>1. p \in disturbed'
      BY <1>3 DEF CommandFails
    <2>2. QED
      BY <1>3, <2>1, AnswersPromised DEF CommandFails
  <1>8. ASSUME NEW p \in Processes, ListWarns(p)
        PROVE  PromisedStep
    <2>1. asked[p] \in Modules /\ place[p] = "list"
      BY <1>8 DEF ListWarns, CacheInv, TypeOK
    <2>2. required[asked[p]] # NotRequired
      BY <1>8 DEF ListWarns, Listed
    <2>3. p \in disturbed' /\ Return(p, MixedOutput)
      BY <1>8 DEF ListWarns
    <2>4. QED
      BY <1>8, <2>1, <2>2, <2>3, AnswersPromised DEF ListWarns
  <1>4. CASE CleanCache
    BY <1>4, DisturbancePromised DEF CleanCache, CacheInv, TypeOK
  <1>5. ASSUME NEW m \in Modules, NEW version \in Versions \cup {NotRequired},
               EditTooling(m, version)
        PROVE  PromisedStep
    <2>1. required' \in [Modules -> Versions \cup {NotRequired}]
      BY <1>5 DEF EditTooling, CacheInv, TypeOK
    <2>2. QED
      BY <1>5, <2>1, DisturbancePromised DEF EditTooling
  <1>6. ASSUME NEW m \in Modules, NEW version \in Versions, FillCache(m, version)
        PROVE  PromisedStep
    BY <1>6, StutterPromised DEF FillCache, Asked
  <1>7. QED
    BY <1>1, <1>2, <1>3, <1>8, <1>4, <1>5, <1>6, ResolvePromised DEF Next

(* Whatever the cache holds and whoever fills or cleans it, resolutions      *)
(* behave as CachelessResolution allows: the answer is the version required, *)
(* an error is a module that is not required or a call that was disturbed    *)
(* while it ran, and an answer that is no directory such a call too          *)
(* (production.go:67-91).                                                    *)
THEOREM ResolutionsIgnoreTheCache == Spec => CacheDoesNotMatter
  <1>1. CacheInv /\ [Next]_vars
        => [WithoutCache!PromiseNext]_(WithoutCache!promiseVars)
    BY NextPromised DEF PromisedStep
  <1>2. QED
    BY InitPromised, <1>1, CacheInvariant, PTL
       DEF Spec, CacheDoesNotMatter, WithoutCache!Promise
===============================================================================
