--------------------------- MODULE ConformanceProofs ---------------------------
(***************************************************************************)
(* A run that reports success leaves a tenant that conforms, alone and     *)
(* beside others; and what a verdict is worth beside runs that write the   *)
(* tree the verifier reads.                                                *)
(*                                                                         *)
(* What is right for a surface is determined by the manifest and a home    *)
(* that proves it (Right), not by the run that wrote it.  So the argument  *)
(* follows the surfaces a run has written, until it has ended: each of     *)
(* them is right, or another run holds it and is about to make it right    *)
(* (DoneInv); what lands in a held file is right (ArrivingIsRight).  Two   *)
(* runs that write at once were bound by one manifest, because it is read  *)
(* while nobody edits it and no run writes it (BoundInv); and the homes    *)
(* that prove a manifest agree on what is right.                           *)
(***************************************************************************)
EXTENDS Exposures, TenantDataProofs

-------------------------------------------------------------------------------
(* What is right.                                                            *)
Right(h, b, i, contents) ==
    LET callers == Len(b.callers)
    IN  /\ contents # Absent
        /\ i \in 1..callers => Sum256Hex(contents) = b.callers[i].sha256
        /\ \A k \in 1..3 : i = callers + k =>
              Sum256Hex(contents) = b.files[FileTopics[k]].sha256
        /\ i = callers + 4 => IsPrefix(BoundRegion(h, b), contents)
        /\ i = callers + 5 => contents = RenderedCodeowners(h, b)
        /\ i = callers + 6 => contents = RenderedConventions(h, b)

(* Where the paths of the surfaces lie (SurfaceOrder).                       *)
SurfacesLaidOut(b) ==
    LET callers == Len(b.callers)
    IN  /\ callers \in Nat /\ DOMAIN b.callers = 1..callers
        /\ Len(SurfaceOrder(b))
              = callers + 5 + (IF b.conventions = Unbound THEN 0 ELSE 1)
        /\ \A i \in 1..callers : SurfaceOrder(b)[i] = b.callers[i].file
        /\ \A i \in 1..3 :
              SurfaceOrder(b)[callers + i] = b.files[FileTopics[i]].path
        /\ SurfaceOrder(b)[callers + 4] = b.files["gitignore"].path
        /\ SurfaceOrder(b)[callers + 5] = b.codeowners.path
        /\ b.conventions # Unbound =>
              SurfaceOrder(b)[callers + 6] = b.conventions.path

(* Two lists, two elements and a list, one behind the other.                 *)
FivePartsLaidOut(all, p, q, g, c, l) ==
    LET n == Len(p) + Len(q)
    IN  /\ Len(all) = n + 2 + Len(l)
        /\ \A i \in 1..Len(p) : all[i] = p[i]
        /\ \A i \in 1..Len(q) : all[Len(p) + i] = q[i]
        /\ all[n + 1] = g /\ all[n + 2] = c
        /\ \A i \in 1..Len(l) : all[n + 2 + i] = l[i]

LEMMA FiveParts ==
    ASSUME NEW S, NEW p \in Seq(S), NEW q \in Seq(S), NEW g \in S, NEW c \in S,
           NEW l \in Seq(S)
    PROVE  FivePartsLaidOut(p \o q \o <<g>> \o <<c>> \o l, p, q, g, c, l)
  <1> DEFINE two == p \o q
             three == two \o <<g>>
             four == three \o <<c>>
             all == four \o l
             m == Len(p)
             k == Len(q)
  <1>1. m \in Nat /\ k \in Nat /\ Len(l) \in Nat
    OBVIOUS
  <1>2. /\ <<g>> \in Seq(S) /\ Len(<<g>>) = 1 /\ <<g>>[1] = g
        /\ <<c>> \in Seq(S) /\ Len(<<c>>) = 1 /\ <<c>>[1] = c
    OBVIOUS
  <1>3. /\ two \in Seq(S) /\ Len(two) = m + k
        /\ \A i \in 1..m : two[i] = p[i]
        /\ \A i \in 1..k : two[m + i] = q[i]
    BY ConcatLength, ConcatLeft, ConcatRight
  <1> HIDE DEF two
  <1>4. /\ three \in Seq(S) /\ Len(three) = m + k + 1
        /\ \A i \in 1..(m + k) : three[i] = two[i]
        /\ three[m + k + 1] = g
    <2>1. three \in Seq(S) /\ Len(three) = Len(two) + Len(<<g>>)
      BY <1>2, <1>3, ConcatLength
    <2>2. \A i \in 1..Len(two) : three[i] = two[i]
      BY <1>2, <1>3, ConcatLeft
    <2>3. 1 \in 1..Len(<<g>>)
      BY <1>2
    <2>4. three[Len(two) + 1] = <<g>>[1]
      BY <1>2, <1>3, <2>3, ConcatRight
    <2>5. QED
      BY <1>2, <1>3, <2>1, <2>2, <2>4
  <1> HIDE DEF three
  <1>5. /\ four \in Seq(S) /\ Len(four) = m + k + 2
        /\ \A i \in 1..(m + k + 1) : four[i] = three[i]
        /\ four[m + k + 2] = c
    <2>1. four \in Seq(S) /\ Len(four) = Len(three) + Len(<<c>>)
      BY <1>2, <1>4, ConcatLength
    <2>2. \A i \in 1..Len(three) : four[i] = three[i]
      BY <1>2, <1>4, ConcatLeft
    <2>3. 1 \in 1..Len(<<c>>)
      BY <1>2
    <2>4. four[Len(three) + 1] = <<c>>[1]
      BY <1>2, <1>4, <2>3, ConcatRight
    <2> HIDE DEF four, m, k
    <2>5. QED
      BY <1>1, <1>2, <1>4, <2>1, <2>2, <2>4
  <1> HIDE DEF four
  <1>6. /\ all \in Seq(S) /\ Len(all) = m + k + 2 + Len(l)
        /\ \A i \in 1..(m + k + 2) : all[i] = four[i]
        /\ \A i \in 1..Len(l) : all[m + k + 2 + i] = l[i]
    <2>1. all \in Seq(S) /\ Len(all) = Len(four) + Len(l)
      BY <1>5, ConcatLength
    <2>2. \A i \in 1..Len(four) : all[i] = four[i]
      BY <1>5, ConcatLeft
    <2>3. \A i \in 1..Len(l) : all[Len(four) + i] = l[i]
      BY <1>5, ConcatRight
    <2> HIDE DEF all, m, k
    <2>4. QED
      BY <1>1, <1>5, <2>1, <2>2, <2>3
  <1> HIDE DEF all, m, k
  <1>7. \A i \in 1..m : all[i] = p[i]
    <2> SUFFICES ASSUME NEW i \in 1..m PROVE all[i] = p[i]
      OBVIOUS
    <2>1. i \in 1..(m + k) /\ i \in 1..(m + k + 1) /\ i \in 1..(m + k + 2)
      BY <1>1
    <2>2. QED
      BY <1>3, <1>4, <1>5, <1>6, <2>1
  <1>8. \A i \in 1..k : all[m + i] = q[i]
    <2> SUFFICES ASSUME NEW i \in 1..k PROVE all[m + i] = q[i]
      OBVIOUS
    <2>1. m + i \in 1..(m + k) /\ m + i \in 1..(m + k + 1) /\ m + i \in 1..(m + k + 2)
      BY <1>1
    <2>2. QED
      BY <1>3, <1>4, <1>5, <1>6, <2>1
  <1>9. all[m + k + 1] = g /\ all[m + k + 2] = c
    <2>1. /\ m + k + 1 \in 1..(m + k + 1) /\ m + k + 1 \in 1..(m + k + 2)
          /\ m + k + 2 \in 1..(m + k + 2)
      BY <1>1
    <2>2. QED
      BY <1>4, <1>5, <1>6, <2>1
  <1>10. /\ Len(all) = (m + k) + 2 + Len(l)
         /\ \A i \in 1..m : all[i] = p[i]
         /\ \A i \in 1..k : all[m + i] = q[i]
         /\ all[(m + k) + 1] = g /\ all[(m + k) + 2] = c
         /\ \A i \in 1..Len(l) : all[(m + k) + 2 + i] = l[i]
    BY <1>6, <1>7, <1>8, <1>9
  <1>11. FivePartsLaidOut(all, p, q, g, c, l)
    BY <1>10 DEF FivePartsLaidOut, m, k
  <1>12. QED
    BY <1>11 DEF all, four, three, two

LEMMA SurfacesLie ==
    ASSUME NEW b, Decoded(b)
    PROVE  SurfacesLaidOut(b)
  <1> DEFINE S == ManifestPaths \cup WorkflowPaths
             p == CallerPaths(b)
             q == TopicPaths(b)
             g == b.files["gitignore"].path
             c == b.codeowners.path
             l == ConventionsPaths(b)
             callers == Len(b.callers)
             extra == IF b.conventions = Unbound THEN 0 ELSE 1
  <1>1. callers \in Nat /\ DOMAIN b.callers = 1..callers
    BY ManifestsAssumption DEF Decoded, TypedManifest, IsSequence
  <1>2. /\ \A i \in 1..callers : b.callers[i].file \in S
        /\ \A i \in 1..3 : b.files[FileTopics[i]].path \in S
        /\ g \in S /\ c \in S
        /\ b.conventions # Unbound => b.conventions.path \in S
    BY <1>1 DEF Decoded, ValidBindings, ValidCallers, ValidFiles, FileTopics,
       ValidConventions
  <1> HIDE DEF S
  <1>3. /\ p \in Seq(S) /\ Len(p) = callers
        /\ \A i \in 1..callers : p[i] = b.callers[i].file
    <2>1. p \in [1..callers -> S]
      BY <1>2 DEF CallerPaths
    <2> HIDE DEF callers
    <2>2. p \in Seq(S) /\ Len(p) = callers
      BY <1>1, <2>1, FunctionIsSequence
    <2>3. QED
      BY <2>2 DEF CallerPaths, callers
  <1>4. /\ q \in Seq(S) /\ Len(q) = 3
        /\ \A i \in 1..3 : q[i] = b.files[FileTopics[i]].path
    <2>1. Len(FileTopics) = 3
      BY DEF FileTopics
    <2>2. q \in [1..3 -> S]
      BY <1>2, <2>1 DEF TopicPaths
    <2>3. q \in Seq(S) /\ Len(q) = 3
      BY <2>2, FunctionIsSequence
    <2>4. QED
      BY <2>1, <2>3 DEF TopicPaths
  <1>5. /\ l \in Seq(S) /\ Len(l) = extra
        /\ b.conventions # Unbound => l[1] = b.conventions.path
    BY <1>2 DEF ConventionsPaths
  <1>6. extra \in {0, 1} /\ (b.conventions # Unbound => extra = 1)
    OBVIOUS
  <1> DEFINE all == SurfaceOrder(b)
  <1> HIDE DEF S
  <1>7. /\ Len(all) = (Len(p) + Len(q)) + 2 + Len(l)
        /\ \A i \in 1..Len(p) : all[i] = p[i]
        /\ \A i \in 1..Len(q) : all[Len(p) + i] = q[i]
        /\ all[(Len(p) + Len(q)) + 1] = g /\ all[(Len(p) + Len(q)) + 2] = c
        /\ \A i \in 1..Len(l) : all[(Len(p) + Len(q)) + 2 + i] = l[i]
    <2>1. all = p \o q \o <<g>> \o <<c>> \o l
      BY DEF SurfaceOrder
    <2>2. g \in S /\ c \in S /\ p \in Seq(S) /\ q \in Seq(S) /\ l \in Seq(S)
      BY <1>2, <1>3, <1>4, <1>5
    <2> HIDE DEF p, q, g, c, l, all
    <2>3. FivePartsLaidOut(p \o q \o <<g>> \o <<c>> \o l, p, q, g, c, l)
      BY <2>2, FiveParts
    <2>4. QED
      BY <2>1, <2>3 DEF FivePartsLaidOut
  <1> HIDE DEF p, q, g, c, l, extra, callers, all
  <1>8. Len(p) = callers /\ Len(q) = 3 /\ Len(l) = extra
    BY <1>3, <1>4, <1>5
  <1>9. Len(all) = callers + 5 + extra
    BY <1>1, <1>6, <1>7, <1>8
  <1>10. all[callers + 4] = g /\ all[callers + 5] = c
    <2>1. (callers + 3) + 1 = callers + 4 /\ (callers + 3) + 2 = callers + 5
      BY <1>1
    <2>2. QED
      BY <1>7, <1>8, <2>1
  <1>11. b.conventions # Unbound => all[callers + 6] = l[1]
    <2>1. (callers + 3) + 2 + 1 = callers + 6
      BY <1>1
    <2>2. extra = 1 => 1 \in 1..Len(l)
      BY <1>8
    <2>3. QED
      BY <1>6, <1>7, <1>8, <2>1, <2>2
  <1>12. QED
    BY <1>1, <1>3, <1>4, <1>5, <1>7, <1>8, <1>9, <1>10, <1>11
       DEF SurfacesLaidOut, all, callers, extra, g, c

(* Homes that prove a manifest and render alike agree on what is right: the  *)
(* digest of the governed region is in the manifest.                         *)
LEMMA RightElsewhere ==
    ASSUME HomesAgree, NEW b, Decoded(b),
           NEW one \in Releases, HomeProves(HomeTree[one], b),
           NEW other \in Releases, HomeProves(HomeTree[other], b),
           SurfacesLaidOut(b), NEW i \in 1..Len(SurfaceOrder(b)),
           NEW contents, Right(HomeTree[one], b, i, contents)
    PROVE  Right(HomeTree[other], b, i, contents)
  <1>1. BoundRegion(HomeTree[one], b) = BoundRegion(HomeTree[other], b)
    BY DigestsName DEF HomeProves, RegionProven
  <1>2. /\ RenderedCodeowners(HomeTree[one], b) = RenderedCodeowners(HomeTree[other], b)
        /\ b.conventions # Unbound =>
              RenderedConventions(HomeTree[one], b)
                 = RenderedConventions(HomeTree[other], b)
    BY DEF HomesAgree, Decoded
  <1>3. i = Len(b.callers) + 6 => b.conventions # Unbound
    <2> DEFINE extra == IF b.conventions = Unbound THEN 0 ELSE 1
               callers == Len(b.callers)
               count == Len(SurfaceOrder(b))
    <2>1. callers \in Nat /\ count = callers + 5 + extra
      BY DEF SurfacesLaidOut
    <2>2. b.conventions = Unbound => extra = 0
      OBVIOUS
    <2>3. i \in 1..count
      OBVIOUS
    <2> HIDE DEF extra, callers, count
    <2>4. i = callers + 6 => b.conventions # Unbound
      BY <2>1, <2>2, <2>3
    <2>5. QED
      BY <2>4 DEF callers
  <1>4. QED
    BY <1>1, <1>2, <1>3 DEF Right

(* Where every surface is right the tenant conforms, save for what the       *)
(* project block of a license hub may ignore.                                *)
LEMMA AllRightConforms ==
    ASSUME CallersPublished, NEW release \in Releases, NEW b, Decoded(b),
           HomeProves(HomeTree[release], b), NEW t,
           \A i \in 1..Len(SurfaceOrder(b)) :
              Right(HomeTree[release], b, i, t[SurfaceOrder(b)[i]]),
           b.class.licenseHub =>
              LicenseViolations(t[b.files["gitignore"].path]) = {}
    PROVE  SurfacesConform(t, HomeTree[release], b)
  <1> DEFINE h == HomeTree[release]
             callers == Len(b.callers)
             order == SurfaceOrder(b)
             Good(i) == Right(h, b, i, t[order[i]])
  <1>1. TypedHome(h)
    BY TreesAssumption
  <1>2. /\ callers \in Nat /\ DOMAIN b.callers = 1..callers
        /\ Len(order) = callers + 5 + (IF b.conventions = Unbound THEN 0 ELSE 1)
        /\ \A i \in 1..callers : order[i] = b.callers[i].file
        /\ \A i \in 1..3 : order[callers + i] = b.files[FileTopics[i]].path
        /\ order[callers + 4] = b.files["gitignore"].path
        /\ order[callers + 5] = b.codeowners.path
        /\ b.conventions # Unbound => order[callers + 6] = b.conventions.path
    BY <1>1, SurfacesLie DEF SurfacesLaidOut
  <1>3. \A i \in 1..Len(order) : Good(i)
    OBVIOUS
  <1>4. /\ CallersProven(h, b) /\ FileTopicsProven(h, b) /\ RegionProven(h, b)
        /\ CodeownersRenders(h) /\ ConventionsProven(h, b)
    BY DEF HomeProves
  <1> HIDE DEF h, callers, order, Good
  <1>5. CallersConform(t, h, b)
    <2>1. SUFFICES ASSUME NEW i \in 1..callers
                   PROVE  CallerConforms(t, h, b, b.callers[i])
      BY <1>2 DEF CallersConform
    <2>2. Good(i) /\ order[i] = b.callers[i].file
      BY <1>2, <1>3
    <2>3. /\ t[b.callers[i].file] # Absent
          /\ Sum256Hex(t[b.callers[i].file]) = b.callers[i].sha256
      BY <2>2 DEF Good, Right, callers
    <2>4. MasterProven(h, b.callers[i].master, b.callers[i].sha256)
      BY <1>2, <1>4 DEF CallersProven
    <2>5. t[b.callers[i].file] = h[b.callers[i].master]
      BY <2>3, <2>4, DigestsName DEF MasterProven
    <2>6. /\ b.callers[i].master \in DOMAIN PublishedCallerHashes(h)
          /\ PublishedCallerHashes(h)[b.callers[i].master] = b.callers[i].sha256
          /\ CallerPinned(h[b.callers[i].master], b.home)
      BY <1>2, <1>4 DEF CallersPublished, Decoded, h
    <2>7. QED
      BY <2>3, <2>4, <2>5, <2>6 DEF CallerConforms
  <1>6. ASSUME NEW k \in DOMAIN FileTopics
        PROVE  FileTopicConforms(t, h, b, FileTopics[k])
    <2>1. k \in 1..3
      BY DEF FileTopics
    <2>2. Good(callers + k) /\ order[callers + k] = b.files[FileTopics[k]].path
      BY <1>2, <1>3, <2>1
    <2>3. /\ t[b.files[FileTopics[k]].path] # Absent
          /\ Sum256Hex(t[b.files[FileTopics[k]].path]) = b.files[FileTopics[k]].sha256
      BY <2>1, <2>2 DEF Good, Right, callers
    <2>4. MasterProven(h, TopicPath(FileTopics[k]), b.files[FileTopics[k]].sha256)
      BY <1>4 DEF FileTopicsProven
    <2>5. QED
      BY <2>3, <2>4 DEF FileTopicConforms
  <1>7. GitignoreConforms(t, h, b)
    <2>1. Good(callers + 4)
      BY <1>2, <1>3
    <2>2. QED
      BY <1>2, <1>4, <2>1 DEF Good, Right, callers, GitignoreConforms
  <1>8. CodeownersConforms(t, h, b)
    <2>1. Good(callers + 5)
      BY <1>2, <1>3
    <2>2. QED
      BY <1>2, <1>4, <2>1 DEF Good, Right, callers, CodeownersConforms
  <1>9. ConventionsConform(t, h, b)
    <2>1. b.conventions # Unbound => Good(callers + 6)
      BY <1>2, <1>3
    <2>2. QED
      BY <1>2, <1>4, <2>1
         DEF Good, Right, callers, ConventionsConform, ConventionsProven
  <1>10. QED
    BY <1>5, <1>6, <1>7, <1>8, <1>9 DEF SurfacesConform, h

-------------------------------------------------------------------------------
(* The invariants.  A run settles the tenant from the moment it writes until *)
(* the next one is started in its place, if it ended with success.           *)
Settling(r) == pc[r] \in Writes \/ Applied(r)

(* What it writes is proven, and all of it is written when it ends.          *)
BearingInv(r) ==
    LET b == bound[r]
    IN  Settling(r) =>
            /\ Decoded(b) /\ homeRoot[r] \in Releases
            /\ HomeProves(HomeTree[homeRoot[r]], b)
            /\ written[r] \in 0..Len(SurfaceOrder(b))
            /\ Applied(r) => written[r] = Len(SurfaceOrder(b))

(* A surface is right, or another run holds it.                              *)
Stands(r, i) ==
    LET path == SurfaceOrder(bound[r])[i]
    IN  \/ Right(HomeTree[homeRoot[r]], bound[r], i, tenant[path])
        \/ \E s \in Runs \ {r} : Holds(s, path)

DoneInv(r) == Settling(r) => \A i \in 1..written[r] : Stands(r, i)

SettledInv == \A r \in Runs : BearingInv(r) /\ DoneInv(r)

(* Runs that settle the tenant at once agree on what is right.               *)
Alike(r, s) ==
    /\ bound[r] = bound[s]
    /\ \A i \in 1..Len(SurfaceOrder(bound[r])), contents \in Contents :
          Right(HomeTree[homeRoot[r]], bound[r], i, contents) =>
              Right(HomeTree[homeRoot[s]], bound[s], i, contents)

SettlersAgree ==
    \A r, s \in Runs : Settling(r) /\ Settling(s) => Alike(r, s)

(* Nobody disturbs a run that writes: no owner, and no fault of another run. *)
Undisturbed ==
    /\ ~ EditsDuringRuns
    /\ Faults \subseteq {"read"} \/ \A r, s \in Runs : r = s

-------------------------------------------------------------------------------
(* The contents about to arrive are right (CompletePlanIsProven).            *)
LEMMA CurrentIsRight ==
    ASSUME IInv, NEW r \in Runs, pc[r] \in Writes, written[r] < Len(materials[r])
    PROVE  LET h == HomeTree[homeRoot[r]]
               b == bound[r]
           IN  /\ HomeProves(h, b) /\ Decoded(b) /\ homeRoot[r] \in Releases
               /\ Current(r).contents \in Contents
               /\ Right(h, b, written[r] + 1, Current(r).contents)
  <1> DEFINE h == HomeTree[homeRoot[r]]
             b == bound[r]
             plan == materials[r]
             callers == Len(b.callers)
             n == written[r] + 1
             contents == [i \in DOMAIN plan |-> plan[i].contents]
  <1>1. /\ Decoded(b) /\ homeRoot[r] \in Releases /\ HomeProves(h, b)
        /\ ProvenPlan(plan, h, b)
    BY PlanOfRunIsProven DEF Writes
  <1>2. plan \in Seq(PlannedMaterial) /\ written[r] \in 0..Len(plan)
    BY CompletePlanPaths DEF Writes, IInv, TypeOK
  <1>3. n \in 1..Len(plan) /\ DOMAIN plan = 1..Len(plan)
    BY <1>2
  <1>4. contents[n] = Current(r).contents
    BY <1>3 DEF Current
  <1>5. Current(r).contents \in Contents /\ Current(r).contents # Absent
    BY CurrentType, AbsentAssumption
  <1>6. /\ \A i \in 1..callers : Sum256Hex(contents[i]) = b.callers[i].sha256
        /\ \A i \in 1..3 :
              Sum256Hex(contents[callers + i]) = b.files[FileTopics[i]].sha256
        /\ IsPrefix(BoundRegion(h, b), contents[callers + 4])
        /\ contents[callers + 5] = RenderedCodeowners(h, b)
        /\ b.conventions # Unbound =>
              contents[callers + 6] = RenderedConventions(h, b)
    BY <1>1 DEF ProvenPlan
  <1>7. n = callers + 6 => b.conventions # Unbound
    <2> DEFINE extra == IF b.conventions = Unbound THEN 0 ELSE 1
               count == Len(SurfaceOrder(b))
    <2>1. SurfacesLaidOut(b)
      BY <1>1, SurfacesLie, TreesAssumption
    <2>2. callers \in Nat /\ count = callers + 5 + extra
      BY <2>1 DEF SurfacesLaidOut
    <2>3. count = Len(plan)
      BY CurrentIsASurface DEF Writes
    <2>4. b.conventions = Unbound => extra = 0
      OBVIOUS
    <2> HIDE DEF extra, callers, count, n
    <2>5. QED
      BY <1>3, <2>2, <2>3, <2>4
  <1> HIDE DEF h, b, plan, contents, n, callers
  <1>8. Right(h, b, n, contents[n])
    BY <1>4, <1>5, <1>6, <1>7 DEF Right, callers
  <1>9. QED
    BY <1>1, <1>4, <1>5, <1>8 DEF h, b, n

(* What lands is right too.  Another run may have put more into the file     *)
(* since it was truncated: then both write the same, or it is the gitignore, *)
(* and that begins with its region whatever follows.                         *)
LEMMA PrefixOfPrefix ==
    ASSUME NEW s \in Contents, NEW t \in Contents, NEW u \in Contents,
           IsPrefix(s, t), IsPrefix(t, u)
    PROVE  IsPrefix(s, u)
  <1>1. s \in Seq(Chunk) /\ t \in Seq(Chunk) /\ u \in Seq(Chunk)
    BY DEF Contents
  <1>2. ASSUME NEW v \in Seq(Chunk), NEW n \in Nat
        PROVE  After(v, n) \in Seq(Chunk)
    <2>1. n + 1 \in Int /\ Len(v) \in Int
          /\ \A i \in (n + 1)..Len(v) : v[i] \in Chunk
      OBVIOUS
    <2>2. QED
      BY <2>1, SubSeqProperties DEF After
  <1> DEFINE p == After(t, Len(s))
             q == After(u, Len(t))
  <1>3. p \in Seq(Chunk) /\ q \in Seq(Chunk)
    BY <1>1, <1>2
  <1>4. t = s \o p /\ u = t \o q
    BY <1>1, PrefixAndAfter
  <1> HIDE DEF p, q
  <1>5. u = s \o (p \o q) /\ p \o q \in Seq(Chunk)
    BY <1>1, <1>3, <1>4, ConcatAssociative, ConcatProperties
  <1>6. QED
    BY <1>1, <1>5, PrefixOfConcat

Arriving(r) == Landed(Current(r).contents, tenant[Current(r).path])

LEMMA ArrivingIsRight ==
    ASSUME IInv, HeldInv(FALSE), NEW r \in Runs, pc[r] = "writing"
    PROVE  LET h == HomeTree[homeRoot[r]]
               b == bound[r]
           IN  /\ HomeProves(h, b) /\ Decoded(b) /\ homeRoot[r] \in Releases
               /\ Arriving(r) \in Contents
               /\ Right(h, b, written[r] + 1, Arriving(r))
  <1> DEFINE h == HomeTree[homeRoot[r]]
             b == bound[r]
             contents == Current(r).contents
             existing == tenant[Current(r).path]
             n == written[r] + 1
  <1>1. written[r] < Len(materials[r])
    BY DEF IInv, RunInv
  <1>2. /\ HomeProves(h, b) /\ Decoded(b) /\ homeRoot[r] \in Releases
        /\ contents \in Contents /\ Right(h, b, n, contents)
    BY <1>1, CurrentIsRight DEF Writes
  <1>3. existing \in Contents
    BY <1>1, CurrentType DEF HeldInv, IInv, TypeOK
  <1>4. CASE n # GitignorePosition(b)
    <2>1. Arriving(r) = contents
      BY <1>4, HeldLandsWhole DEF InHand, Arriving
    <2>2. QED
      BY <1>2, <2>1
  <1>5. CASE n = GitignorePosition(b)
    <2>1. TypedHome(h) /\ RegionProven(h, b)
      BY <1>2, TreesAssumption DEF HomeProves
    <2>2. BoundRegion(h, b) \in Contents
      BY <1>2, <2>1, BoundRegionType DEF Decoded
    <2>3. Len(b.callers) \in Nat
      <3>1. SurfacesLaidOut(b)
        BY <1>2, SurfacesLie, TreesAssumption
      <3>2. QED
        BY <3>1 DEF SurfacesLaidOut
    <2> HIDE DEF h, b, contents, existing, n
    <2>4. Arriving(r) \in Contents /\ IsPrefix(contents, Arriving(r))
      BY <1>2, <1>3, LandedBegins DEF Arriving, contents, existing
    <2>5. n = Len(b.callers) + 4
      BY <1>5 DEF GitignorePosition
    <2>6. IsPrefix(BoundRegion(h, b), contents)
      BY <1>2, <2>5 DEF Right
    <2>7. IsPrefix(BoundRegion(h, b), Arriving(r))
      BY <1>2, <2>2, <2>4, <2>6, PrefixOfPrefix
    <2>8. Arriving(r) # Absent
      BY <2>4, AbsentAssumption
    <2>9. Right(h, b, n, Arriving(r))
      <3> DEFINE callers == Len(b.callers)
      <3>1. /\ callers \in Nat /\ n = callers + 4
        BY <2>3, <2>5
      <3> HIDE DEF callers
      <3>2. /\ n \notin 1..callers
            /\ \A k \in 1..3 : n # callers + k
            /\ n # callers + 5 /\ n # callers + 6
        BY <3>1
      <3>3. QED
        BY <2>7, <2>8, <3>2 DEF Right, callers
    <2>10. QED
      BY <1>2, <2>4, <2>9 DEF h, b, n
  <1>6. QED
    BY <1>4, <1>5

(* Runs bound by one manifest write the same but for the gitignore: the      *)
(* digests name the masters, and the homes render the other surfaces alike.  *)
LEMMA RightIsOne ==
    ASSUME NEW h, NEW b, SurfacesLaidOut(b), NEW i \in 1..Len(SurfaceOrder(b)),
           i # GitignorePosition(b),
           NEW one, Right(h, b, i, one), NEW other, Right(h, b, i, other)
    PROVE  one = other
  <1> DEFINE callers == Len(b.callers)
             extra == IF b.conventions = Unbound THEN 0 ELSE 1
             count == Len(SurfaceOrder(b))
  <1>1. /\ callers \in Nat /\ count = callers + 5 + extra /\ extra \in 0..1
        /\ i \in 1..count /\ i # callers + 4
    <2>1. extra \in 0..1
      OBVIOUS
    <2>2. callers \in Nat /\ count = callers + 5 + extra
      BY DEF SurfacesLaidOut
    <2>3. i # callers + 4
      BY DEF GitignorePosition
    <2> HIDE DEF callers, extra
    <2>4. QED
      BY <2>1, <2>2, <2>3
  <1>2. /\ i \in 1..callers => Sum256Hex(one) = Sum256Hex(other)
        /\ \A k \in 1..3 : i = callers + k => Sum256Hex(one) = Sum256Hex(other)
        /\ i = callers + 5 => one = other
        /\ i = callers + 6 => one = other
    BY DEF Right
  <1> HIDE DEF callers, extra, count
  <1>3. \/ i \in 1..callers \/ \E k \in 1..3 : i = callers + k
        \/ i = callers + 5 \/ i = callers + 6
    BY <1>1
  <1>4. QED
    BY <1>2, <1>3, DigestsName

LEMMA OverlappingConcur ==
    ASSUME SurfacesApart, HomesAgree, IInv, BoundInv
    PROVE  Concurring(FALSE)
  <1>1. SUFFICES ASSUME NEW r \in Runs, NEW s \in Runs,
                        pc[r] = "writing", pc[s] = "writing",
                        Current(r).path = Current(s).path, InHand(s, FALSE)
                 PROVE  Current(r).contents = Current(s).contents
    BY DEF Concurring
  <1>2. written[r] < Len(materials[r]) /\ written[s] < Len(materials[s])
    BY <1>1 DEF IInv, RunInv
  <1> DEFINE b == bound[s]
             n == written[s] + 1
  <1>3. bound[r] = b
    BY <1>1 DEF BoundInv
  <1>4. /\ Decoded(b) /\ n \in 1..Len(SurfaceOrder(b))
        /\ written[r] + 1 \in 1..Len(SurfaceOrder(b))
        /\ SurfaceOrder(b)[written[r] + 1] = SurfaceOrder(b)[n]
    BY <1>1, <1>2, <1>3, CurrentIsASurface
  <1>5. written[r] + 1 = n
    BY <1>4 DEF SurfacesApart, Decoded
  <1>6. /\ HomeProves(HomeTree[homeRoot[r]], b) /\ homeRoot[r] \in Releases
        /\ Right(HomeTree[homeRoot[r]], b, n, Current(r).contents)
        /\ HomeProves(HomeTree[homeRoot[s]], b) /\ homeRoot[s] \in Releases
        /\ Right(HomeTree[homeRoot[s]], b, n, Current(s).contents)
    BY <1>1, <1>2, <1>3, <1>5, CurrentIsRight DEF Writes
  <1>7. SurfacesLaidOut(b)
    BY <1>4, SurfacesLie, TreesAssumption
  <1>8. n # GitignorePosition(b)
    BY <1>1 DEF InHand
  <1> HIDE DEF b, n
  <1>9. Right(HomeTree[homeRoot[s]], b, n, Current(r).contents)
    BY <1>4, <1>6, <1>7, RightElsewhere
  <1>10. QED
    BY <1>4, <1>6, <1>7, <1>8, <1>9, RightIsOne

-------------------------------------------------------------------------------
(* The steps.                                                                *)
(* Only opening and writing a file, and a fault that hits a write, change    *)
(* the tree.                                                                 *)
LEMMA QuietStepLeavesTree ==
    ASSUME IInv, NEW r \in Runs, ~ OpenFile(r), ~ WriteFile(r),
           Start(r) \/ RunStep(r) \/ Return(r) \/ ReadFails(r)
    PROVE  tenant' = tenant /\ pc[r] # "writing"
  <1>1. CASE PlanGitignore(r)
    BY <1>1, GitignoreIsPlanned
  <1>2. CASE PlanCodeowners(r) \/ PlanConventions(r)
    BY <1>2, PlannedBehind
  <1>3. CASE Elsewhere(r)
    BY <1>3, ElsewhereKeeps
  <1>4. QED
    BY <1>1, <1>2, <1>3 DEF RunStep, Elsewhere

(* A run that settles the tenant after a step that is no write settled it    *)
(* before, or begins to write.                                               *)
LEMMA SettlesByPlanning ==
    ASSUME IInv, NEW r \in Runs, RunMoves(r), ~ OpenFile(r), ~ WriteFile(r),
           Settling(r)'
    PROVE  /\ PlanReturns(r) \/ Finish(r)
           /\ tenant' = tenant /\ pc[r] # "writing"
           /\ UNCHANGED <<bound, homeRoot, materials, written>>
           /\ PlanReturns(r) => pc[r] = "planned" /\ ~ Applied(r)'
           /\ Finish(r) => pc[r] = "write" /\ written[r] = Len(materials[r])
  <1> USE DEF Goto, ExitWith, surroundings, program, Settling, Writes, Applied
  <1>1. /\ pc \in [Runs -> {"idle", "mode", "planned", "prompt", "write", "writing",
                            "exit"} \cup Reading]
        /\ exit \in [Runs -> {-1, 0, 1, 2}]
    BY DEF IInv, TypeOK
  <1>2. ~ Start(r) /\ ~ Return(r)
    BY <1>1 DEF Start, Return
  <1>3. ~ DecodeTenantBindings(r) /\ ~ ResolveHomeRoot(r) /\ ~ ChooseMode(r)
    BY <1>1 DEF DecodeTenantBindings, ResolveHomeRoot, ChooseMode
  <1>4. /\ ~ PlanCallers(r) /\ ~ PlanFileTopics(r) /\ ~ PlanGitignore(r)
        /\ ~ PlanCodeowners(r) /\ ~ PlanConventions(r)
    <2>1. ASSUME NEW STATE proven, NEW STATE appended, NEW here, NEW there,
                 there \notin {"write", "writing", "exit"},
                 PlanStep(r, here, proven, appended, there)
          PROVE  FALSE
      BY <1>1, <2>1 DEF PlanStep
    <2>2. ~ PlanCallers(r)
      BY <2>1 DEF PlanCallers
    <2>3. ~ PlanFileTopics(r)
      BY <2>1 DEF PlanFileTopics
    <2>4. ~ PlanGitignore(r)
      <3> DEFINE h == HomeTree[homeRoot[r]]
                 existing == tenant[bound[r].files["gitignore"].path]
                 proven == RegionProven(h, bound[r])
                           /\ GitignoreComposes(h, bound[r], existing)
                 appended == <<GitignoreMaterial(h, bound[r], existing)>>
      <3>1. PlanGitignore(r)
               => PlanStep(r, "gitignore", proven, appended, "codeowners")
        BY DEF PlanGitignore
      <3> HIDE DEF proven, appended
      <3>2. QED
        BY <2>1, <3>1
    <2>5. ~ PlanCodeowners(r)
      BY <2>1 DEF PlanCodeowners
    <2>6. ~ PlanConventions(r)
      BY <2>1 DEF PlanConventions
    <2>7. QED
      BY <2>2, <2>3, <2>4, <2>5, <2>6
  <1>5. ~ Confirm(r) /\ ~ Decline(r) /\ ~ FaultStep(r)
    BY <1>1 DEF Confirm, Decline, FaultStep, ReadFails, OpenFails, WriteFails, Crash
  <1>6. PlanReturns(r) \/ Finish(r)
    BY <1>2, <1>3, <1>4, <1>5 DEF RunMoves, RunStep
  <1>7. CASE PlanReturns(r)
    BY <1>1, <1>7 DEF PlanReturns, Finish
  <1>8. CASE Finish(r)
    BY <1>1, <1>8 DEF PlanReturns, Finish
  <1>9. QED
    BY <1>6, <1>7, <1>8

(* A step of r leaves what another run has written as it is, if it leaves    *)
(* the tree and holds no file.                                               *)
LEMMA QuietStepKeeps ==
    ASSUME SettledInv, NEW r \in Runs, OthersKeep(r), tenant' = tenant,
           pc[r] # "writing", BearingInv(r)', DoneInv(r)'
    PROVE  SettledInv'
  <1>1. SUFFICES ASSUME NEW s \in Runs \ {r}
                 PROVE  BearingInv(s)' /\ DoneInv(s)'
    BY DEF SettledInv
  <1>2. BearingInv(s) /\ DoneInv(s)
    BY DEF SettledInv
  <1>3. /\ pc'[s] = pc[s] /\ bound'[s] = bound[s] /\ homeRoot'[s] = homeRoot[s]
        /\ written'[s] = written[s] /\ applying'[s] = applying[s]
        /\ exit'[s] = exit[s]
    BY DEF OthersKeep, SameElsewhere
  <1>4. BearingInv(s)'
    BY <1>2, <1>3 DEF BearingInv, Settling, Applied
  <1>5. \A t \in Runs : \A path : Holds(t, path) => Holds(t, path)'
    BY DEF Holds, Current, OthersKeep, SameElsewhere
  <1>6. DoneInv(s)'
    <2>1. SUFFICES ASSUME Settling(s)', NEW i \in 1..written'[s]
                   PROVE  Stands(s, i)'
      BY DEF DoneInv
    <2>2. Stands(s, i)
      BY <1>2, <1>3, <2>1 DEF DoneInv, Settling, Applied
    <2>3. QED
      BY <1>3, <1>5, <2>2 DEF Stands
  <1>7. QED
    BY <1>4, <1>6

(* The steps that write nothing (SettlesByPlanning).                         *)
LEMMA NoWriteKeepsSettled ==
    ASSUME IInv, SettledInv, NEW r \in Runs, RunMoves(r),
           ~ OpenFile(r), ~ WriteFile(r), tenant' = tenant, pc[r] # "writing"
    PROVE  SettledInv'
  <1> DEFINE h == HomeTree[homeRoot[r]]
             b == bound[r]
  <1>1. OthersKeep(r)
    BY OthersAreKept
  <1>2. CASE ~ Settling(r)'
    <2>1. BearingInv(r)' /\ DoneInv(r)'
      BY <1>2 DEF BearingInv, DoneInv
    <2>2. QED
      BY <1>1, <2>1, QuietStepKeeps
  <1>3. CASE Settling(r)'
    <2>1. /\ PlanReturns(r) \/ Finish(r)
          /\ UNCHANGED <<bound, homeRoot, materials, written>>
          /\ PlanReturns(r) => pc[r] = "planned" /\ ~ Applied(r)'
          /\ Finish(r) => pc[r] = "write" /\ written[r] = Len(materials[r])
      BY <1>3, SettlesByPlanning
    <2>2. CASE PlanReturns(r)
      <3>1. /\ Decoded(b) /\ homeRoot[r] \in Releases /\ HomeProves(h, b)
        BY <2>1, <2>2, PlanOfRunIsProven
      <3>2. written[r] = 0
        BY <2>1, <2>2 DEF IInv, RunInv, Progress
      <3>3. Len(SurfaceOrder(b)) \in Nat
        <4>1. Paths(materials[r]) = SurfaceOrder(b) /\ Paths(materials[r]) \in Seq(TenantPaths)
          BY <2>1, <2>2, CompletePlanPaths
        <4>2. SurfaceOrder(b) \in Seq(TenantPaths)
          BY <4>1
        <4> HIDE DEF b
        <4>3. QED
          BY <4>2
      <3>4. BearingInv(r)' /\ DoneInv(r)'
        BY <2>1, <2>2, <3>1, <3>2, <3>3 DEF BearingInv, DoneInv
      <3>5. QED
        BY <1>1, <3>4, QuietStepKeeps
    <2>3. CASE Finish(r)
      <3>1. Settling(r) /\ BearingInv(r) /\ DoneInv(r)
        BY <2>1, <2>3 DEF Settling, Writes, SettledInv
      <3>2. written[r] = Len(SurfaceOrder(b))
        <4>1. Paths(materials[r]) = SurfaceOrder(b) /\ materials[r] \in Seq(PlannedMaterial)
          BY <2>1, <2>3, CompletePlanPaths
        <4>2. Len(Paths(materials[r])) = Len(materials[r])
          BY <4>1 DEF Paths
        <4>3. QED
          BY <2>1, <2>3, <4>1, <4>2
      <3>3. \A t \in Runs \ {r} : \A path : Holds(t, path) => Holds(t, path)'
        BY <1>1 DEF Holds, Current, OthersKeep, SameElsewhere
      <3>4. BearingInv(r)'
        BY <2>1, <3>1, <3>2 DEF BearingInv
      <3>5. DoneInv(r)'
        <4>1. SUFFICES ASSUME NEW i \in 1..written'[r]
                       PROVE  Stands(r, i)'
          BY DEF DoneInv
        <4>2. Stands(r, i)
          BY <2>1, <3>1 DEF DoneInv
        <4>3. QED
          BY <2>1, <3>3, <4>2 DEF Stands
      <3>6. QED
        BY <1>1, <3>4, <3>5, QuietStepKeeps
    <2>4. QED
      BY <2>1, <2>2, <2>3
  <1>4. QED
    BY <1>2, <1>3

(* Opening the next file: whoever wrote it before sees it held.              *)
LEMMA OpenFileKeepsSettled ==
    ASSUME SurfacesApart, IInv, SettledInv, NEW r \in Runs, OpenFile(r)
    PROVE  SettledInv'
  <1> DEFINE there == Current(r).path
  <1>1. /\ pc[r] = "write" /\ pc'[r] = "writing" /\ written[r] < Len(materials[r])
        /\ tenant' = [tenant EXCEPT ![there] = <<>>]
        /\ UNCHANGED <<bound, homeRoot, materials, written, applying, exit>>
        /\ \A s \in Runs \ {r} : pc'[s] = pc[s]
    BY DEF OpenFile, Goto, Put, program, IInv, TypeOK
  <1>2. /\ there \in TenantPaths /\ tenant \in [TenantPaths -> Contents \cup {Absent}]
        /\ written[r] \in Nat
    BY <1>1, CurrentType DEF IInv, TypeOK
  <1>3. /\ \A path : path = there => Holds(r, path)'
        /\ \A t \in Runs : \A path : Holds(t, path) => Holds(t, path)'
    BY <1>1 DEF Holds, Current
  <1>4. /\ Decoded(bound[r]) /\ written[r] + 1 \in 1..Len(SurfaceOrder(bound[r]))
        /\ there = SurfaceOrder(bound[r])[written[r] + 1]
    BY <1>1, CurrentIsASurface
  <1> HIDE DEF there
  <1>5. SUFFICES ASSUME NEW s \in Runs
                 PROVE  BearingInv(s)' /\ DoneInv(s)'
    BY DEF SettledInv
  <1>6. BearingInv(s) /\ DoneInv(s)
    BY DEF SettledInv
  <1>7. Settling(s)' <=> Settling(s)
    BY <1>1 DEF Settling, Writes, Applied
  <1>8. BearingInv(s)'
    BY <1>1, <1>6, <1>7 DEF BearingInv, Applied
  <1>9. DoneInv(s)'
    <2>1. SUFFICES ASSUME Settling(s)', NEW i \in 1..written'[s]
                   PROVE  Stands(s, i)'
      BY DEF DoneInv
    <2> DEFINE path == SurfaceOrder(bound[s])[i]
    <2>2. Stands(s, i) /\ i \in 1..written[s]
      BY <1>1, <1>6, <1>7, <2>1 DEF DoneInv
    <2>3. CASE s # r /\ path = there
      <3>1. Holds(r, path)'
        BY <1>1, <1>3, <2>3
      <3>2. QED
        BY <2>3, <3>1 DEF Stands
    <2>4. CASE path # there
      <3>1. tenant'[path] = tenant[path]
        BY <1>1, <1>2, <2>4
      <3>2. QED
        BY <1>1, <1>3, <2>2, <3>1 DEF Stands
    <2>5. ASSUME s = r
          PROVE  path # there
      <3>1. i \in 1..Len(SurfaceOrder(bound[r])) /\ i # written[r] + 1
        BY <1>2, <1>4, <2>2, <2>5
      <3>2. QED
        BY <1>4, <2>5, <3>1 DEF SurfacesApart, Decoded
    <2>6. QED
      BY <2>3, <2>4, <2>5
  <1>10. QED
    BY <1>8, <1>9

(* The contents arrive: right for this run, and for whoever wrote the file   *)
(* before, as they agree on what is right.                                   *)
LEMMA WriteFileKeepsSettled ==
    ASSUME SurfacesApart, IInv, HeldInv(FALSE), SettledInv, SettlersAgree,
           NEW r \in Runs, WriteFile(r)
    PROVE  SettledInv'
  <1> DEFINE there == Current(r).path
             arrived == Arriving(r)
             n == written[r] + 1
  <1>1. /\ pc[r] = "writing" /\ pc'[r] = "write"
        /\ tenant' = [tenant EXCEPT ![there] = arrived]
        /\ written' = [written EXCEPT ![r] = n]
        /\ UNCHANGED <<bound, homeRoot, materials, applying, exit>>
        /\ \A s \in Runs \ {r} : pc'[s] = pc[s]
    BY DEF WriteFile, Goto, Put, Arriving, IInv, TypeOK
  <1>2. written[r] < Len(materials[r])
    BY <1>1 DEF IInv, RunInv
  <1>3. /\ there \in TenantPaths /\ tenant \in [TenantPaths -> Contents \cup {Absent}]
        /\ written[r] \in Nat /\ written'[r] = n
        /\ \A s \in Runs \ {r} : written'[s] = written[s]
    BY <1>1, <1>2, CurrentType DEF IInv, TypeOK
  <1>4. \A t \in Runs : \A path : path # there /\ Holds(t, path) => Holds(t, path)'
    BY <1>1, <1>3 DEF Holds, Current
  <1>5. /\ Decoded(bound[r]) /\ n \in 1..Len(SurfaceOrder(bound[r]))
        /\ there = SurfaceOrder(bound[r])[n]
    BY <1>1, <1>2, CurrentIsASurface
  <1>6. /\ arrived \in Contents
        /\ Right(HomeTree[homeRoot[r]], bound[r], n, arrived)
    BY <1>1, ArrivingIsRight
  <1> HIDE DEF there, arrived
  <1>7. tenant'[there] = arrived
    BY <1>1, <1>3
  <1>8. SUFFICES ASSUME NEW s \in Runs
                 PROVE  BearingInv(s)' /\ DoneInv(s)'
    BY DEF SettledInv
  <1>9. BearingInv(s) /\ DoneInv(s)
    BY DEF SettledInv
  <1>10. Settling(r) /\ (Settling(s)' <=> Settling(s)) /\ ~ Applied(r)'
    BY <1>1 DEF Settling, Writes, Applied
  <1>11. BearingInv(s)'
    <2>1. CASE s = r
      BY <1>1, <1>3, <1>5, <1>9, <1>10, <2>1 DEF BearingInv
    <2>2. CASE s # r
      BY <1>1, <1>3, <1>9, <1>10, <2>2 DEF BearingInv, Applied
    <2>3. QED
      BY <2>1, <2>2
  <1>12. DoneInv(s)'
    <2>1. SUFFICES ASSUME Settling(s)', NEW i \in 1..written'[s]
                   PROVE  Stands(s, i)'
      BY DEF DoneInv
    <2> DEFINE path == SurfaceOrder(bound[s])[i]
    <2>2. Alike(r, s)
      BY <1>10, <2>1 DEF SettlersAgree
    <2>3. CASE path = there
      <3>1. i \in 1..Len(SurfaceOrder(bound[r])) /\ bound[s] = bound[r]
        <4>1. bound[s] = bound[r]
          BY <2>2 DEF Alike
        <4>2. written'[s] \in 0..Len(SurfaceOrder(bound[s]))
          BY <1>1, <1>10, <1>11, <2>1 DEF BearingInv
        <4>3. QED
          BY <4>1, <4>2, <1>5
      <3>2. i = n
        BY <1>5, <2>3, <3>1 DEF SurfacesApart, Decoded
      <3>3. Right(HomeTree[homeRoot[s]], bound[s], i, arrived)
        BY <1>5, <1>6, <2>2, <3>2 DEF Alike
      <3>4. QED
        BY <1>1, <1>7, <2>3, <3>3 DEF Stands
    <2>4. CASE path # there
      <3>1. tenant'[path] = tenant[path]
        BY <1>1, <1>3, <2>4
      <3>2. i \in 1..written[s]
        <4>1. CASE s = r
          BY <1>3, <2>1, <2>4, <1>5, <4>1
        <4>2. CASE s # r
          BY <1>3, <2>1, <4>2
        <4>3. QED
          BY <4>1, <4>2
      <3>3. Stands(s, i)
        BY <1>9, <1>10, <2>1, <3>2 DEF DoneInv
      <3>4. QED
        BY <1>1, <1>4, <2>4, <3>1, <3>3 DEF Stands
    <2>5. QED
      BY <2>3, <2>4
  <1>13. QED
    BY <1>11, <1>12

(* Where runs wait for owners, and fail only at reads or work alone, what a  *)
(* run has written stays right until it returns.                             *)
LEMMA NextKeepsSettled ==
    ASSUME SurfacesApart, Undisturbed, IInv, HeldInv(FALSE), SettledInv,
           SettlersAgree, [Next]_vars
    PROVE  SettledInv'
  <1>1. CASE UNCHANGED vars
    <2>1. UNCHANGED <<tenant, pc, bound, homeRoot, materials, written, applying, exit>>
      BY <1>1 DEF vars, program
    <2>2. QED
      BY <2>1 DEF SettledInv, BearingInv, DoneInv, Settling, Applied, Stands, Holds,
         Current
  <1>2. ASSUME NEW r \in Runs, RunMoves(r)
        PROVE  SettledInv'
    <2>1. CASE OpenFile(r)
      BY <2>1, OpenFileKeepsSettled
    <2>2. CASE WriteFile(r)
      BY <2>2, WriteFileKeepsSettled
    <2>3. CASE FaultStep(r) /\ \A s \in Runs : s = r
      <3>1. ~ Settling(r)'
        BY <2>3 DEF FaultStep, ReadFails, OpenFails, WriteFails, Crash, ExitWith,
           Settling, Writes, Applied, IInv, TypeOK
      <3>2. \A s \in Runs : BearingInv(s)' /\ DoneInv(s)'
        BY <2>3, <3>1 DEF BearingInv, DoneInv
      <3>3. QED
        BY <3>2 DEF SettledInv
    <2>4. CASE ~ OpenFile(r) /\ ~ WriteFile(r) /\ (FaultStep(r) => ReadFails(r))
      <3>1. tenant' = tenant /\ pc[r] # "writing"
        BY <1>2, <2>4, QuietStepLeavesTree DEF RunMoves
      <3>2. QED
        BY <1>2, <2>4, <3>1, NoWriteKeepsSettled
    <2>5. FaultStep(r) => ReadFails(r) \/ \A s \in Runs : s = r
      BY DEF Undisturbed, FaultStep, OpenFails, WriteFails, Crash, Fault
    <2>6. QED
      BY <2>1, <2>2, <2>3, <2>4, <2>5
  <1>3. ASSUME TenantStep
        PROVE  SettledInv'
    <2>1. \A r \in Runs : pc'[r] = "idle"
      BY <1>3 DEF TenantStep, EditProjectBlock, RemoveUnmarked, Rebind, RepinTools,
         Author, CanEdit, Undisturbed
    <2>2. QED
      BY <2>1 DEF SettledInv, BearingInv, DoneInv, Settling, Writes, Applied
  <1>4. QED
    BY <1>1, <1>2, <1>3 DEF Next, RunMoves

LEMMA InitSettled == Init => SettledInv
  BY DEF Init, SettledInv, BearingInv, DoneInv, Settling, Writes, Applied

(* A license hub is not asked more of its project block than the provisioner *)
(* knows of: it composes the block unread, and the verifier then probes the  *)
(* license family in the whole file (files.go).  The run of a license hub    *)
(* shows the difference.                                                     *)
LicenseFamilyKept ==
    \A r \in Runs :
        Applied(r) /\ bound[r].class.licenseHub =>
            LicenseViolations(tenant[bound[r].files["gitignore"].path]) = {}

(* What has ended with success, and no other run holds, conforms.            *)
LEMMA SettledConforms ==
    ASSUME CallersPublished, SettledInv, LicenseFamilyKept, NEW r \in Runs, Applied(r),
           \A s \in Runs \ {r} : pc[s] # "writing"
    PROVE  SurfacesConform(tenant, HomeTree[homeRoot[r]], bound[r])
  <1> DEFINE b == bound[r]
             release == homeRoot[r]
  <1>1. /\ Decoded(b) /\ release \in Releases /\ HomeProves(HomeTree[release], b)
        /\ written[r] = Len(SurfaceOrder(b))
    BY DEF SettledInv, BearingInv, Settling
  <1>2. \A i \in 1..Len(SurfaceOrder(b)) :
           Right(HomeTree[release], b, i, tenant[SurfaceOrder(b)[i]])
    BY <1>1 DEF SettledInv, DoneInv, Stands, Settling, Holds
  <1>3. b.class.licenseHub => LicenseViolations(tenant[b.files["gitignore"].path]) = {}
    BY DEF LicenseFamilyKept
  <1> HIDE DEF b, release
  <1>4. SurfacesConform(tenant, HomeTree[release], b)
    BY <1>1, <1>2, <1>3, AllRightConforms
  <1>5. QED
    BY <1>4 DEF b, release

-------------------------------------------------------------------------------
(* One run at a time.                                                        *)
LEMMA AloneAgrees ==
    ASSUME Alone
    PROVE  SettlersAgree /\ Undisturbed /\ Concurring(FALSE)
  BY DEF Alone, SettlersAgree, Alike, Undisturbed, Concurring

LEMMA AloneSettles ==
    ASSUME SurfacesApart, Alone, IInv, HeldInv(FALSE), SettledInv, [Next]_vars
    PROVE  HeldInv(FALSE)' /\ SettledInv'
  <1>1. SettlersAgree /\ Undisturbed /\ Concurring(FALSE) /\ FALSE \in BOOLEAN
    BY AloneAgrees
  <1>2. HeldInv(FALSE)'
    BY <1>1, NextKeepsHeld DEF Alone
  <1>3. QED
    BY <1>1, <1>2, NextKeepsSettled

(* A run that reports success leaves a tenant that passes every surface proof*)
(* of the verifier against the home tree it was provisioned from             *)
(* (provision.go:27-28), whatever failed or crashed before it and whatever   *)
(* the tree held - as long as one run works at a time, its surfaces have     *)
(* paths of their own, homes publish the callers they provide, and the       *)
(* project block of a license hub leaves the license family alone.           *)
THEOREM ProvisionedConforms ==
    ASSUME SurfacesApart, CallersPublished, Alone
    PROVE  Spec => [](LicenseFamilyKept => ProvisionedTenantConforms)
  <1> DEFINE SettledRuns == HeldInv(FALSE) /\ SettledInv
  <1>1. IInv /\ SettledRuns /\ [Next]_vars => SettledRuns'
    BY AloneSettles
  <1>2. SettledRuns => (LicenseFamilyKept => ProvisionedTenantConforms)
    BY SettledConforms DEF ProvisionedTenantConforms, Alone
  <1>3. Init => SettledRuns
    BY InitSettled, InitHeld
  <1> HIDE DEF SettledRuns
  <1>4. QED
    BY <1>1, <1>2, <1>3, InductiveInvariant, PTL DEF Spec

-------------------------------------------------------------------------------
(* Runs at once.                                                             *)

(* Runs bound by one manifest agree on what is right.                        *)
LEMMA OverlappingAgree ==
    ASSUME HomesAgree, BoundInv, SettledInv
    PROVE  SettlersAgree
  <1>1. SUFFICES ASSUME NEW r \in Runs, NEW s \in Runs, Settling(r), Settling(s)
                 PROVE  Alike(r, s)
    BY DEF SettlersAgree
  <1>2. /\ Decoded(bound[r]) /\ homeRoot[r] \in Releases
        /\ HomeProves(HomeTree[homeRoot[r]], bound[r])
        /\ Decoded(bound[s]) /\ homeRoot[s] \in Releases
        /\ HomeProves(HomeTree[homeRoot[s]], bound[s])
    BY <1>1 DEF SettledInv, BearingInv
  <1>3. bound[r] = bound[s]
    BY <1>1 DEF BoundInv, Settling, Writes
  <1>4. SurfacesLaidOut(bound[r])
    BY <1>2, SurfacesLie, TreesAssumption
  <1>5. QED
    BY <1>2, <1>3, <1>4, RightElsewhere DEF Alike

(* Runs that overlap in any way, over the manifest the tree holds, leave a   *)
(* tenant that conforms once all have ended and one of them succeeded: no    *)
(* surface is left to a run that was overtaken, and none is made of two -    *)
(* as long as opened files are written, owners wait, and the homes that      *)
(* prove the manifest render alike (Apply, provision.go:104-112).            *)
THEOREM OverlappingRunsAgree ==
    ASSUME SurfacesApart, CallersPublished, HomesAgree, TenantDataApart,
           ~ EditsDuringRuns, Faults \subseteq {"read"}
    PROVE  Spec => [](LicenseFamilyKept => OverlappingRunsConverge)
  <1> DEFINE Shared == BoundInv /\ HeldInv(FALSE) /\ SettledInv
  <1>1. IInv /\ Shared /\ [Next]_vars => Shared'
    <2>1. FALSE \in BOOLEAN
      OBVIOUS
    <2>2. QED
      BY <2>1, NextKeepsSettled, NextKeepsBound, NextKeepsHeld, OverlappingAgree,
         OverlappingConcur DEF Undisturbed
  <1>2. Shared => (LicenseFamilyKept => OverlappingRunsConverge)
    BY SettledConforms DEF OverlappingRunsConverge
  <1>3. Init => Shared
    BY InitSettled, InitBound, InitHeld
  <1> HIDE DEF Shared
  <1>4. QED
    BY <1>1, <1>2, <1>3, InductiveInvariant, PTL DEF Spec

-------------------------------------------------------------------------------
(* The verification beside the runs.                                         *)
(*                                                                           *)
(* The steps of the runs are the steps of Provisioner, so its invariants     *)
(* hold here too.  The walk over the surfaces proves two things of each it   *)
(* leaves behind: what is asked of the home tree alone (SurfaceProven),      *)
(* which stays, and what is asked of the tenant file, which runs may write   *)
(* again - but only with contents that are right (CurrentIsRight).           *)

(* One surface.                                                              *)

(* What the proof of a surface asks of the home tree.                        *)
SurfaceProven(h, b, i) ==
    LET callers == Len(b.callers)
    IN  /\ i \in 1..callers =>
              LET caller == b.callers[i]
              IN  /\ MasterProven(h, caller.master, caller.sha256)
                  /\ caller.master \in DOMAIN PublishedCallerHashes(h)
                  /\ PublishedCallerHashes(h)[caller.master] = caller.sha256
                  /\ CallerPinned(h[caller.master], b.home)
        /\ \A k \in 1..3 : i = callers + k =>
              MasterProven(h, TopicPath(FileTopics[k]), b.files[FileTopics[k]].sha256)
        /\ i = callers + 4 => RegionProven(h, b)
        /\ i = callers + 5 => CodeownersRenders(h)
        /\ i = callers + 6 => ConventionsRender(h, b)

(* What it asks of the file of a license hub that holds the whole region.    *)
Spared(h, b, contents) ==
    /\ b.class.licenseHub
    /\ contents # Absent /\ IsPrefix(BoundRegion(h, b), contents)
    => LicenseViolations(contents) = {}

(* Which proof belongs to which surface.                                     *)
LEMMA SurfaceKinds ==
    ASSUME NEW b, Decoded(b), NEW i \in 1..Len(SurfaceOrder(b))
    PROVE  \/ i \in 1..Len(b.callers)
           \/ \E k \in 1..3 : i = Len(b.callers) + k
           \/ i = Len(b.callers) + 4
           \/ i = Len(b.callers) + 5
           \/ i = Len(b.callers) + 6 /\ b.conventions # Unbound
  <1> DEFINE extra == IF b.conventions = Unbound THEN 0 ELSE 1
             callers == Len(b.callers)
             count == Len(SurfaceOrder(b))
  <1>1. callers \in Nat /\ count = callers + 5 + extra
    BY SurfacesLie DEF SurfacesLaidOut
  <1>2. extra \in {0, 1} /\ (b.conventions = Unbound => extra = 0)
    OBVIOUS
  <1>3. i \in 1..count
    OBVIOUS
  <1> HIDE DEF extra, callers, count
  <1>4. \/ i \in 1..callers
        \/ i = callers + 1 \/ i = callers + 2 \/ i = callers + 3
        \/ i = callers + 4 \/ i = callers + 5
        \/ i = callers + 6 /\ extra = 1
    BY <1>1, <1>2, <1>3
  <1>5. QED
    BY <1>2, <1>4 DEF callers

LEMMA SurfaceProofs ==
    ASSUME NEW c, Decoded(c.bindings), NEW t
    PROVE  LET h == HomeTree[c.release]
               b == c.bindings
               callers == Len(b.callers)
           IN  /\ \A i \in 1..callers :
                     SurfaceConforms(t, c, i) <=> CallerConforms(t, h, b, b.callers[i])
               /\ \A k \in 1..3 :
                     SurfaceConforms(t, c, callers + k)
                        <=> FileTopicConforms(t, h, b, FileTopics[k])
               /\ SurfaceConforms(t, c, callers + 4) <=> GitignoreConforms(t, h, b)
               /\ SurfaceConforms(t, c, callers + 5) <=> CodeownersConforms(t, h, b)
               /\ SurfaceConforms(t, c, callers + 6) <=> ConventionsConform(t, h, b)
  <1> DEFINE h == HomeTree[c.release]
             b == c.bindings
             callers == Len(b.callers)
             Caller(i) == CallerConforms(t, h, b, b.callers[i])
             Topic(k) == FileTopicConforms(t, h, b, FileTopics[k])
             gitignore == GitignoreConforms(t, h, b)
             codeowners == CodeownersConforms(t, h, b)
             conventions == ConventionsConform(t, h, b)
  <1>1. callers \in Nat
    BY SurfacesLie DEF SurfacesLaidOut
  <1>2. Len(FileTopics) = 3
    BY DEF FileTopics
  <1>3. \A i : SurfaceConforms(t, c, i) <=>
           \/ i \in 1..callers /\ Caller(i)
           \/ i \in (callers + 1)..(callers + 3) /\ Topic(i - callers)
           \/ i = callers + 3 + 1 /\ gitignore
           \/ i = callers + 3 + 2 /\ codeowners
           \/ i = callers + 3 + 3 /\ conventions
    BY <1>2 DEF SurfaceConforms
  <1> HIDE DEF callers, Caller, Topic, gitignore, codeowners, conventions
  <1>4. \A i \in 1..callers : SurfaceConforms(t, c, i) <=> Caller(i)
    BY <1>1, <1>3
  <1>5. ASSUME NEW k \in 1..3
        PROVE  SurfaceConforms(t, c, callers + k) <=> Topic(k)
    <2>1. /\ callers + k \notin 1..callers /\ callers + k \in (callers + 1)..(callers + 3)
          /\ (callers + k) - callers = k
          /\ callers + k # callers + 3 + 1 /\ callers + k # callers + 3 + 2
          /\ callers + k # callers + 3 + 3
      BY <1>1
    <2>2. QED
      BY <1>3, <2>1
  <1>6. /\ SurfaceConforms(t, c, callers + 4) <=> gitignore
        /\ SurfaceConforms(t, c, callers + 5) <=> codeowners
        /\ SurfaceConforms(t, c, callers + 6) <=> conventions
    BY <1>1, <1>3
  <1>7. QED
    BY <1>4, <1>5, <1>6 DEF callers, Caller, Topic, gitignore, codeowners, conventions
(* A surface that conforms is proven.                                        *)
LEMMA ConformingIsProven ==
    ASSUME NEW c, Decoded(c.bindings), NEW t, NEW i \in 1..Surfaces(c),
           SurfaceConforms(t, c, i)
    PROVE  SurfaceProven(HomeTree[c.release], c.bindings, i)
  <1> DEFINE h == HomeTree[c.release]
             b == c.bindings
             callers == Len(b.callers)
  <1>1. callers \in Nat
    BY SurfacesLie DEF SurfacesLaidOut
  <1>2. CASE i \in 1..callers
    <2>1. CallerConforms(t, h, b, b.callers[i])
      BY <1>2, SurfaceProofs
    <2>2. CallerPinned(h[b.callers[i].master], b.home)
      BY <2>1, DigestsName DEF CallerConforms, MasterProven
    <2> HIDE DEF callers
    <2>3. /\ \A k \in 1..3 : i # callers + k
          /\ i # callers + 4 /\ i # callers + 5 /\ i # callers + 6
      BY <1>1, <1>2
    <2>4. QED
      BY <2>1, <2>2, <2>3 DEF SurfaceProven, CallerConforms, callers
  <1>3. ASSUME NEW k \in 1..3, i = callers + k
        PROVE  SurfaceProven(h, b, i)
    <2>1. FileTopicConforms(t, h, b, FileTopics[k])
      BY <1>3, SurfaceProofs
    <2> HIDE DEF callers
    <2>2. /\ i \notin 1..callers /\ \A n \in 1..3 : i = callers + n => n = k
          /\ i # callers + 4 /\ i # callers + 5 /\ i # callers + 6
      BY <1>1, <1>3
    <2>3. QED
      BY <2>1, <2>2 DEF SurfaceProven, FileTopicConforms, callers
  <1>4. CASE i \in {callers + 4, callers + 5, callers + 6}
    <2>1. /\ i = callers + 4 => RegionProven(h, b)
          /\ i = callers + 5 => CodeownersRenders(h)
          /\ i = callers + 6 => b.conventions = Unbound \/ ConventionsRender(h, b)
      BY SurfaceProofs
         DEF GitignoreConforms, CodeownersConforms, ConventionsConform
    <2>2. i = callers + 6 => b.conventions # Unbound
      <3> HIDE DEF callers
      <3>1. i = callers + 6 =>
               /\ i \notin 1..callers /\ \A n \in 1..3 : i # callers + n
               /\ i # callers + 4 /\ i # callers + 5
        BY <1>1
      <3>2. QED
        BY <3>1, SurfaceKinds DEF callers, Surfaces
    <2> HIDE DEF callers
    <2>3. i \notin 1..callers /\ \A n \in 1..3 : i # callers + n
      BY <1>1, <1>4
    <2>4. QED
      BY <2>1, <2>2, <2>3 DEF SurfaceProven, callers
  <1>5. QED
    BY <1>2, <1>3, <1>4, SurfaceKinds DEF Surfaces

(* A surface that is proven conforms where its file is right.                *)
LEMMA RightConforms ==
    ASSUME NEW c, Decoded(c.bindings), NEW t, NEW i \in 1..Surfaces(c),
           SurfaceProven(HomeTree[c.release], c.bindings, i),
           Right(HomeTree[c.release], c.bindings, i, t[SurfaceOrder(c.bindings)[i]]),
           Spared(HomeTree[c.release], c.bindings,
                  t[c.bindings.files["gitignore"].path])
    PROVE  SurfaceConforms(t, c, i)
  <1> DEFINE h == HomeTree[c.release]
             b == c.bindings
             callers == Len(b.callers)
             order == SurfaceOrder(b)
             contents == t[order[i]]
  <1>1. /\ callers \in Nat
        /\ \A n \in 1..callers : order[n] = b.callers[n].file
        /\ \A n \in 1..3 : order[callers + n] = b.files[FileTopics[n]].path
        /\ order[callers + 4] = b.files["gitignore"].path
        /\ order[callers + 5] = b.codeowners.path
        /\ b.conventions # Unbound => order[callers + 6] = b.conventions.path
    BY SurfacesLie DEF SurfacesLaidOut
  <1>2. contents # Absent
    BY DEF Right
  <1>3. CASE i \in 1..callers
    <2>1. contents = t[b.callers[i].file] /\ Sum256Hex(contents) = b.callers[i].sha256
      BY <1>1, <1>3 DEF Right
    <2>2. LET caller == b.callers[i]
          IN  /\ MasterProven(h, caller.master, caller.sha256)
              /\ caller.master \in DOMAIN PublishedCallerHashes(h)
              /\ PublishedCallerHashes(h)[caller.master] = caller.sha256
              /\ CallerPinned(h[caller.master], b.home)
      BY <1>3 DEF SurfaceProven
    <2>3. contents = h[b.callers[i].master]
      BY <2>1, <2>2, DigestsName DEF MasterProven
    <2>4. CallerConforms(t, h, b, b.callers[i])
      BY <1>2, <2>1, <2>2, <2>3 DEF CallerConforms
    <2>5. QED
      BY <1>3, <2>4, SurfaceProofs
  <1>4. ASSUME NEW k \in 1..3, i = callers + k
        PROVE  SurfaceConforms(t, c, i)
    <2>1. /\ contents = t[b.files[FileTopics[k]].path]
          /\ Sum256Hex(contents) = b.files[FileTopics[k]].sha256
      BY <1>1, <1>4 DEF Right
    <2>2. FileTopicConforms(t, h, b, FileTopics[k])
      BY <1>2, <1>4, <2>1 DEF SurfaceProven, FileTopicConforms
    <2>3. QED
      BY <1>4, <2>2, SurfaceProofs
  <1>5. CASE i = callers + 4
    <2>1. GitignoreConforms(t, h, b)
      BY <1>1, <1>2, <1>5 DEF Right, SurfaceProven, GitignoreConforms, Spared
    <2>2. QED
      BY <1>5, <2>1, SurfaceProofs
  <1>6. CASE i = callers + 5
    <2>1. CodeownersConforms(t, h, b)
      BY <1>1, <1>6 DEF Right, SurfaceProven, CodeownersConforms
    <2>2. QED
      BY <1>6, <2>1, SurfaceProofs
  <1>7. CASE i = callers + 6 /\ b.conventions # Unbound
    <2>1. ConventionsConform(t, h, b)
      BY <1>1, <1>7 DEF Right, SurfaceProven, ConventionsConform
    <2>2. QED
      BY <1>7, <2>1, SurfaceProofs
  <1>8. QED
    BY <1>3, <1>4, <1>5, <1>6, <1>7, SurfaceKinds DEF Surfaces

(* The proof of a surface reads one file of the tree.                        *)
LEMMA SurfaceReadsItsFile ==
    ASSUME NEW c, Decoded(c.bindings), NEW t, NEW u, NEW i \in 1..Surfaces(c),
           t[SurfaceOrder(c.bindings)[i]] = u[SurfaceOrder(c.bindings)[i]],
           SurfaceConforms(t, c, i)
    PROVE  SurfaceConforms(u, c, i)
  <1> DEFINE b == c.bindings
             callers == Len(b.callers)
             order == SurfaceOrder(b)
  <1>1. /\ \A n \in 1..callers : order[n] = b.callers[n].file
        /\ \A n \in 1..3 : order[callers + n] = b.files[FileTopics[n]].path
        /\ order[callers + 4] = b.files["gitignore"].path
        /\ order[callers + 5] = b.codeowners.path
        /\ b.conventions # Unbound => order[callers + 6] = b.conventions.path
    BY SurfacesLie DEF SurfacesLaidOut
  <1> DEFINE h == HomeTree[c.release]
  <1>2. CASE i \in 1..callers
    <2>1. CallerConforms(t, h, b, b.callers[i])
      BY <1>2, SurfaceProofs
    <2>2. t[b.callers[i].file] = u[b.callers[i].file]
      BY <1>1, <1>2
    <2>3. CallerConforms(u, h, b, b.callers[i])
      BY <2>1, <2>2 DEF CallerConforms
    <2>4. QED
      BY <1>2, <2>3, SurfaceProofs
  <1>3. ASSUME NEW k \in 1..3, i = callers + k
        PROVE  SurfaceConforms(u, c, i)
    <2>1. FileTopicConforms(t, h, b, FileTopics[k])
      BY <1>3, SurfaceProofs
    <2>2. t[b.files[FileTopics[k]].path] = u[b.files[FileTopics[k]].path]
      BY <1>1, <1>3
    <2>3. FileTopicConforms(u, h, b, FileTopics[k])
      BY <2>1, <2>2 DEF FileTopicConforms
    <2>4. QED
      BY <1>3, <2>3, SurfaceProofs
  <1>4. CASE i = callers + 4
    <2>1. GitignoreConforms(t, h, b)
      BY <1>4, SurfaceProofs
    <2>2. t[b.files["gitignore"].path] = u[b.files["gitignore"].path]
      BY <1>1, <1>4
    <2>3. GitignoreConforms(u, h, b)
      BY <2>1, <2>2 DEF GitignoreConforms
    <2>4. QED
      BY <1>4, <2>3, SurfaceProofs
  <1>5. CASE i = callers + 5
    BY <1>1, <1>5, SurfaceProofs DEF CodeownersConforms
  <1>6. CASE i = callers + 6 /\ b.conventions # Unbound
    BY <1>1, <1>6, SurfaceProofs DEF ConventionsConform
  <1>7. QED
    BY <1>2, <1>3, <1>4, <1>5, <1>6, SurfaceKinds DEF Surfaces

(* The tree conforms when every surface does.                                *)
LEMMA TreeBySurfaces ==
    ASSUME NEW c, Decoded(c.bindings), NEW t
    PROVE  TreeConforms(t, c) <=> \A i \in 1..Surfaces(c) : SurfaceConforms(t, c, i)
  <1> DEFINE h == HomeTree[c.release]
             b == c.bindings
             callers == Len(b.callers)
             extra == IF b.conventions = Unbound THEN 0 ELSE 1
  <1>1. callers \in Nat /\ DOMAIN b.callers = 1..callers /\ Surfaces(c) = callers + 5 + extra
    BY SurfacesLie DEF SurfacesLaidOut, Surfaces
  <1>2. extra \in {0, 1} /\ (b.conventions # Unbound => extra = 1)
    OBVIOUS
  <1>3. DOMAIN FileTopics = 1..3
    BY DEF FileTopics
  <1>4. ASSUME TreeConforms(t, c), NEW i \in 1..Surfaces(c)
        PROVE  SurfaceConforms(t, c, i)
    <2>1. SurfacesConform(t, h, b)
      BY <1>4 DEF TreeConforms
    <2>2. QED
      BY <1>1, <1>3, <2>1, SurfaceKinds, SurfaceProofs
         DEF SurfacesConform, CallersConform, Surfaces
  <1>5. ASSUME \A i \in 1..Surfaces(c) : SurfaceConforms(t, c, i)
        PROVE  TreeConforms(t, c)
    <2>1. /\ \A i \in 1..callers : i \in 1..Surfaces(c)
          /\ \A k \in 1..3 : callers + k \in 1..Surfaces(c)
          /\ callers + 4 \in 1..Surfaces(c) /\ callers + 5 \in 1..Surfaces(c)
          /\ b.conventions # Unbound => callers + 6 \in 1..Surfaces(c)
      <3> HIDE DEF callers, extra
      <3>1. QED
        BY <1>1, <1>2
    <2>2. CallersConform(t, h, b)
      BY <1>1, <1>5, <2>1, SurfaceProofs DEF CallersConform
    <2>3. \A k \in DOMAIN FileTopics : FileTopicConforms(t, h, b, FileTopics[k])
      BY <1>3, <1>5, <2>1, SurfaceProofs
    <2>4. GitignoreConforms(t, h, b) /\ CodeownersConforms(t, h, b)
      BY <1>5, <2>1, SurfaceProofs
    <2>5. ConventionsConform(t, h, b)
      <3>1. b.conventions # Unbound => ConventionsConform(t, h, b)
        BY <1>5, <2>1, SurfaceProofs
      <3>2. QED
        BY <3>1 DEF ConventionsConform
    <2>6. QED
      BY <2>2, <2>3, <2>4, <2>5 DEF TreeConforms, SurfacesConform
  <1>6. QED
    BY <1>4, <1>5

(* A home whose surfaces are all proven proves the manifest.                 *)
LEMMA ProvenSurfacesProve ==
    ASSUME NEW c, Decoded(c.bindings),
           \A i \in 1..Surfaces(c) : SurfaceProven(HomeTree[c.release], c.bindings, i)
    PROVE  HomeProves(HomeTree[c.release], c.bindings)
  <1> DEFINE h == HomeTree[c.release]
             b == c.bindings
             callers == Len(b.callers)
             extra == IF b.conventions = Unbound THEN 0 ELSE 1
  <1>1. callers \in Nat /\ DOMAIN b.callers = 1..callers /\ Surfaces(c) = callers + 5 + extra
    BY SurfacesLie DEF SurfacesLaidOut, Surfaces
  <1>2. extra \in {0, 1} /\ (b.conventions # Unbound => extra = 1)
    OBVIOUS
  <1>3. DOMAIN FileTopics = 1..3
    BY DEF FileTopics
  <1>4. /\ \A i \in 1..callers : i \in 1..Surfaces(c)
        /\ \A k \in 1..3 : callers + k \in 1..Surfaces(c)
        /\ callers + 4 \in 1..Surfaces(c) /\ callers + 5 \in 1..Surfaces(c)
        /\ b.conventions # Unbound => callers + 6 \in 1..Surfaces(c)
    <2> HIDE DEF callers, extra
    <2>1. QED
      BY <1>1, <1>2
  <1>5. CallersProven(h, b)
    BY <1>1, <1>4 DEF CallersProven, SurfaceProven
  <1>6. FileTopicsProven(h, b)
    <2>1. ASSUME NEW k \in 1..3
          PROVE  MasterProven(h, TopicPath(FileTopics[k]), b.files[FileTopics[k]].sha256)
      <3>1. SurfaceProven(h, b, callers + k)
        BY <1>4
      <3>2. QED
        BY <3>1 DEF SurfaceProven
    <2>2. QED
      BY <1>3, <2>1 DEF FileTopicsProven
  <1>7. RegionProven(h, b) /\ CodeownersRenders(h)
    <2>1. SurfaceProven(h, b, callers + 4) /\ SurfaceProven(h, b, callers + 5)
      BY <1>4
    <2>2. QED
      BY <2>1 DEF SurfaceProven
  <1>8. ConventionsProven(h, b)
    BY <1>4 DEF SurfaceProven, ConventionsProven
  <1>9. QED
    BY <1>5, <1>6, <1>7, <1>8 DEF HomeProves

-------------------------------------------------------------------------------
(* Types.  A claim was decoded, so its surfaces lie where SurfacesLie says.  *)
ClaimInv ==
    /\ ExposuresTypeOK
    /\ claim # None => Decoded(claim.bindings)
    /\ standing # None => Decoded(standing.bindings)

(* What happens to the tree is a step of the provisioning.                   *)
LEMMA TreeSteps == [ExposuresNext]_exposures => [Next]_vars
  BY DEF exposures, ExposuresNext, VerificationStep, BeginVerification, VerifySurface,
     ReportVerdict, ProvisioningStep, ProvisioningFault, OwnersStep, Next

LEMMA InvariantOfRuns == ExposuresSpec => []IInv
  <1>1. ExposuresInit => IInv
    BY InitIInv DEF ExposuresInit
  <1>2. IInv /\ [ExposuresNext]_exposures => IInv'
    BY TreeSteps, NextIInv
  <1>3. QED
    BY <1>1, <1>2, PTL DEF ExposuresSpec

(* A claim is of the manifest the tree holds and of a release that exists    *)
(* (run of cmd/verify-canonical/main.go).                                    *)
LEMMA ClaimIsDecoded ==
    ASSUME IInv, NEW invocation \in Invocations,
           NEW c \in ClaimsOf(tenant, invocation.home)
    PROVE  /\ c \in Claims /\ c # None /\ Decoded(c.bindings)
           /\ c.bindings = tenant[BindingsFileName][1].bindings
  <1> DEFINE file == tenant[BindingsFileName]
             b == file[1].bindings
             releases == IF invocation.home # None THEN {invocation.home}
                         ELSE PinnedReleases(tenant[b.tools.module], b.home.repository)
  <1>1. /\ Decodes(file)
        /\ c \in {[release |-> release, bindings |-> b] : release \in releases}
    BY DEF ClaimsOf
  <1>2. file \in ReadContents
    BY PathsAreTenantPaths DEF IInv, TypeOK, ReadContents
  <1>3. Decoded(b)
    BY <1>1, <1>2, DecodedManifest
  <1>4. releases \subseteq Releases
    <2>1. invocation.home # None => invocation.home \in Releases
      BY InvocationsAssumption
    <2>2. tenant[b.tools.module] \in ReadContents
      BY <1>3, PathsAreTenantPaths DEF IInv, TypeOK, ReadContents, Decoded, ToolsPaths
    <2> HIDE DEF b
    <2>3. PinnedReleases(tenant[b.tools.module], b.home.repository) \subseteq Releases
      BY <2>2, PinnedReleasesType
    <2>4. QED
      BY <2>1, <2>3
  <1> HIDE DEF releases, b
  <1>5. PICK release \in releases : c = [release |-> release, bindings |-> b]
    BY <1>1
  <1>6. c \in Claims /\ c.bindings = b
    BY <1>3, <1>4, <1>5 DEF Claims, Decoded
  <1>7. QED
    BY <1>3, <1>6, ClaimsAssumption DEF b

LEMMA SurfacesBound ==
    ASSUME NEW c, Decoded(c.bindings)
    PROVE  Surfaces(c) \in 6..(MaxCallerCount + 6)
  <1> DEFINE b == c.bindings
             callers == Len(b.callers)
             extra == IF b.conventions = Unbound THEN 0 ELSE 1
  <1>1. callers \in Nat /\ Surfaces(c) = callers + 5 + extra
    BY SurfacesLie DEF SurfacesLaidOut, Surfaces
  <1>2. callers \in 1..MaxCallerCount
    BY DEF Decoded, ValidBindings, ValidCallers
  <1>3. extra \in {0, 1}
    OBVIOUS
  <1> HIDE DEF callers, extra
  <1>4. QED
    BY <1>1, <1>2, <1>3 DEF MaxCallerCount

LEMMA InitClaimInv == ExposuresInit => ClaimInv
  <1> SUFFICES ASSUME ExposuresInit PROVE ClaimInv
    OBVIOUS
  <1>1. /\ place = "idle" /\ claim = None /\ position = 1 /\ finding = FALSE
        /\ verdict = None /\ deserved = {} /\ quiet = TRUE /\ standing = None
    BY DEF ExposuresInit
  <1>2. 1 \in 1..(MaxCallerCount + 7)
    BY DEF MaxCallerCount
  <1>3. ExposuresTypeOK
    BY <1>1, <1>2 DEF ExposuresTypeOK
  <1>4. QED
    BY <1>1, <1>3 DEF ClaimInv

(* Steps that leave the verification where it is.                            *)
LEMMA ObservedKeepsClaim ==
    ASSUME ClaimInv, Observed, quiet' \in BOOLEAN, standing' \in {standing, None}
    PROVE  ClaimInv'
  <1>1. UNCHANGED <<place, position, finding, claim, verdict>>
    BY DEF Observed, verification
  <1>2. claim # None => TreeConforms(tenant', claim) \in BOOLEAN
    BY DEF TreeConforms, SurfacesConform
  <1>3. /\ deserved' \subseteq BOOLEAN
        /\ (deserved' = {}) = (claim = None)
    BY <1>2 DEF Observed, ClaimInv, ExposuresTypeOK
  <1>4. QED
    BY <1>1, <1>3 DEF ClaimInv, ExposuresTypeOK, Surfaces

LEMMA NextKeepsClaim ==
    ASSUME IInv, ClaimInv, [ExposuresNext]_exposures
    PROVE  ClaimInv'
  <1> USE DEF ClaimInv, ExposuresTypeOK
  <1>1. CASE BeginVerification
    <2>0. PICK invocation \in Invocations :
             \E c \in ClaimsOf(tenant, invocation.home) :
                claim' = c /\ deserved' = {TreeConforms(tenant, c)}
      BY <1>1 DEF BeginVerification
    <2>1. PICK c \in ClaimsOf(tenant, invocation.home) :
             claim' = c /\ deserved' = {TreeConforms(tenant, c)}
      BY <2>0
    <2>2. c \in Claims /\ c # None /\ Decoded(c.bindings)
      BY <2>1, ClaimIsDecoded
    <2>3. TreeConforms(tenant, c) \in BOOLEAN
      BY DEF TreeConforms, SurfacesConform
    <2>4. 1 \in 1..(Surfaces(claim') + 1)
      BY <2>1, <2>2, SurfacesBound DEF MaxCallerCount
    <2>5. QED
      BY <1>1, <2>1, <2>2, <2>3, <2>4 DEF BeginVerification, Surfaces
  <1>2. CASE VerifySurface
    <2>1. Surfaces(claim) \in Nat /\ claim # None
      BY <1>2, SurfacesBound DEF VerifySurface, MaxCallerCount
    <2>2. /\ position' \in 1..(Surfaces(claim) + 1) /\ claim' = claim
      BY <1>2, <2>1 DEF VerifySurface, history
    <2>3. finding' \in BOOLEAN
      BY <1>2 DEF VerifySurface
    <2>4. QED
      BY <1>2, <2>1, <2>2, <2>3 DEF VerifySurface, history, Surfaces
  <1>3. CASE ReportVerdict
    <2>1. Surfaces(claim) \in 6..(MaxCallerCount + 6) /\ claim # None
      BY <1>3, SurfacesBound DEF ReportVerdict
    <2>2. position' \in 1..(MaxCallerCount + 7)
      BY <1>3, <2>1 DEF ReportVerdict, MaxCallerCount
    <2>3. QED
      BY <1>3, <2>1, <2>2 DEF ReportVerdict
  <1>4. CASE ProvisioningStep
    BY <1>4, ObservedKeepsClaim DEF ProvisioningStep
  <1>5. CASE ProvisioningFault \/ OwnersStep
    BY <1>5, ObservedKeepsClaim DEF ProvisioningFault, OwnersStep
  <1>6. CASE UNCHANGED exposures
    BY <1>6 DEF exposures, verification, history, Surfaces
  <1>7. QED
    BY <1>1, <1>2, <1>3, <1>4, <1>5, <1>6 DEF ExposuresNext, VerificationStep

LEMMA InvariantOfClaims == ExposuresSpec => [](IInv /\ ClaimInv)
  <1>1. ExposuresInit => ClaimInv
    BY InitClaimInv
  <1>2. IInv /\ ClaimInv /\ [ExposuresNext]_exposures => ClaimInv'
    BY NextKeepsClaim
  <1>3. QED
    BY <1>1, <1>2, InvariantOfRuns, PTL DEF ExposuresSpec

(* Every variable of the verification keeps its type, whatever runs and      *)
(* owners do to the tree meanwhile; a claim is under way exactly while       *)
(* surfaces are read (run of cmd/verify-canonical/main.go).                  *)
THEOREM ExposuresTypeCorrect == ExposuresSpec => []ExposuresTypeOK
  BY InvariantOfClaims, PTL DEF ClaimInv

-------------------------------------------------------------------------------
(* What the invariants of the verdicts rest on.                              *)

(* The manifest of a claim is the one the tree holds.                        *)
ManifestInv ==
    /\ claim # None => claim.bindings = tenant[BindingsFileName][1].bindings
    /\ standing # None => standing.bindings = tenant[BindingsFileName][1].bindings

(* The home tree of the claim proves the surfaces that were walked.          *)
WalkInv ==
    claim # None /\ ~ finding =>
        \A i \in 1..(position - 1) :
            SurfaceProven(HomeTree[claim.release], claim.bindings, i)

(* What the owners of a license hub write below a whole region leaves the    *)
(* license family alone.  The provisioner composes the block unread, and the *)
(* verifier probes the whole file.                                           *)
LicenseFamilySpared ==
    \A release \in Releases, b \in Manifests :
        ValidBindings(b) =>
            Spared(HomeTree[release], b, tenant[b.files["gitignore"].path])

(* A step of a run, as the verification sees it.                             *)
LEMMA RunsObserved ==
    ASSUME ProvisioningStep \/ ProvisioningFault
    PROVE  Observed /\ \E r \in Runs : RunMoves(r)
  BY DEF ProvisioningStep, ProvisioningFault, RunMoves

LEMMA NextKeepsManifest ==
    ASSUME TenantDataApart, ~ EditsDuringRuns, IInv, ClaimInv, ManifestInv,
           [ExposuresNext]_exposures
    PROVE  ManifestInv'
  <1> DEFINE file == tenant[BindingsFileName]
  <1>1. CASE BeginVerification
    <2>1. PICK invocation \in Invocations :
             \E c \in ClaimsOf(tenant, invocation.home) : claim' = c
      BY <1>1 DEF BeginVerification
    <2>2. claim'.bindings = file[1].bindings
      BY <2>1, ClaimIsDecoded
    <2>3. tenant' = tenant /\ standing' = standing
      BY <1>1 DEF BeginVerification, vars
    <2>4. QED
      BY <2>2, <2>3 DEF ManifestInv
  <1>2. CASE VerifySurface
    BY <1>2 DEF VerifySurface, ManifestInv, vars, history
  <1>3. CASE ReportVerdict
    BY <1>3 DEF ReportVerdict, ManifestInv, ClaimInv, ExposuresTypeOK, vars
  <1>4. CASE ProvisioningStep \/ ProvisioningFault
    <2>1. PICK r \in Runs : RunMoves(r)
      BY <1>4, RunsObserved
    <2>2. file' = file
      BY <2>1, RunsWrite, RunsSpareManifest DEF RunMoves
    <2>3. claim' = claim /\ standing' \in {standing, None}
      BY <1>4 DEF ProvisioningStep, ProvisioningFault, Observed
    <2>4. QED
      BY <2>2, <2>3 DEF ManifestInv
  <1>5. CASE OwnersStep
    BY <1>5 DEF OwnersStep, Observed, ManifestInv, ClaimInv, ExposuresTypeOK
  <1>6. CASE UNCHANGED exposures
    BY <1>6 DEF exposures, vars, history, ManifestInv
  <1>7. QED
    BY <1>1, <1>2, <1>3, <1>4, <1>5, <1>6 DEF ExposuresNext, VerificationStep

LEMMA NextKeepsWalk ==
    ASSUME IInv, ClaimInv, WalkInv, [ExposuresNext]_exposures
    PROVE  WalkInv'
  <1>1. CASE BeginVerification
    BY <1>1 DEF BeginVerification, WalkInv
  <1>2. CASE VerifySurface
    <2>1. SUFFICES ASSUME ~ finding', NEW i \in 1..(position' - 1)
                   PROVE  SurfaceProven(HomeTree[claim.release], claim.bindings, i)
      BY <1>2 DEF VerifySurface, history, WalkInv
    <2>2. /\ ~ finding /\ SurfaceConforms(tenant, claim, position)
          /\ position' = position + 1 /\ claim # None
          /\ position <= Surfaces(claim)
      BY <1>2, <2>1 DEF VerifySurface, ClaimInv, ExposuresTypeOK
    <2>3. position \in Nat \ {0} /\ Surfaces(claim) \in Nat /\ Decoded(claim.bindings)
      BY <2>2, SurfacesBound DEF ClaimInv, ExposuresTypeOK, MaxCallerCount
    <2>4. CASE i = position
      <3>1. position \in 1..Surfaces(claim)
        BY <2>2, <2>3
      <3>2. QED
        BY <2>2, <2>3, <2>4, <3>1, ConformingIsProven
    <2>5. CASE i # position
      <3>1. i \in 1..(position - 1)
        BY <2>2, <2>3, <2>5
      <3>2. QED
        BY <2>2, <3>1 DEF WalkInv
    <2>6. QED
      BY <2>4, <2>5
  <1>3. CASE ReportVerdict
    BY <1>3 DEF ReportVerdict, WalkInv
  <1>4. CASE ProvisioningStep \/ ProvisioningFault \/ OwnersStep
    BY <1>4 DEF ProvisioningStep, ProvisioningFault, OwnersStep, Observed,
       verification, WalkInv
  <1>5. CASE UNCHANGED exposures
    BY <1>5 DEF exposures, verification, history, WalkInv
  <1>6. QED
    BY <1>1, <1>2, <1>3, <1>4, <1>5 DEF ExposuresNext, VerificationStep

LEMMA InitWalk == ExposuresInit => ManifestInv /\ WalkInv /\ BoundInv
  BY InitBound DEF ExposuresInit, ManifestInv, WalkInv

LEMMA InvariantOfWalks ==
    ASSUME TenantDataApart, ~ EditsDuringRuns
    PROVE  ExposuresSpec => [](IInv /\ ClaimInv /\ BoundInv /\ ManifestInv /\ WalkInv)
  <1>1. IInv /\ BoundInv /\ [ExposuresNext]_exposures => BoundInv'
    BY TreeSteps, NextKeepsBound
  <1>2. /\ IInv /\ ClaimInv /\ ManifestInv /\ WalkInv /\ [ExposuresNext]_exposures
        => ManifestInv' /\ WalkInv'
    BY NextKeepsManifest, NextKeepsWalk
  <1>3. QED
    BY <1>1, <1>2, InitWalk, InvariantOfClaims, PTL DEF ExposuresSpec

-------------------------------------------------------------------------------
(* A pass lasts.                                                             *)
Lasts(c, n) ==
    \A i \in 1..n :
        \/ SurfaceConforms(tenant, c, i)
        \/ \E r \in Runs : Holds(r, SurfaceOrder(c.bindings)[i])

(* The home tree of the claim will have to prove all of it for the pass, so  *)
(* it may be asked to while the walk is under way.                           *)
WalkLasts ==
    /\ claim # None /\ quiet /\ ~ finding
    /\ HomeProves(HomeTree[claim.release], claim.bindings)
    => Lasts(claim, position - 1)

StandingLasts ==
    standing # None =>
        /\ \A i \in 1..Surfaces(standing) :
              SurfaceProven(HomeTree[standing.release], standing.bindings, i)
        /\ Lasts(standing, Surfaces(standing))

(* A run re-provisions what lasts with contents that are right for the claim,*)
(* as the homes that prove its manifest agree on them.                       *)
LEMMA RunKeepsLasting ==
    ASSUME SurfacesApart, HomesAgree, IInv, BoundInv, HeldInv(FALSE),
           NEW r \in Runs, Start(r) \/ RunStep(r) \/ Return(r),
           NEW c \in Claims, Decoded(c.bindings),
           c.bindings = tenant[BindingsFileName][1].bindings,
           HomeProves(HomeTree[c.release], c.bindings),
           NEW n \in Nat, n <= Surfaces(c),
           \A i \in 1..n : SurfaceProven(HomeTree[c.release], c.bindings, i),
           Lasts(c, n), LicenseFamilySpared'
    PROVE  Lasts(c, n)'
  <1> DEFINE b == c.bindings
             order == SurfaceOrder(b)
             there == Current(r).path
  <1>1. SUFFICES ASSUME NEW i \in 1..n
                 PROVE  \/ SurfaceConforms(tenant', c, i)
                        \/ \E s \in Runs : Holds(s, order[i])'
    BY DEF Lasts
  <1>2. i \in 1..Surfaces(c)
    <2>1. Surfaces(c) \in Nat
      BY SurfacesBound DEF MaxCallerCount
    <2>2. QED
      BY <2>1
  <1>3. OthersKeep(r)
    BY OthersAreKept DEF RunMoves
  <1>4. \A s \in Runs \ {r} : \A path : Holds(s, path) => Holds(s, path)'
    BY <1>3 DEF OthersKeep, SameElsewhere, Holds, Current
  <1>5. tenant \in [TenantPaths -> Contents \cup {Absent}]
    BY DEF IInv, TypeOK
  <1>6. ASSUME tenant'[order[i]] = tenant[order[i]], ~ Holds(r, order[i])
        PROVE  \/ SurfaceConforms(tenant', c, i)
               \/ \E s \in Runs : Holds(s, order[i])'
    <2>1. SurfaceConforms(tenant, c, i) \/ \E s \in Runs : Holds(s, order[i])
      BY DEF Lasts
    <2>2. CASE SurfaceConforms(tenant, c, i)
      BY <1>2, <1>6, <2>2, SurfaceReadsItsFile
    <2>3. CASE \E s \in Runs : Holds(s, order[i])
      BY <1>4, <1>6, <2>3
    <2>4. QED
      BY <2>1, <2>2, <2>3
  <1>7. CASE OpenFile(r)
    <2>1. /\ pc[r] = "write" /\ pc'[r] = "writing" /\ Current(r)' = Current(r)
          /\ tenant' = [tenant EXCEPT ![there] = <<>>]
      BY <1>7 DEF OpenFile, Goto, Put, program, Current, IInv, TypeOK
    <2>2. CASE order[i] = there
      BY <2>1, <2>2 DEF Holds
    <2>3. CASE order[i] # there
      BY <1>5, <1>6, <2>1, <2>3 DEF Holds
    <2>4. QED
      BY <2>2, <2>3
  <1>8. CASE WriteFile(r)
    <2> DEFINE k == written[r] + 1
               arrived == Arriving(r)
    <2>1. pc[r] = "writing" /\ tenant' = [tenant EXCEPT ![there] = arrived]
      BY <1>8 DEF WriteFile, Put, Arriving
    <2>2. written[r] < Len(materials[r])
      BY <2>1 DEF IInv, RunInv
    <2>3. /\ k \in 1..Len(SurfaceOrder(bound[r])) /\ there = SurfaceOrder(bound[r])[k]
          /\ there \in TenantPaths
      BY <2>1, <2>2, CurrentIsASurface, CurrentType
    <2>4. /\ HomeProves(HomeTree[homeRoot[r]], bound[r]) /\ homeRoot[r] \in Releases
          /\ Right(HomeTree[homeRoot[r]], bound[r], k, arrived)
      BY <2>1, ArrivingIsRight
    <2>5. bound[r] = b
      BY <2>1 DEF BoundInv
    <2> HIDE DEF k, arrived, there
    <2>6. CASE order[i] = there
      <3>1. i = k
        BY <1>2, <2>3, <2>5, <2>6 DEF SurfacesApart, Decoded, Surfaces
      <3>2. c.release \in Releases
        BY DEF Claims
      <3>3. SurfacesLaidOut(b)
        BY SurfacesLie
      <3>4. i \in 1..Len(SurfaceOrder(b))
        BY <1>2 DEF Surfaces
      <3>5. Right(HomeTree[c.release], b, i, arrived)
        BY <2>4, <2>5, <3>1, <3>2, <3>3, <3>4, RightElsewhere
      <3>6. tenant'[order[i]] = arrived
        BY <1>5, <2>1, <2>3, <2>6
      <3>7. Spared(HomeTree[c.release], b, tenant'[b.files["gitignore"].path])
        BY <3>2 DEF LicenseFamilySpared, Decoded
      <3>8. SurfaceConforms(tenant', c, i)
        BY <1>2, <3>5, <3>6, <3>7, RightConforms
      <3>9. QED
        BY <3>8
    <2>7. CASE order[i] # there
      BY <1>5, <1>6, <2>1, <2>7 DEF Holds, there
    <2>8. QED
      BY <2>6, <2>7
  <1>9. CASE ~ OpenFile(r) /\ ~ WriteFile(r)
    <2>1. tenant' = tenant /\ pc[r] # "writing"
      BY <1>9, QuietStepLeavesTree
    <2>2. QED
      BY <1>6, <2>1 DEF Holds
  <1>10. QED
    BY <1>7, <1>8, <1>9

LEMMA VerifyKeepsLasting ==
    ASSUME IInv, ClaimInv, WalkInv, WalkLasts, StandingLasts, VerificationStep
    PROVE  WalkLasts' /\ StandingLasts'
  <1>1. tenant' = tenant /\ UNCHANGED <<pc, materials, written>>
    BY DEF VerificationStep, BeginVerification, VerifySurface, ReportVerdict, vars,
       program
  <1>2. \A c, n : Lasts(c, n) => Lasts(c, n)'
    BY <1>1 DEF Lasts, Holds, Current
  <1>3. standing' = standing => StandingLasts'
    BY <1>2 DEF StandingLasts, Surfaces
  <1>4. CASE BeginVerification
    BY <1>3, <1>4 DEF BeginVerification, WalkLasts, Lasts
  <1>5. CASE VerifySurface
    <2>1. /\ position <= Surfaces(claim) /\ position' = position + 1
          /\ claim # None /\ claim' = claim /\ quiet' = quiet /\ standing' = standing
          /\ finding' = (finding \/ ~ SurfaceConforms(tenant, claim, position))
      BY <1>5 DEF VerifySurface, history, ClaimInv, ExposuresTypeOK
    <2>2. position \in Nat
      BY DEF ClaimInv, ExposuresTypeOK
    <2>3. SUFFICES ASSUME quiet, ~ finding', NEW i \in 1..position,
                          HomeProves(HomeTree[claim.release], claim.bindings)
                   PROVE  \/ SurfaceConforms(tenant, claim, i)
                          \/ \E r \in Runs : Holds(r, SurfaceOrder(claim.bindings)[i])
      BY <1>1, <1>3, <2>1, <2>2 DEF WalkLasts, Lasts, Holds, Current
    <2>4. CASE i = position
      BY <2>1, <2>3, <2>4
    <2>5. CASE i # position
      <3>1. i \in 1..(position - 1)
        BY <2>2, <2>5
      <3>2. QED
        BY <2>1, <2>3, <3>1 DEF WalkLasts, Lasts
    <2>6. QED
      BY <2>4, <2>5
  <1>6. CASE ReportVerdict
    <2>1. /\ claim # None /\ position > Surfaces(claim) /\ claim' = None
          /\ standing' = IF quiet /\ ~ finding THEN claim ELSE standing
      BY <1>6 DEF ReportVerdict, ClaimInv, ExposuresTypeOK
    <2>2. Surfaces(claim) = position - 1 /\ Decoded(claim.bindings)
      BY <2>1, SurfacesBound DEF ClaimInv, ExposuresTypeOK, MaxCallerCount
    <2>3. CASE quiet /\ ~ finding
      <3>1. \A i \in 1..Surfaces(claim) :
               SurfaceProven(HomeTree[claim.release], claim.bindings, i)
        BY <2>1, <2>2, <2>3 DEF WalkInv
      <3>2. HomeProves(HomeTree[claim.release], claim.bindings)
        BY <2>2, <3>1, ProvenSurfacesProve
      <3>3. Lasts(claim, Surfaces(claim))
        BY <2>1, <2>2, <2>3, <3>2 DEF WalkLasts
      <3>4. standing' = claim
        BY <2>1, <2>3
      <3>5. \A c : c = claim => Lasts(c, Surfaces(c))'
        BY <1>2, <3>3 DEF Surfaces
      <3>6. StandingLasts'
        BY <3>1, <3>4, <3>5 DEF StandingLasts, Surfaces
      <3>7. QED
        BY <2>1, <3>6 DEF WalkLasts
    <2>4. CASE ~ (quiet /\ ~ finding)
      BY <1>3, <2>1, <2>4 DEF WalkLasts
    <2>5. QED
      BY <2>3, <2>4
  <1>7. QED
    BY <1>4, <1>5, <1>6 DEF VerificationStep

LEMMA NextKeepsLasting ==
    ASSUME SurfacesApart, HomesAgree, ~ EditsDuringRuns, IInv, BoundInv,
           HeldInv(FALSE), ClaimInv, ManifestInv, WalkInv, WalkLasts, StandingLasts,
           LicenseFamilySpared', [ExposuresNext]_exposures
    PROVE  WalkLasts' /\ StandingLasts'
  <1>1. CASE VerificationStep
    BY <1>1, VerifyKeepsLasting
  <1>2. CASE ProvisioningStep
    <2>1. PICK r \in Runs : Start(r) \/ RunStep(r) \/ Return(r)
      BY <1>2 DEF ProvisioningStep
    <2>2. UNCHANGED <<claim, position, finding, quiet, standing>>
      BY <1>2 DEF ProvisioningStep, Observed, verification
    <2>3. WalkLasts'
      <3>1. SUFFICES ASSUME claim # None, quiet, ~ finding,
                            HomeProves(HomeTree[claim.release], claim.bindings),
                            NEW c, c = claim, NEW n, n = position - 1
                     PROVE  Lasts(c, n)'
        BY <2>2 DEF WalkLasts, Lasts
      <3>2. /\ c \in Claims /\ Decoded(c.bindings)
            /\ n \in Nat /\ n <= Surfaces(c)
            /\ c.bindings = tenant[BindingsFileName][1].bindings
        BY <3>1, SurfacesBound DEF ClaimInv, ExposuresTypeOK, ManifestInv,
           MaxCallerCount
      <3>3. QED
        BY <2>1, <3>1, <3>2, RunKeepsLasting DEF WalkInv, WalkLasts
    <2>4. StandingLasts'
      <3>1. SUFFICES ASSUME standing # None, NEW c, c = standing,
                            NEW n, n = Surfaces(standing)
                     PROVE  Lasts(c, n)'
        BY <2>2 DEF StandingLasts, Lasts, Surfaces
      <3>2. /\ c \in Claims /\ Decoded(c.bindings)
            /\ n \in Nat /\ n <= Surfaces(c)
            /\ c.bindings = tenant[BindingsFileName][1].bindings
        BY <3>1, SurfacesBound DEF ClaimInv, ExposuresTypeOK, ManifestInv,
           MaxCallerCount
      <3>3. /\ \A i \in 1..n : SurfaceProven(HomeTree[c.release], c.bindings, i)
            /\ Lasts(c, n)
        BY <3>1 DEF StandingLasts
      <3>4. HomeProves(HomeTree[c.release], c.bindings)
        BY <3>1, <3>2, <3>3, ProvenSurfacesProve
      <3>5. QED
        BY <2>1, <3>2, <3>3, <3>4, RunKeepsLasting
    <2>5. QED
      BY <2>3, <2>4
  <1>3. CASE ProvisioningFault \/ OwnersStep
    BY <1>3 DEF ProvisioningFault, OwnersStep, WalkLasts, StandingLasts
  <1>4. CASE UNCHANGED exposures
    BY <1>4 DEF exposures, vars, program, verification, history, WalkLasts,
       StandingLasts, Lasts, Holds, Current, Surfaces
  <1>5. QED
    BY <1>1, <1>2, <1>3, <1>4 DEF ExposuresNext

(* A pass lasts, whatever runs do and however many: until an owner edits or a*)
(* call fails, every surface keeps conforming to the claim that passed, save *)
(* for a file whose rewriting is under way (Apply beside Verify) - as long as*)
(* surfaces have paths of their own that are no tenant data, owners wait for *)
(* runs, the homes that prove a manifest render alike, and the project block *)
(* of a license hub leaves the license family alone.                         *)
THEOREM PassesLast ==
    ASSUME SurfacesApart, HomesAgree, TenantDataApart, ~ EditsDuringRuns
    PROVE  ExposuresSpec /\ []LicenseFamilySpared => []PassLasts
  <1> DEFINE Walked == IInv /\ ClaimInv /\ BoundInv /\ ManifestInv /\ WalkInv
  <1> DEFINE Lasting == HeldInv(FALSE) /\ WalkLasts /\ StandingLasts
  <1>1. ExposuresInit => Lasting
    BY InitHeld DEF ExposuresInit, WalkLasts, StandingLasts
  <1>2. Walked /\ Lasting /\ LicenseFamilySpared' /\ [ExposuresNext]_exposures
        => Lasting'
    <2>1. SUFFICES ASSUME Walked, Lasting, LicenseFamilySpared',
                          [ExposuresNext]_exposures
                   PROVE  Lasting'
      OBVIOUS
    <2>2. FALSE \in BOOLEAN /\ [Next]_vars /\ Concurring(FALSE)
      BY <2>1, TreeSteps, OverlappingConcur
    <2>3. HeldInv(FALSE)'
      BY <2>1, <2>2, NextKeepsHeld
    <2>4. QED
      BY <2>1, <2>3, NextKeepsLasting
  <1>3. Lasting => PassLasts
    BY DEF StandingLasts, PassLasts, Lasts
  <1>4. ExposuresSpec => []Walked
    BY InvariantOfWalks
  <1> HIDE DEF Walked, Lasting
  <1>5. QED
    BY <1>1, <1>2, <1>3, <1>4, PTL DEF ExposuresSpec

-------------------------------------------------------------------------------
(* The verdict is the one of some tree.                                      *)

(* A finding was deserved when it was made.  Without one the whole tree      *)
(* conformed at some instant, or what does not conform is still to be read:  *)
(* a run that rewrites it has written all surfaces before it, so that once   *)
(* it conforms the tree does.                                                *)
VerdictInv ==
    claim # None =>
        /\ TreeConforms(tenant, claim) \in deserved
        /\ finding => FALSE \in deserved
        /\ ~ finding =>
              \/ TRUE \in deserved
              \/ \E i \in position..Surfaces(claim) :
                    ~ SurfaceConforms(tenant, claim, i)

LEMMA WrittenTreeConforms ==
    ASSUME SurfacesApart, HomesAgree, Alone, IInv, BoundInv, SettledInv,
           NEW r \in Runs, Written(r),
           NEW c \in Claims, Decoded(c.bindings),
           c.bindings = tenant[BindingsFileName][1].bindings,
           NEW n \in Nat \ {0}, n <= Surfaces(c) + 1,
           \A i \in 1..(n - 1) : SurfaceProven(HomeTree[c.release], c.bindings, i),
           NEW last \in n..Surfaces(c), ~ SurfaceConforms(tenant, c, last),
           \A i \in n..Surfaces(c) : SurfaceConforms(tenant', c, i),
           LicenseFamilySpared'
    PROVE  TreeConforms(tenant', c)
  <1> DEFINE b == c.bindings
             h == HomeTree[c.release]
             order == SurfaceOrder(b)
             there == Current(r).path
             k == written[r] + 1
  <1>1. /\ pc[r] \in Writes /\ written[r] < Len(materials[r])
        /\ \E contents : tenant' = [tenant EXCEPT ![there] = contents]
    BY DEF Written, Writes, Put
  <1>2. /\ k \in 1..Len(SurfaceOrder(bound[r])) /\ there = SurfaceOrder(bound[r])[k]
    BY <1>1, CurrentIsASurface DEF Writes
  <1>3. bound[r] = b
    BY <1>1 DEF BoundInv, Writes
  <1>4. tenant \in [TenantPaths -> Contents \cup {Absent}] /\ Surfaces(c) \in Nat
    <2>1. Surfaces(c) \in Nat
      BY SurfacesBound DEF MaxCallerCount
    <2>2. QED
      BY <2>1 DEF IInv, TypeOK
  <1>5. c.release \in Releases /\ Len(order) = Surfaces(c) /\ SurfacesLaidOut(b)
    BY SurfacesLie DEF Claims, Surfaces
  <1>6. \A i \in 1..Surfaces(c) : i # k => tenant'[order[i]] = tenant[order[i]]
    <2>1. \A i \in 1..Surfaces(c) : i # k => order[i] # there
      BY <1>2, <1>3, <1>5 DEF SurfacesApart, Decoded
    <2>2. QED
      BY <1>1, <1>4, <2>1
  <1>7. last = k
    <2>1. last \in 1..Surfaces(c) /\ SurfaceConforms(tenant', c, last)
      BY <1>4
    <2>2. QED
      BY <1>6, <2>1, SurfaceReadsItsFile
  <1>8. \A i \in 1..Surfaces(c) : i < n \/ i \in n..Surfaces(c)
    BY <1>4
  <1>9. \A i \in 1..Surfaces(c) : SurfaceProven(h, b, i)
    <2>1. SUFFICES ASSUME NEW i \in 1..Surfaces(c) PROVE SurfaceProven(h, b, i)
      OBVIOUS
    <2>2. CASE i \in 1..(n - 1)
      BY <2>2
    <2>3. CASE i \in n..Surfaces(c)
      BY <2>3, ConformingIsProven
    <2>4. QED
      BY <1>4, <2>2, <2>3
  <1>10. HomeProves(h, b)
    BY <1>9, ProvenSurfacesProve
  <1>11. ASSUME NEW i \in 1..Surfaces(c), i < n
         PROVE  SurfaceConforms(tenant', c, i)
    <2>1. written[r] \in Nat
      BY DEF IInv, TypeOK
    <2> DEFINE done == written[r]
    <2> HIDE DEF done
    <2>2. i \in 1..written[r] /\ i # k
      <3>1. k = done + 1 /\ done \in Nat
        BY <2>1 DEF done
      <3> HIDE DEF k
      <3>2. i \in 1..done /\ i # k
        BY <1>4, <1>7, <1>11, <3>1
      <3>3. QED
        BY <3>2 DEF done
    <2>3. Stands(r, i) /\ BearingInv(r)
      BY <1>1, <2>2 DEF SettledInv, DoneInv, Settling
    <2>4. Right(HomeTree[homeRoot[r]], b, i, tenant[order[i]])
      BY <1>3, <2>3 DEF Stands, Alone
    <2>5. homeRoot[r] \in Releases /\ HomeProves(HomeTree[homeRoot[r]], b)
      BY <1>1, <1>3, <2>3 DEF BearingInv, Settling
    <2>6. i \in 1..Len(SurfaceOrder(b))
      BY <1>5
    <2>7. Right(h, b, i, tenant[order[i]])
      BY <1>5, <1>10, <2>4, <2>5, <2>6, RightElsewhere
    <2>8. Right(h, b, i, tenant'[order[i]])
      BY <1>6, <2>2, <2>7
    <2>9. Spared(h, b, tenant'[b.files["gitignore"].path])
      BY <1>5 DEF LicenseFamilySpared, Decoded
    <2>10. SurfaceProven(h, b, i)
      BY <1>9
    <2>11. QED
      BY <2>8, <2>9, <2>10, RightConforms
  <1>12. \A i \in 1..Surfaces(c) : SurfaceConforms(tenant', c, i)
    BY <1>8, <1>11
  <1>13. QED
    BY <1>12, TreeBySurfaces

LEMMA VerifyKeepsVerdict ==
    ASSUME IInv, ClaimInv, VerdictInv, VerificationStep
    PROVE  VerdictInv'
  <1>1. tenant' = tenant
    BY DEF VerificationStep, BeginVerification, VerifySurface, ReportVerdict, vars
  <1>2. CASE BeginVerification
    <2>1. PICK invocation \in Invocations :
             \E c \in ClaimsOf(tenant, invocation.home) :
                claim' = c /\ deserved' = {TreeConforms(tenant, c)}
      BY <1>2 DEF BeginVerification
    <2>2. PICK c \in ClaimsOf(tenant, invocation.home) :
             claim' = c /\ deserved' = {TreeConforms(tenant, c)}
      BY <2>1
    <2>3. Decoded(c.bindings)
      BY <2>2, ClaimIsDecoded
    <2>4. TreeConforms(tenant, c) \/ \E i \in 1..Surfaces(c) : ~ SurfaceConforms(tenant, c, i)
      BY <2>3, TreeBySurfaces
    <2>5. TreeConforms(tenant, c) \in BOOLEAN
      BY DEF TreeConforms, SurfacesConform
    <2>6. /\ TreeConforms(tenant, c) \in deserved'
          /\ TreeConforms(tenant, c) => TRUE \in deserved'
      BY <2>2, <2>5
    <2>7. position' = 1 /\ finding' = FALSE
      BY <1>2 DEF BeginVerification
    <2>8. /\ TreeConforms(tenant, claim)' = TreeConforms(tenant, c)
          /\ Surfaces(claim)' = Surfaces(c)
          /\ \A i : SurfaceConforms(tenant, claim, i)' = SurfaceConforms(tenant, c, i)
      BY <1>1, <2>2 DEF TreeConforms, SurfaceConforms, Surfaces
    <2>9. QED
      BY <2>4, <2>6, <2>7, <2>8 DEF VerdictInv
  <1>3. CASE VerifySurface
    <2>1. /\ position <= Surfaces(claim) /\ position' = position + 1
          /\ claim # None /\ claim' = claim /\ deserved' = deserved
          /\ finding' = (finding \/ ~ SurfaceConforms(tenant, claim, position))
      BY <1>3 DEF VerifySurface, history, ClaimInv, ExposuresTypeOK
    <2>2. /\ position \in Nat \ {0} /\ Surfaces(claim) \in Nat /\ Decoded(claim.bindings)
          /\ finding \in BOOLEAN
      BY <2>1, SurfacesBound DEF ClaimInv, ExposuresTypeOK, MaxCallerCount
    <2>3. finding' => FALSE \in deserved
      <3>1. CASE finding
        BY <2>1, <3>1 DEF VerdictInv
      <3>2. CASE ~ SurfaceConforms(tenant, claim, position)
        <4>1. ~ TreeConforms(tenant, claim)
          BY <2>1, <2>2, <3>2, TreeBySurfaces
        <4>2. TreeConforms(tenant, claim) = FALSE
          BY <4>1 DEF TreeConforms, SurfacesConform
        <4>3. QED
          BY <2>1, <4>2 DEF VerdictInv
      <3>3. QED
        BY <2>1, <3>1, <3>2
    <2>4. ~ finding' => ~ finding /\ SurfaceConforms(tenant, claim, position)
      BY <2>1
    <2>5. ASSUME ~ finding', TRUE \notin deserved
          PROVE  \E i \in (position + 1)..Surfaces(claim) :
                    ~ SurfaceConforms(tenant, claim, i)
      <3>1. PICK i \in position..Surfaces(claim) : ~ SurfaceConforms(tenant, claim, i)
        BY <2>1, <2>4, <2>5 DEF VerdictInv
      <3>2. i # position
        BY <2>4, <2>5, <3>1
      <3>3. i \in (position + 1)..Surfaces(claim)
        BY <2>2, <3>1, <3>2
      <3>4. QED
        BY <3>1, <3>3
    <2>6. /\ TreeConforms(tenant, claim)' = TreeConforms(tenant, claim)
          /\ Surfaces(claim)' = Surfaces(claim)
          /\ \A i : SurfaceConforms(tenant, claim, i)' = SurfaceConforms(tenant, claim, i)
      BY <1>1, <2>1 DEF TreeConforms, SurfaceConforms, Surfaces
    <2>7. QED
      BY <2>1, <2>3, <2>5, <2>6 DEF VerdictInv
  <1>4. CASE ReportVerdict
    BY <1>4 DEF ReportVerdict, VerdictInv
  <1>5. QED
    BY <1>2, <1>3, <1>4 DEF VerificationStep

LEMMA RunKeepsVerdict ==
    ASSUME SurfacesApart, HomesAgree, Alone, IInv, BoundInv, SettledInv, ClaimInv,
           ManifestInv, WalkInv, VerdictInv, LicenseFamilySpared',
           NEW r \in Runs, RunMoves(r), Observed
    PROVE  VerdictInv'
  <1>1. claim' = claim /\ position' = position /\ finding' = finding
    BY DEF Observed, verification
  <1>2. tenant' = tenant \/ Written(r)
    BY RunsWrite DEF RunMoves
  <1>3. CASE tenant' = tenant
    <2>1. /\ TreeConforms(tenant, claim)' = TreeConforms(tenant, claim)
          /\ Surfaces(claim)' = Surfaces(claim) /\ deserved' = deserved
          /\ \A i : SurfaceConforms(tenant, claim, i)' = SurfaceConforms(tenant, claim, i)
      BY <1>1, <1>3 DEF TreeConforms, SurfaceConforms, Surfaces, Observed
    <2>2. QED
      BY <1>1, <2>1 DEF VerdictInv
  <1>4. CASE tenant' # tenant /\ claim # None
    <2>1. deserved' = deserved \cup {TreeConforms(tenant', claim)}
      BY <1>4 DEF Observed
    <2>2. SUFFICES ASSUME NEW c, c = claim
                   PROVE  VerdictInv'
      OBVIOUS
    <2>3. /\ c \in Claims /\ Decoded(c.bindings)
          /\ c.bindings = tenant[BindingsFileName][1].bindings
          /\ position \in Nat \ {0} /\ position <= Surfaces(c) + 1
      BY <1>4, <2>2, SurfacesBound
         DEF ClaimInv, ExposuresTypeOK, ManifestInv, MaxCallerCount
    <2>4. /\ TreeConforms(tenant, claim)' = TreeConforms(tenant', c)
          /\ Surfaces(claim)' = Surfaces(c)
          /\ \A i : SurfaceConforms(tenant, claim, i)' = SurfaceConforms(tenant', c, i)
      BY <1>1, <2>2 DEF TreeConforms, SurfaceConforms, Surfaces
    <2>5. ASSUME ~ finding, TRUE \notin deserved'
          PROVE  \E i \in position..Surfaces(c) : ~ SurfaceConforms(tenant', c, i)
      <3>1. SUFFICES ASSUME \A i \in position..Surfaces(c) :
                               SurfaceConforms(tenant', c, i)
                     PROVE  FALSE
        OBVIOUS
      <3>2. PICK last \in position..Surfaces(c) : ~ SurfaceConforms(tenant, c, last)
        BY <1>4, <2>1, <2>2, <2>5 DEF VerdictInv
      <3>3. \A i \in 1..(position - 1) :
               SurfaceProven(HomeTree[c.release], c.bindings, i)
        BY <1>4, <2>2, <2>5 DEF WalkInv
      <3>4. Written(r)
        BY <1>2, <1>4
      <3>5. \A n : n = position => TreeConforms(tenant', c)
        BY <2>3, <3>1, <3>2, <3>3, <3>4, WrittenTreeConforms
      <3>6. TreeConforms(tenant', c) = TRUE
        BY <3>5 DEF TreeConforms, SurfacesConform
      <3>7. QED
        BY <2>1, <2>2, <2>5, <3>6
    <2>6. finding => FALSE \in deserved'
      BY <1>4, <2>1 DEF VerdictInv
    <2>7. TreeConforms(tenant', c) \in deserved'
      BY <2>1, <2>2
    <2>8. QED
      BY <1>1, <2>4, <2>5, <2>6, <2>7 DEF VerdictInv
  <1>5. CASE claim = None
    BY <1>1, <1>5 DEF VerdictInv
  <1>6. QED
    BY <1>3, <1>4, <1>5

LEMMA NextKeepsVerdict ==
    ASSUME SurfacesApart, HomesAgree, Alone, IInv, BoundInv, SettledInv, ClaimInv,
           ManifestInv, WalkInv, VerdictInv, LicenseFamilySpared',
           [ExposuresNext]_exposures
    PROVE  VerdictInv'
  <1>1. CASE VerificationStep
    BY <1>1, VerifyKeepsVerdict
  <1>2. CASE ProvisioningStep \/ ProvisioningFault
    BY <1>2, RunsObserved, RunKeepsVerdict
  <1>3. CASE OwnersStep
    <2>1. claim' = None
      BY <1>3 DEF OwnersStep, Observed, Alone, ClaimInv, ExposuresTypeOK
    <2>2. QED
      BY <2>1 DEF VerdictInv
  <1>4. CASE UNCHANGED exposures
    <2>1. UNCHANGED <<tenant, claim, position, finding, deserved>>
      BY <1>4 DEF exposures, vars, verification, history
    <2>2. QED
      BY <2>1 DEF VerdictInv, TreeConforms, SurfaceConforms, Surfaces
  <1>5. QED
    BY <1>1, <1>2, <1>3, <1>4 DEF ExposuresNext

(* Every step of both exposures is a step of the atomic verification.        *)
AtOneTreeNext == (\E c \in Claims : AtOneTree!Claim(c)) \/ AtOneTree!Change \/ AtOneTree!Judge

LEMMA ObservedIsAChange ==
    ASSUME ClaimInv, Observed
    PROVE  [AtOneTreeNext]_(AtOneTree!verificationVars)
  <1>1. UNCHANGED <<claim, verdict>>
    BY DEF Observed
  <1>2. CASE tenant' = tenant
    <2>1. deserved' = deserved
      BY <1>2 DEF Observed
    <2>2. QED
      BY <1>1, <1>2, <2>1 DEF AtOneTree!verificationVars
  <1>3. CASE tenant' # tenant
    <2>1. deserved' = IF claim = None THEN {}
                      ELSE deserved \cup {TreeConforms(tenant', claim)}
      BY <1>3 DEF Observed, ClaimInv, ExposuresTypeOK
    <2>2. AtOneTree!Change
      BY <1>1, <1>3, <2>1 DEF AtOneTree!Change
    <2>3. QED
      BY <2>2 DEF AtOneTreeNext
  <1>4. QED
    BY <1>2, <1>3

LEMMA NextIsAtomic ==
    ASSUME IInv, ClaimInv, VerdictInv, [ExposuresNext]_exposures
    PROVE  [AtOneTreeNext]_(AtOneTree!verificationVars)
  <1>1. CASE BeginVerification
    <2>1. PICK invocation \in Invocations :
             \E c \in ClaimsOf(tenant, invocation.home) :
                claim' = c /\ deserved' = {TreeConforms(tenant, c)}
      BY <1>1 DEF BeginVerification
    <2>2. PICK c \in ClaimsOf(tenant, invocation.home) :
             claim' = c /\ deserved' = {TreeConforms(tenant, c)}
      BY <2>1
    <2>3. c \in Claims
      BY ClaimIsDecoded
    <2>4. claim = None /\ verdict' = None /\ tenant' = tenant
      BY <1>1 DEF BeginVerification, ClaimInv, ExposuresTypeOK, vars
    <2>5. AtOneTree!Claim(c)
      BY <2>2, <2>4 DEF AtOneTree!Claim
    <2>6. QED
      BY <2>3, <2>5 DEF AtOneTreeNext
  <1>2. CASE VerifySurface
    BY <1>2 DEF VerifySurface, vars, history, AtOneTree!verificationVars
  <1>3. CASE ReportVerdict
    <2>1. /\ claim # None /\ position > Surfaces(claim)
          /\ verdict' = ~ finding /\ claim' = None /\ deserved' = {}
          /\ tenant' = tenant
      BY <1>3 DEF ReportVerdict, ClaimInv, ExposuresTypeOK, vars
    <2>2. position \in Nat /\ Surfaces(claim) \in Nat /\ finding \in BOOLEAN
      BY <2>1, SurfacesBound DEF ClaimInv, ExposuresTypeOK, MaxCallerCount
    <2>3. position..Surfaces(claim) = {}
      BY <2>1, <2>2
    <2>4. verdict' \in deserved
      <3>1. CASE finding = TRUE
        <4>1. FALSE \in deserved
          BY <2>1, <3>1 DEF VerdictInv
        <4>2. verdict' = FALSE
          BY <2>1, <3>1
        <4>3. QED
          BY <4>1, <4>2
      <3>2. CASE finding = FALSE
        <4>1. TRUE \in deserved
          BY <2>1, <2>3, <3>2 DEF VerdictInv
        <4>2. verdict' = TRUE
          BY <2>1, <3>2
        <4>3. QED
          BY <4>1, <4>2
      <3>3. QED
        BY <2>2, <3>1, <3>2
    <2>5. AtOneTree!Judge
      BY <2>1, <2>4 DEF AtOneTree!Judge
    <2>6. QED
      BY <2>5 DEF AtOneTreeNext
  <1>4. CASE ProvisioningStep \/ ProvisioningFault \/ OwnersStep
    BY <1>4, ObservedIsAChange DEF ProvisioningStep, ProvisioningFault, OwnersStep
  <1>5. CASE UNCHANGED exposures
    BY <1>5 DEF exposures, vars, history, AtOneTree!verificationVars
  <1>6. QED
    BY <1>1, <1>2, <1>3, <1>4, <1>5 DEF ExposuresNext, VerificationStep

(* A verification that reads the tree one file after the other, while a run  *)
(* truncates and writes the files, fails, crashes and is started again, gives*)
(* a verdict that the whole tree deserved at one instant since it began: it  *)
(* implements the one that looks at one tree at once (verify.go:43-63 beside *)
(* provision.go:67-81).  One run works at a time, its surfaces have paths of *)
(* their own that are no tenant data, the homes that prove a manifest render *)
(* alike, and the project block of a license hub leaves the license family   *)
(* alone.                                                                    *)
THEOREM VerdictsAreOfSomeTree ==
    ASSUME SurfacesApart, HomesAgree, TenantDataApart, Alone
    PROVE  ExposuresSpec /\ []LicenseFamilySpared => VerdictOfSomeTree
  <1> DEFINE Walked == IInv /\ ClaimInv /\ BoundInv /\ ManifestInv /\ WalkInv
  <1> DEFINE SettledRuns == HeldInv(FALSE) /\ SettledInv
  <1>1. ExposuresInit => AtOneTree!Unclaimed /\ SettledRuns /\ VerdictInv
    BY InitSettled, InitHeld DEF ExposuresInit, VerdictInv, AtOneTree!Unclaimed
  <1>2. IInv /\ SettledRuns /\ [ExposuresNext]_exposures => SettledRuns'
    BY TreeSteps, AloneSettles
  <1>3. /\ Walked /\ SettledRuns /\ VerdictInv /\ LicenseFamilySpared'
        /\ [ExposuresNext]_exposures
        => VerdictInv'
    BY NextKeepsVerdict
  <1>4. /\ Walked /\ VerdictInv /\ [ExposuresNext]_exposures
        => [(\E c \in Claims : AtOneTree!Claim(c)) \/ AtOneTree!Change
               \/ AtOneTree!Judge]_(AtOneTree!verificationVars)
    BY NextIsAtomic DEF AtOneTreeNext
  <1>5. ExposuresSpec => []Walked
    BY InvariantOfWalks DEF Alone
  <1>6. Walked => IInv
    OBVIOUS
  <1> HIDE DEF Walked, SettledRuns
  <1>7. QED
    BY <1>1, <1>2, <1>3, <1>4, <1>5, <1>6, PTL
       DEF ExposuresSpec, VerdictOfSomeTree, AtOneTree!Verification
================================================================================
