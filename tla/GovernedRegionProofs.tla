------------------------- MODULE GovernedRegionProofs -------------------------
(***************************************************************************)
(* What preserveGitignoreProjectBlock preserves, for files and project     *)
(* blocks of any length: the block below the mark survives every           *)
(* re-rendering of the region above it, and re-rendering the same region   *)
(* again changes nothing.                                                  *)
(***************************************************************************)
EXTENDS GovernedRegion, SequenceTheorems, WellFoundedInduction, NaturalsInduction, TLAPS

(* Induction up to a number, for what loops over lists compute.             *)
Below == {pair \in Nat \X Nat : pair[1] < pair[2]}

LEMMA LeastOf ==
    ASSUME NEW S \in SUBSET Nat, S # {}
    PROVE  \E least \in S : \A n \in S : least <= n
PROOF
  <1>1. Below = OpToRel(<, Nat)
    BY DEF Below, OpToRel
  <1>2. IsWellFoundedOn(Below, Nat)
    BY <1>1, NatLessThanWellFounded
  <1>3. PICK least \in S : \A n \in S : <<n, least>> \notin Below
    BY <1>2, WFMin
  <1>4. ASSUME NEW n \in S PROVE least <= n
    <2>1. <<n, least>> \in Nat \X Nat /\ <<n, least>> \notin Below
      BY <1>3
    <2>2. ~ (<<n, least>>[1] < <<n, least>>[2])
      BY <2>1 DEF Below
    <2> QED
      BY <2>2
  <1> QED
    BY <1>4

LEMMA UpTo ==
    ASSUME NEW n \in Nat, NEW S,
           0 \in S, \A i \in 0..(n - 1) : i \in S => i + 1 \in S
    PROVE  0..n \subseteq S
PROOF
  <1> DEFINE Missing == {i \in 0..n : i \notin S}
  <1>1. CASE Missing = {}
    BY <1>1
  <1>2. CASE Missing # {}
    <2>1. Missing \in SUBSET Nat
      OBVIOUS
    <2>2. PICK least \in Missing : \A i \in Missing : least <= i
      BY <1>2, <2>1, LeastOf
    <2>3. least \in 0..n /\ least # 0
      OBVIOUS
    <2>4. least - 1 \in 0..(n - 1) /\ least - 1 \in S
      BY <2>2, <2>3
    <2> QED
      BY <2>4
  <1> QED
    BY <1>1, <1>2

(* What a loop makes of its start, step by step, is a function.              *)
LEMMA LoopRuns ==
    ASSUME NEW S, NEW start \in S, NEW n \in Nat, NEW step \in [1..n -> [S -> S]]
    PROVE  \E run \in [0..n -> S] :
              run[0] = start /\ \A i \in 1..n : run[i] = step[i][run[i - 1]]
  <1> DEFINE Reached ==
               {m \in 0..n : \E run \in [0..m -> S] :
                   run[0] = start /\ \A i \in 1..m : run[i] = step[i][run[i - 1]]}
  <1>1. 0 \in Reached
    <2> DEFINE run == [i \in 0..0 |-> start]
    <2>1. run \in [0..0 -> S] /\ run[0] = start
      OBVIOUS
    <2> HIDE DEF run
    <2>2. \A i \in 1..0 : run[i] = step[i][run[i - 1]]
      OBVIOUS
    <2>3. 0 \in 0..n
      OBVIOUS
    <2>4. QED
      BY <2>1, <2>2, <2>3
  <1>2. ASSUME NEW m \in 0..(n - 1), m \in Reached
        PROVE  m + 1 \in Reached
    <2>1. PICK run \in [0..m -> S] :
             run[0] = start /\ \A i \in 1..m : run[i] = step[i][run[i - 1]]
      BY <1>2
    <2> DEFINE longer == [i \in 0..(m + 1) |->
                            IF i = m + 1 THEN step[m + 1][run[m]] ELSE run[i]]
    <2>2. m + 1 \in 1..n /\ m \in 0..m
      OBVIOUS
    <2>3. longer \in [0..(m + 1) -> S]
      BY <2>2
    <2>4. longer[m + 1] = step[m + 1][run[m]] /\ \A i \in 0..m : longer[i] = run[i]
      BY <2>2
    <2> HIDE DEF longer
    <2>5. \A i \in 1..(m + 1) : longer[i] = step[i][longer[i - 1]]
      BY <2>1, <2>2, <2>4
    <2>6. m + 1 \in 0..n /\ longer[0] = start
      BY <2>1, <2>2, <2>4
    <2>7. QED
      BY <2>3, <2>5, <2>6
  <1> HIDE DEF Reached
  <1>3. \A i \in 0..(n - 1) : i \in Reached => i + 1 \in Reached
    BY <1>2
  <1>4. 0..n \subseteq Reached
    BY <1>1, <1>3, UpTo
  <1>5. n \in Reached
    BY <1>4
  <1>6. QED
    BY <1>5 DEF Reached

-------------------------------------------------------------------------------
(* A function on an initial segment of the positive numbers is a sequence.   *)
LEMMA FunctionIsSequence ==
    ASSUME NEW S, NEW n \in Nat, NEW f \in [1..n -> S]
    PROVE  f \in Seq(S) /\ Len(f) = n
  OBVIOUS

(* The first mark of a marked file is there (bytes.Index).                   *)
LEMMA FirstMarkExists ==
    ASSUME NEW S, NEW contents \in Seq(S), HasMark(contents)
    PROVE  /\ FirstMark(contents) \in 1..Len(contents)
           /\ contents[FirstMark(contents)] = Mark
           /\ \A j \in 1..(FirstMark(contents) - 1) : contents[j] # Mark
  <1> DEFINE marks == {i \in 1..Len(contents) : contents[i] = Mark}
  <1>1. Len(contents) \in Nat
    OBVIOUS
  <1>2. marks \subseteq Nat /\ marks # {}
    BY <1>1 DEF HasMark
  <1>3. PICK first \in marks : \A i \in marks : <<i, first>> \notin OpToRel(<, Nat)
    <2>1. IsWellFoundedOn(OpToRel(<, Nat), Nat)
      BY NatLessThanWellFounded
    <2> QED
      BY <1>2, <2>1, WFMin
  <1>4. \A i \in marks : ~ (i < first)
    BY <1>2, <1>3 DEF OpToRel
  <1>5. \A j \in 1..(first - 1) : contents[j] # Mark
    BY <1>1, <1>4
  <1>6. QED
    BY <1>5 DEF FirstMark

(* What stands behind the first k chunks of a file.                          *)
LEMMA AfterProperties ==
    ASSUME NEW S, NEW contents \in Seq(S), NEW i \in 0..Len(contents)
    PROVE  /\ After(contents, i) \in Seq(S)
           /\ Len(After(contents, i)) = Len(contents) - i
           /\ \A j \in 1..(Len(contents) - i) :
                 After(contents, i)[j] = contents[i + j]
  <1>1. \A j \in (i + 1)..Len(contents) : contents[j] \in S
    OBVIOUS
  <1>2. /\ SubSeq(contents, i + 1, Len(contents)) \in Seq(S)
        /\ Len(SubSeq(contents, i + 1, Len(contents))) =
              IF i + 1 <= Len(contents) THEN Len(contents) - (i + 1) + 1 ELSE 0
        /\ \A j \in 1..(Len(contents) - (i + 1) + 1) :
              SubSeq(contents, i + 1, Len(contents))[j] = contents[i + 1 + j - 1]
    BY <1>1, SubSeqProperties
  <1>3. QED
    BY <1>2 DEF After

(* The project block of a marked file is a sequence of chunks.               *)
LEMMA ProjectBlockType ==
    ASSUME NEW S, NEW contents \in Seq(S), HasMark(contents)
    PROVE  ProjectBlock(contents) \in Seq(S)
  <1>1. After(contents, FirstMark(contents)) \in Seq(S)
    BY FirstMarkExists, AfterProperties
  <1>2. QED
    BY <1>1, HeadTailProperties DEF ProjectBlock

(* A composed file begins with the re-rendered region.                       *)
LEMMA PreservedType ==
    ASSUME NEW S, NEW existing \in Seq(S), NEW rendered \in Seq(S),
           Preservable(existing, rendered)
    PROVE  \E kept \in Seq(S) : Preserved(existing, rendered) = rendered \o kept
  <1>1. CASE IsPrefix(rendered, existing)
    <2>1. Len(rendered) \in 0..Len(existing)
      BY <1>1 DEF IsPrefix
    <2>2. After(existing, Len(rendered)) \in Seq(S)
      BY <2>1, AfterProperties
    <2>3. QED
      BY <1>1, <2>2 DEF Preserved
  <1>2. CASE ~ IsPrefix(rendered, existing)
    <2>1. ProjectBlock(existing) \in Seq(S)
      BY <1>2, ProjectBlockType DEF Preservable
    <2>2. QED
      BY <1>2, <2>1 DEF Preserved
  <1>3. QED
    BY <1>1, <1>2

(* A file is a prefix of whatever is appended to it.                         *)
LEMMA PrefixOfConcat ==
    ASSUME NEW S, NEW s \in Seq(S), NEW t \in Seq(S)
    PROVE  IsPrefix(s, s \o t)
  <1>1. s \o t \in Seq(S) /\ Len(s \o t) = Len(s) + Len(t)
    BY ConcatProperties
  <1>2. SubSeq(s, 1, Len(s)) = SubSeq(s \o t, 1, Len(s))
    <2>1. CASE Len(s) = 0
      BY <2>1, SubSeqEmpty
    <2>2. CASE Len(s) # 0
      BY <2>2, SubSeqOfConcat1
    <2>3. QED
      BY <2>1, <2>2
  <1>3. QED
    BY <1>1, <1>2 DEF IsPrefix

(* Behind the first part of a concatenation stands the second.               *)
LEMMA AfterConcat ==
    ASSUME NEW S, NEW s \in Seq(S), NEW t \in Seq(S)
    PROVE  After(s \o t, Len(s)) = t
  <1>1. /\ s \o t \in Seq(S) /\ Len(s \o t) = Len(s) + Len(t)
        /\ \A i \in 1..(Len(s) + Len(t)) :
              (s \o t)[i] = IF i <= Len(s) THEN s[i] ELSE t[i - Len(s)]
    BY ConcatProperties
  <1> DEFINE whole == s \o t
  <1> HIDE DEF whole
  <1>2. /\ After(whole, Len(s)) \in Seq(S)
        /\ Len(After(whole, Len(s))) = Len(t)
        /\ \A j \in 1..Len(t) : After(whole, Len(s))[j] = whole[Len(s) + j]
    <2>1. Len(s) \in Nat /\ Len(t) \in Nat
      OBVIOUS
    <2>2. whole \in Seq(S) /\ Len(whole) = Len(s) + Len(t)
      BY <1>1 DEF whole
    <2>3. Len(s) \in 0..Len(whole) /\ Len(whole) - Len(s) = Len(t)
      BY <2>1, <2>2
    <2>4. QED
      BY <2>2, <2>3, AfterProperties
  <1>3. \A j \in 1..Len(t) : After(whole, Len(s))[j] = t[j]
    BY <1>1, <1>2 DEF whole
  <1>4. After(whole, Len(s)) = t
    BY <1>2, <1>3, SeqEqual
  <1>5. QED
    BY <1>4 DEF whole

(* A file that begins with the region is the region and what follows it.     *)
LEMMA PrefixAndAfter ==
    ASSUME NEW S, NEW s \in Seq(S), NEW t \in Seq(S), IsPrefix(s, t)
    PROVE  s \o After(t, Len(s)) = t
  <1>1. Len(s) \in 0..Len(t) /\ SubSeq(t, 1, Len(s)) = s
    BY SubSeqFull DEF IsPrefix
  <1>2. SubSeq(t, 1, Len(s)) \o SubSeq(t, Len(s) + 1, Len(t)) = SubSeq(t, 1, Len(t))
    <2>1. 1 \in 1..(Len(t) + 1) /\ Len(s) \in (1 - 1)..Len(t) /\ Len(t) \in Len(s)..Len(t)
      BY <1>1
    <2>2. QED
      BY <2>1, ConcatAdjacentSubSeq
  <1>3. QED
    BY <1>1, <1>2, SubSeqFull DEF After

-------------------------------------------------------------------------------
(* What follows a region is the project block of the file, whatever it is:   *)
(* a block that begins with a line feed or holds another mark included.      *)
LEMMA ProjectBlockBelowRegion ==
    ASSUME NEW S, Mark \in S, LineFeed \in S,
           NEW body \in Seq(S), ~ HasMark(body), NEW block \in Seq(S)
    PROVE  LET whole == (body \o <<Mark, LineFeed>>) \o block
           IN  HasMark(whole) /\ ProjectBlock(whole) = block
  <1> DEFINE ending == <<Mark, LineFeed>>
             tail == <<LineFeed>> \o block
             whole == (body \o ending) \o block
             n == Len(body)
  <1>1. n \in Nat
    OBVIOUS
  <1>2. ending \in Seq(S) /\ Len(ending) = 2 /\ ending[1] = Mark
    OBVIOUS
  <1>3. <<Mark>> \in Seq(S) /\ <<LineFeed>> \in Seq(S) /\ Len(<<Mark>>) = 1
    OBVIOUS
  <1>4. tail \in Seq(S) /\ tail # <<>> /\ Head(tail) = LineFeed /\ Tail(tail) = block
    <2>1. /\ tail \in Seq(S) /\ Len(tail) = 1 + Len(block)
          /\ \A i \in 1..(1 + Len(block)) :
                tail[i] = IF i <= 1 THEN LineFeed ELSE block[i - 1]
      BY <1>3, ConcatProperties
    <2>2. tail # <<>> /\ Head(tail) = LineFeed
      BY <2>1
    <2>3. /\ Tail(tail) \in Seq(S) /\ Len(Tail(tail)) = Len(block)
          /\ \A i \in 1..Len(block) : Tail(tail)[i] = tail[i + 1]
      BY <2>1, <2>2, HeadTailProperties
    <2>4. \A i \in 1..Len(block) : Tail(tail)[i] = block[i]
      BY <2>1, <2>3
    <2>5. Tail(tail) = block
      BY <2>3, <2>4, SeqEqual
    <2>6. QED
      BY <2>1, <2>2, <2>5
  <1>5. whole = (body \o <<Mark>>) \o tail
    <2>1. ending = <<Mark>> \o <<LineFeed>>
      <3>1. /\ <<Mark>> \o <<LineFeed>> \in Seq(S)
            /\ Len(<<Mark>> \o <<LineFeed>>) = 2
            /\ \A i \in 1..2 : (<<Mark>> \o <<LineFeed>>)[i] = ending[i]
        BY <1>3, ConcatProperties
      <3>2. QED
        BY <1>2, <3>1, SeqEqual
    <2>2. body \o ending = (body \o <<Mark>>) \o <<LineFeed>>
      BY <1>3, <2>1, ConcatAssociative
    <2>3. body \o <<Mark>> \in Seq(S)
      BY <1>3, ConcatProperties
    <2>4. QED
      BY <1>3, <2>2, <2>3, ConcatAssociative
  <1> DEFINE marked == body \o <<Mark>>
  <1>6. /\ marked \in Seq(S) /\ Len(marked) = n + 1
        /\ \A i \in 1..(n + 1) : marked[i] = IF i <= n THEN body[i] ELSE Mark
    BY <1>1, <1>3, ConcatProperties
  <1>7. /\ whole \in Seq(S) /\ Len(whole) = n + 1 + Len(tail)
        /\ \A i \in 1..(n + 1) : whole[i] = marked[i]
    <2> HIDE DEF marked, tail
    <2>1. /\ marked \o tail \in Seq(S) /\ Len(marked \o tail) = n + 1 + Len(tail)
          /\ \A i \in 1..(n + 1 + Len(tail)) :
                (marked \o tail)[i] = IF i <= n + 1 THEN marked[i]
                                      ELSE tail[i - (n + 1)]
      <3>1. marked \in Seq(S) /\ tail \in Seq(S) /\ Len(marked) = n + 1
        BY <1>4, <1>6
      <3> HIDE DEF n
      <3>2. QED
        BY <3>1, ConcatProperties
    <2>2. \A i \in 1..(n + 1) : (marked \o tail)[i] = marked[i]
      BY <1>1, <1>4, <2>1
    <2>3. whole = marked \o tail
      BY <1>5 DEF marked, tail
    <2>4. QED
      BY <2>1, <2>2, <2>3
  <1>8. \A i \in 1..n : body[i] # Mark
    BY DEF HasMark
  <1> HIDE DEF whole, marked, tail
  <1>9. /\ n + 1 \in 1..Len(whole) /\ whole[n + 1] = Mark
        /\ \A i \in 1..n : whole[i] # Mark
    <2>1. Len(tail) \in Nat
      BY <1>4
    <2>2. QED
      BY <1>1, <1>6, <1>7, <1>8, <2>1
  <1>10. HasMark(whole)
    BY <1>9 DEF HasMark
  <1>11. FirstMark(whole) = n + 1
    <2>1. /\ FirstMark(whole) \in 1..Len(whole)
          /\ whole[FirstMark(whole)] = Mark
          /\ \A j \in 1..(FirstMark(whole) - 1) : whole[j] # Mark
      BY <1>7, <1>10, FirstMarkExists
    <2>2. FirstMark(whole) \in Nat /\ 1 <= FirstMark(whole)
      BY <1>7, <2>1
    <2>3. FirstMark(whole) \notin 1..n /\ ~ (n + 1 < FirstMark(whole))
      BY <1>1, <1>9, <2>1, <2>2
    <2> HIDE DEF n
    <2>4. QED
      BY <1>1, <2>2, <2>3
  <1>12. After(whole, n + 1) = tail
    BY <1>4, <1>5, <1>6, AfterConcat DEF whole, marked, tail
  <1>13. ProjectBlock(whole) = block
    BY <1>4, <1>11, <1>12 DEF ProjectBlock
  <1>14. QED
    BY <1>10, <1>13 DEF whole

(* The region of a manifest ends with its only mark, whatever the fragments  *)
(* and the pin (RenderGitignoreGovernedRegion).                              *)
LEMMA RegionBodyIsUnmarked ==
    ASSUME NEW S, NEW home, NEW fragments, NEW pin, Len(fragments) \in Nat,
           Header(fragments, pin) \in S,
           \A i \in 1..Len(fragments) :
              Block(fragments[i], home[FragmentPath(fragments[i])]) \in S
    PROVE  /\ RegionBody(home, fragments, pin) \in Seq(S)
           /\ ~ HasMark(RegionBody(home, fragments, pin))
  <1> DEFINE header == <<Header(fragments, pin)>>
             blocks == [i \in 1..Len(fragments) |->
                           Block(fragments[i], home[FragmentPath(fragments[i])])]
             n == Len(fragments)
  <1>1. header \in Seq(S) /\ Len(header) = 1
    OBVIOUS
  <1>2. blocks \in Seq(S) /\ Len(blocks) = n
    BY FunctionIsSequence
  <1>3. /\ header \o blocks \in Seq(S) /\ Len(header \o blocks) = 1 + n
        /\ \A i \in 1..(1 + n) :
              (header \o blocks)[i] = IF i <= 1 THEN header[i] ELSE blocks[i - 1]
    <2>1. n \in Nat
      OBVIOUS
    <2> HIDE DEF header, blocks, n
    <2>2. /\ header \o blocks \in Seq(S) /\ Len(header \o blocks) = Len(header) + Len(blocks)
          /\ \A i \in 1..(Len(header) + Len(blocks)) :
                (header \o blocks)[i]
                  = IF i <= Len(header) THEN header[i] ELSE blocks[i - Len(header)]
      BY <1>1, <1>2, ConcatProperties
    <2>3. QED
      BY <1>1, <1>2, <2>1, <2>2
  <1>4. \A i \in 1..(1 + n) : (header \o blocks)[i] # Mark
    <2>1. Header(fragments, pin) # Mark
      BY DEF Header, Mark
    <2>2. \A i \in 1..n : blocks[i] # Mark
      BY DEF Block, Mark
    <2> HIDE DEF blocks, n
    <2>3. \A i \in 1..(1 + n) : i = 1 \/ i - 1 \in 1..n
      BY DEF n
    <2>4. QED
      BY <1>3, <2>1, <2>2, <2>3
  <1>5. QED
    BY <1>3, <1>4 DEF RegionBody, HasMark

(* Whatever the file held and wherever the region now ends, the project      *)
(* block of the composed file is the one of the existing file                *)
(* (preserveGitignoreProjectBlock).                                          *)
THEOREM ProjectBlockSurvives ==
    ASSUME NEW S, Mark \in S, LineFeed \in S,
           NEW body \in Seq(S), ~ HasMark(body), NEW existing \in Seq(S),
           Preservable(existing, body \o <<Mark, LineFeed>>)
    PROVE  LET composed == Preserved(existing, body \o <<Mark, LineFeed>>)
           IN  /\ HasMark(existing) /\ HasMark(composed)
               /\ ProjectBlock(composed) = ProjectBlock(existing)
  <1> DEFINE region == body \o <<Mark, LineFeed>>
  <1>1. region \in Seq(S)
    <2>1. <<Mark, LineFeed>> \in Seq(S)
      OBVIOUS
    <2>2. QED
      BY <2>1, ConcatProperties
  <1>2. CASE IsPrefix(region, existing)
    <2>1. region \o After(existing, Len(region)) = existing
      BY <1>1, <1>2, PrefixAndAfter
    <2>2. After(existing, Len(region)) \in Seq(S)
      BY <1>1, <1>2, AfterProperties DEF IsPrefix
    <2>3. Preserved(existing, region) = existing
      BY <1>2, <2>1 DEF Preserved
    <2>4. HasMark(existing)
      BY <2>1, <2>2, ProjectBlockBelowRegion
    <2>5. QED
      BY <2>3, <2>4
  <1>3. CASE ~ IsPrefix(region, existing)
    <2>1. HasMark(existing)
      BY <1>3 DEF Preservable
    <2>2. ProjectBlock(existing) \in Seq(S)
      BY <2>1, ProjectBlockType
    <2>3. Preserved(existing, region) = region \o ProjectBlock(existing)
      BY <1>3 DEF Preserved
    <2>4. QED
      BY <2>1, <2>2, <2>3, ProjectBlockBelowRegion
  <1>4. QED
    BY <1>2, <1>3

(* Composing the same region over what it was composed into changes nothing: *)
(* a second run finds its own output in place.                               *)
THEOREM ComposingAgainIsStable ==
    ASSUME NEW S, NEW existing \in Seq(S), NEW rendered \in Seq(S),
           Preservable(existing, rendered)
    PROVE  LET composed == Preserved(existing, rendered)
           IN  /\ IsPrefix(rendered, composed)
               /\ Preserved(composed, rendered) = composed
  <1> DEFINE composed == Preserved(existing, rendered)
  <1>1. PICK kept \in Seq(S) : composed = rendered \o kept
    BY PreservedType
  <1>2. IsPrefix(rendered, composed)
    BY <1>1, PrefixOfConcat
  <1>3. After(composed, Len(rendered)) = kept
    BY <1>1, AfterConcat
  <1> HIDE DEF composed
  <1>4. Preserved(composed, rendered) = composed
    BY <1>1, <1>2, <1>3 DEF Preserved
  <1>5. QED
    BY <1>2, <1>4 DEF composed

===============================================================================
