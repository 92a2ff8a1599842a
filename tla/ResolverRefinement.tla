------------------------- MODULE ResolverRefinement -------------------------
(***************************************************************************)
(* The threads of Resolver against the atomic rounds of ResolutionSpec,   *)
(* step by step.  get_rank packs the precedence table into one integer,    *)
(* kind << 24 plus the file priority; ResolutionSpec compares the pair     *)
(* <<kind, priority>> lexicographically.  The two agree because a priority *)
(* stays below 1 << 24 (PrioAssumption), which is what the lemmas on ranks *)
(* below rest on.                                                          *)
(***************************************************************************)
EXTENDS ResolverProofs

-----------------------------------------------------------------------------
(* The packed rank orders as the pair, and packs no two pairs alike.       *)
LEMMA PackedRankOrder ==
  ASSUME NEW k1 \in 1 .. 6, NEW k2 \in 1 .. 6,
         NEW p1 \in 0 .. (RankShift - 1), NEW p2 \in 0 .. (RankShift - 1)
  PROVE  /\ (k1 * RankShift + p1 < k2 * RankShift + p2) <=>
              (k1 < k2 \/ (k1 = k2 /\ p1 < p2))
         /\ (k1 * RankShift + p1 = k2 * RankShift + p2) <=>
              (k1 = k2 /\ p1 = p2)
<1>1. RankShift \in Nat \ {0}
  BY RankShiftNat
<1>2. k1 < k2 => k1 * RankShift + RankShift <= k2 * RankShift
  BY <1>1
<1>3. k1 = k2 => k1 * RankShift = k2 * RankShift
  OBVIOUS
<1>4. QED
  BY <1>1, <1>2, <1>3

(* The abstract reading of a file's table is the concrete one.             *)
LEMMA TablesAgree ==
  ASSUME NEW f \in Files, NEW i, NEW n
  PROVE  /\ Abs!NumEntries(f) = NumSyms(f)
         /\ Abs!DefinesAt(f, i, n) <=> Defines(f, i, n)
BY DEF Abs!NumEntries, NumSyms, Abs!DefinesAt, Defines, NotDefinition

(* The kind get_rank gives an entry, read off its rank, is the kind of the *)
(* precedence table for the set of live files.                             *)
LEMMA KindMatches ==
  ASSUME alive \in [Files -> BOOLEAN], NEW f \in Files, NEW i \in 1 .. NumSyms(f)
  PROVE  LET k == Abs!Kind(f, i, {g \in Files : alive[g]})
         IN  /\ k \in 1 .. 6
             /\ CandRank(f, i) = k * RankShift + Prio[f]
             /\ (k \in {5, 6}) <=> Abs!CommonAt(f, i)
<1> DEFINE live == {g \in Files : alive[g]}
<1>1. f \in live <=> alive[f]
  OBVIOUS
<1>2. /\ ViewOf(f, i).common = Abs!CommonAt(f, i)
      /\ ViewOf(f, i).weak = Abs!WeakAt(f, i)
  BY DEF ViewOf, Abs!CommonAt, Abs!WeakAt
<1>3. Abs!CommonAt(f, i) \in BOOLEAN /\ Abs!WeakAt(f, i) \in BOOLEAN
  <2>1. CASE f \in Objs
    BY <2>1, ObjEntryType DEF Abs!CommonAt, Abs!WeakAt, MachSym
  <2>2. CASE f \in Dylibs
    BY <2>2, DylibEntryType, FilesAssumption DEF Abs!CommonAt, Abs!WeakAt, DylibSym
  <2>3. QED
    BY <2>1, <2>2 DEF Files
<1>4. QED
  BY <1>1, <1>2, <1>3 DEF CandRank, GetRank, Abs!Kind

(* Two entries compare by their packed ranks as ResolutionSpec compares    *)
(* their <<kind, priority>> pairs.                                         *)
LEMMA RanksAgree ==
  ASSUME alive \in [Files -> BOOLEAN],
         NEW f \in Files, NEW i \in 1 .. NumSyms(f),
         NEW g \in Files, NEW j \in 1 .. NumSyms(g)
  PROVE  LET live == {h \in Files : alive[h]}
             a == Abs!RankOf(<< f, i >>, live)
             b == Abs!RankOf(<< g, j >>, live)
         IN  /\ CandRank(f, i) < CandRank(g, j) <=> Abs!RankLess(a, b)
             /\ CandRank(f, i) = CandRank(g, j) <=> a = b
             /\ CandRank(f, i) \in Nat
<1> DEFINE live == {h \in Files : alive[h]}
           kf == Abs!Kind(f, i, live)
           kg == Abs!Kind(g, j, live)
<1>1. kf \in 1 .. 6 /\ CandRank(f, i) = kf * RankShift + Prio[f]
  BY KindMatches
<1>2. kg \in 1 .. 6 /\ CandRank(g, j) = kg * RankShift + Prio[g]
  BY KindMatches
<1>3. Prio[f] \in 0 .. (RankShift - 1) /\ Prio[g] \in 0 .. (RankShift - 1)
  BY PrioAssumption
<1>4. Abs!RankOf(<< f, i >>, live) = << kf, Prio[f] >>
      /\ Abs!RankOf(<< g, j >>, live) = << kg, Prio[g] >>
  BY DEF Abs!RankOf
<1>5. /\ (kf * RankShift + Prio[f] < kg * RankShift + Prio[g]) <=>
           (kf < kg \/ (kf = kg /\ Prio[f] < Prio[g]))
      /\ (kf * RankShift + Prio[f] = kg * RankShift + Prio[g]) <=>
           (kf = kg /\ Prio[f] = Prio[g])
  BY <1>1, <1>2, <1>3, PackedRankOrder
<1>6. CandRank(f, i) \in Nat
  BY <1>1, <1>3, RankShiftNat
<1>7. QED
  BY <1>1, <1>2, <1>4, <1>5, <1>6 DEF Abs!RankLess

(* A definer whose entry ranks no worse than any definition by the files   *)
(* of S is the owner ResolutionSpec's Best picks among them, with the      *)
(* common flag of that entry.                                              *)
LEMMA BestIs ==
  ASSUME alive \in [Files -> BOOLEAN], NEW S \in SUBSET Files, NEW n,
         NEW o \in S, NEW i \in 1 .. NumSyms(o), Defines(o, i, n),
         \A g \in S : \A j \in 1 .. NumSyms(g) :
           Defines(g, j, n) => CandRank(o, i) <= CandRank(g, j)
  PROVE  Abs!Best(n, S, {f \in Files : alive[f]}) =
           [file |-> o, common |-> Abs!CommonAt(o, i)]
<1> DEFINE live == {f \in Files : alive[f]}
           D == Abs!Defs(n, S)
           Rk(d) == Abs!RankOf(d, live)
           Least(d) == \A e \in D : \/ Abs!RankLess(Rk(d), Rk(e))
                                    \/ Rk(d) = Rk(e) /\ d[2] <= e[2]
<1>1. \A d : d \in D <=>
        \E g \in S : \E j \in 1 .. NumSyms(g) : Defines(g, j, n) /\ d = << g, j >>
  BY TablesAgree DEF Abs!Defs
<1>2. << o, i >> \in D
  BY <1>1
(* Among o's entries of o's rank, the first. *)
<1> DEFINE M == {j \in 1 .. NumSyms(o) : Defines(o, j, n) /\ CandRank(o, j) = CandRank(o, i)}
<1>3a. M \subseteq Nat /\ M # {}
  BY NumSymsNat
<1>3. PICK j0 \in M : \A j \in M : j0 <= j
  BY <1>3a, NatMinExists
<1>4. Least(<< o, j0 >>)
  <2> SUFFICES ASSUME NEW g \in S, NEW j \in 1 .. NumSyms(g), Defines(g, j, n)
               PROVE  \/ Abs!RankLess(Rk(<< o, j0 >>), Rk(<< g, j >>))
                      \/ Rk(<< o, j0 >>) = Rk(<< g, j >>) /\ j0 <= j
    BY <1>1
  <2>1. CandRank(o, j0) <= CandRank(g, j) /\ CandRank(g, j) \in Nat /\ CandRank(o, j0) \in Nat
    BY <1>3, RanksAgree
  <2>2. CASE CandRank(o, j0) < CandRank(g, j)
    BY <2>2, RanksAgree
  <2>3. CASE CandRank(o, j0) = CandRank(g, j)
    <3>1. Rk(<< o, j0 >>) = Rk(<< g, j >>)
      BY <2>3, RanksAgree
    <3>2. Prio[o] = Prio[g]
      BY <3>1 DEF Abs!RankOf
    <3>3. g = o
      BY <3>2, PrioAssumption
    <3>4. j0 <= j
      BY <1>3, <2>3, <3>3
    <3>5. QED
      BY <3>1, <3>4
  <2>4. QED
    BY <2>1, <2>2, <2>3
<1> DEFINE d1 == CHOOSE d \in D : Least(d)
<1>5. d1 \in D /\ Least(d1)
  <2>1. << o, j0 >> \in D
    BY <1>1, <1>3
  <2>2. QED
    BY <2>1, <1>4, Zenon
<1>6. PICK g \in S : \E j \in 1 .. NumSyms(g) : Defines(g, j, n) /\ d1 = << g, j >>
  BY <1>1, <1>5
<1>6a. PICK j \in 1 .. NumSyms(g) : Defines(g, j, n) /\ d1 = << g, j >>
  BY <1>6
<1>7. Rk(<< g, j >>) = Rk(<< o, i >>)
  <2>1. CandRank(o, i) <= CandRank(g, j) /\ CandRank(g, j) \in Nat /\ CandRank(o, i) \in Nat
    BY <1>6a, RanksAgree
  <2>2. ~Abs!RankLess(Rk(<< g, j >>), Rk(<< o, i >>))
    BY <2>1, RanksAgree
  <2>3. Rk(<< g, j >>) = Rk(<< o, i >>)
    BY <1>2, <1>5, <1>6a, <2>2
  <2>4. QED
    BY <2>3
<1>8. g = o /\ Abs!CommonAt(g, j) = Abs!CommonAt(o, i)
  <2>1. Abs!Kind(g, j, live) = Abs!Kind(o, i, live) /\ Prio[g] = Prio[o]
    BY <1>7 DEF Abs!RankOf
  <2>2. g = o
    BY <2>1, PrioAssumption
  <2>3. Abs!CommonAt(g, j) <=> Abs!CommonAt(o, i)
    BY <2>1, KindMatches
  <2>4. Abs!CommonAt(g, j) \in BOOLEAN /\ Abs!CommonAt(o, i) \in BOOLEAN
    BY DEF Abs!CommonAt
  <2>5. QED
    BY <2>2, <2>3, <2>4
<1>9. Abs!Best(n, S, live) = [file |-> d1[1], common |-> Abs!CommonAt(d1[1], d1[2])]
  BY <1>2 DEF Abs!Best
<1>10. d1[1] = o /\ Abs!CommonAt(d1[1], d1[2]) = Abs!CommonAt(o, i)
  <2> HIDE DEF d1
  <2>0. d1 = << g, j >>
    BY <1>6a
  <2>1. d1[1] = g /\ d1[2] = j
    BY <2>0
  <2>2. QED
    BY <2>1, <1>8
<1>11. QED
  BY <1>9, <1>10


-----------------------------------------------------------------------------
(* The first round.  Its threads run for every file, dead archive members  *)
(* included, and no thread touches is_alive, so liveness stays the initial *)
(* one; each name's owner then ranks no worse than any entry, of any file, *)
(* that a thread has passed.                                               *)
Round1Frame ==
  phase = "resolve1" =>
    alive = [f \in Files |-> IF f \in Objs THEN f \notin ArchiveMembers
                                          ELSE f \notin StrippedDylibs]

RankBound1 ==
  phase = "resolve1" =>
    \A n \in Names : \A g \in Files :
      \A j \in 1 .. rpc[g] : Defines(g, j, n) => SymRank(sym[n]) <= CandRank(g, j)

RefInv == BestInv /\ Round1Frame /\ RankBound1


LEMMA InitRefInv == Init => RefInv
<1> SUFFICES ASSUME Init PROVE RefInv
  OBVIOUS
<1>1. BestInv
  BY InitBestInv
<1>2. Round1Frame /\ RankBound1
  BY DEF Init, Round1Frame, RankBound1
<1>3. QED
  BY <1>1, <1>2 DEF RefInv

(* Only the first round's own steps leave the phase at resolve1, and none  *)
(* of them touches alive.                                                  *)
LEMMA StaysInRound1 ==
  ASSUME [Next]_vars, phase' = "resolve1"
  PROVE  /\ phase = "resolve1" /\ alive' = alive
         /\ \/ \E f \in Objs : ResolveObjSym(f)
            \/ \E d \in Dylibs : ResolveDylibSym(d)
            \/ UNCHANGED vars
BY DEF Next, vars, ResolveObjSym, ResolveDylibSym, EndResolve1, MarkLiveSym,
       EndMark, ClearSymbols, EndClear, EndResolve2

LEMMA Round1FrameStep == Round1Frame /\ [Next]_vars => Round1Frame'
BY StaysInRound1 DEF Round1Frame

LEMMA RankBound1Step ==
  ASSUME NoWeakDylibExports
  PROVE  BestInv /\ RankBound1 /\ [Next]_vars => RankBound1'
<1> SUFFICES ASSUME BestInv, RankBound1, [Next]_vars, phase' = "resolve1",
                    NEW n \in Names, NEW g \in Files,
                    NEW j \in 1 .. rpc'[g], Defines(g, j, n)
             PROVE  SymRank(sym[n])' <= CandRank(g, j)'
  BY DEF RankBound1, Defines
<1> USE DEF BestInv
<1>0. TypeOK' /\ phase = "resolve1" /\ alive' = alive
  BY NextTypeOK, StaysInRound1
<1>1. /\ SymRank(sym[n]) \in Nat /\ SymRank(sym'[n]) \in Nat
      /\ rpc'[g] \in Nat /\ rpc'[g] <= NumSyms(g) /\ j \in 1 .. NumSyms(g)
      /\ CandRank(g, j) \in Nat
  BY <1>0, NumSymsNat, SymRankRange, CandRankRange, RankShiftNat DEF TypeOK
<1>2. CandRank(g, j)' = CandRank(g, j) /\ SymRank(sym[n])' = SymRank(sym'[n])
  BY <1>0, RankFrame
(* The entry read by this step, or one passed before. *)
<1>3. ASSUME NEW f \in Objs, ResolveObjSym(f) PROVE SymRank(sym'[n]) <= CandRank(g, j)
  <2> DEFINE k == rpc[f] + 1
  <2>1. CASE g = f /\ j = k
    <3>1. ObjTab[f][k].name = n /\ Defines(f, k, ObjTab[f][k].name)
      BY <2>1 DEF Defines
    <3>2. QED
      BY <2>1, <3>1, <1>3, ObjStepRank
  <2>2. CASE ~(g = f /\ j = k)
    <3>1. j \in 1 .. rpc[g]
      BY <2>2, <1>3 DEF ResolveObjSym, TypeOK
    <3>2. SymRank(sym[n]) <= CandRank(g, j)
      BY <3>1, <1>0 DEF RankBound1
    <3>3. SymRank(sym'[n]) <= SymRank(sym[n])
      BY <1>3, ObjStepRank
    <3>4. QED
      BY <3>2, <3>3, <1>1
  <2>3. QED
    BY <2>1, <2>2
<1>4. ASSUME NEW d \in Dylibs, ResolveDylibSym(d) PROVE SymRank(sym'[n]) <= CandRank(g, j)
  <2> DEFINE k == rpc[d] + 1
  <2>1. CASE g = d /\ j = k
    <3>1. d \notin Objs
      BY FilesAssumption
    <3>2. DylibTab[d][k].name = n
      BY <2>1, <3>1 DEF Defines
    <3>3. QED
      BY <2>1, <3>2, <1>4, DylibStepRank
  <2>2. CASE ~(g = d /\ j = k)
    <3>1. j \in 1 .. rpc[g]
      BY <2>2, <1>4 DEF ResolveDylibSym, TypeOK
    <3>2. SymRank(sym[n]) <= CandRank(g, j)
      BY <3>1, <1>0 DEF RankBound1
    <3>3. SymRank(sym'[n]) <= SymRank(sym[n])
      BY <1>4, DylibStepRank
    <3>4. QED
      BY <3>2, <3>3, <1>1
  <2>3. QED
    BY <2>1, <2>2
<1>5. ASSUME UNCHANGED vars PROVE SymRank(sym'[n]) <= CandRank(g, j)
  <2>1. sym' = sym /\ rpc' = rpc
    BY <1>5 DEF vars
  <2>2. j \in 1 .. rpc[g]
    BY <2>1
  <2>3. QED
    BY <2>1, <2>2, <1>0 DEF RankBound1
<1>6. SymRank(sym'[n]) <= CandRank(g, j)
  <2>1. \/ \E f \in Objs : ResolveObjSym(f)
        \/ \E d \in Dylibs : ResolveDylibSym(d)
        \/ UNCHANGED vars
    BY StaysInRound1
  <2>2. QED
    BY <2>1, <1>3, <1>4, <1>5
<1>7. QED
  BY <1>2, <1>6

LEMMA NextRefInv ==
  ASSUME NoWeakDylibExports
  PROVE  RefInv /\ [Next]_vars => RefInv'
BY NextBestInv, Round1FrameStep, RankBound1Step DEF RefInv


-----------------------------------------------------------------------------
(* When a round is over -- each name's owner ranks no worse than any entry *)
(* of the competing files S, and is one of them -- the owner the Symbol    *)
(* records is the one ResolutionSpec's Best picks among S.                 *)
LEMMA OwnerIsBest ==
  ASSUME TypeOK, OwnerViewMatches, NEW S \in SUBSET Files, NEW n \in Names,
         \A g \in S : \A j \in 1 .. NumSyms(g) :
           Defines(g, j, n) => SymRank(sym[n]) <= CandRank(g, j),
         sym[n].file # NoFile => sym[n].file \in S
  PROVE  [file |-> sym[n].file, common |-> sym[n].common] =
           Abs!Best(n, S, {f \in Files : alive[f]})
<1> DEFINE o == sym[n].file
<1>0. alive \in [Files -> BOOLEAN] /\ sym[n] \in SymRec
  BY DEF TypeOK
<1>1. CASE o = NoFile
  <2>1. ~sym[n].common
    BY <1>1 DEF OwnerViewMatches, OwnerViewOk
  <2>2. sym[n].common \in BOOLEAN
    BY <1>0 DEF SymRec
  <2>3. ASSUME NEW g \in S, NEW j \in 1 .. NumSyms(g), Defines(g, j, n) PROVE FALSE
    <3>1. CandRank(g, j) \in 0 .. (7 * RankShift - 1)
      BY <1>0, CandRankRange
    <3>2. SymRank(sym[n]) = 7 * RankShift
      BY <1>1 DEF SymRank
    <3>3. QED
      BY <2>3, <3>1, <3>2, RankShiftNat
  <2>4. Abs!Defs(n, S) = {}
    BY <2>3, TablesAgree DEF Abs!Defs
  <2>5. QED
    BY <1>1, <2>1, <2>2, <2>4 DEF Abs!Best, Abs!NoOwner
<1>2. CASE o # NoFile
  <2>1. o \in S
    BY <1>2
  <2>2. PICK i \in 1 .. NumSyms(o) :
          /\ Defines(o, i, n)
          /\ ViewOf(o, i) = [imported |-> sym[n].imported, weak |-> sym[n].weak,
                             common |-> sym[n].common, def |-> sym[n].def]
    BY <1>2 DEF OwnerViewMatches, OwnerViewOk
  <2>3. ViewOf(o, i).common = sym[n].common /\ ViewOf(o, i).weak = sym[n].weak
    BY <2>2
  <2>4. SymRank(sym[n]) = CandRank(o, i)
    BY <1>2, <2>3 DEF SymRank, CandRank
  <2>5. ViewOf(o, i).common = Abs!CommonAt(o, i)
    BY DEF ViewOf, Abs!CommonAt
  <2>6. \A g \in S : \A j \in 1 .. NumSyms(g) :
          Defines(g, j, n) => CandRank(o, i) <= CandRank(g, j)
    BY <2>4
  <2>7. Abs!Best(n, S, {f \in Files : alive[f]}) =
          [file |-> o, common |-> Abs!CommonAt(o, i)]
    BY <1>0, <2>1, <2>2, <2>6, BestIs
  <2>8. QED
    BY <2>3, <2>5, <2>7
<1>3. QED
  BY <1>1, <1>2


-----------------------------------------------------------------------------
(* The refinement, step by step.                                           *)
absvars == << AbsStage, AbsLive, AbsOwner >>

(* The initial state is the abstract one: first round, the initial live    *)
(* files, no owners.                                                       *)
LEMMA InitRefines == Init => Abs!Init
BY DEF Init, Abs!Init, AbsStage, AbsLive, AbsOwner, Abs!InitLive, Abs!NoOwner

(* The barrier after the first round is ResolutionSpec's Round1: every     *)
(* name is owned by its best definer among all files, ranked with the      *)
(* initial liveness.                                                       *)
LEMMA Round1Refines ==
  ASSUME RefInv, EndResolve1
  PROVE  Abs!Round1
<1> USE DEF RefInv, BestInv
<1>1. AbsStage = "round1" /\ AbsStage' = "mark" /\ AbsLive' = AbsLive
  BY DEF EndResolve1, AbsStage, AbsLive
<1>2. AbsLive = (Objs \ ArchiveMembers) \cup (Dylibs \ StrippedDylibs)
  BY DEF EndResolve1, AbsLive
<1>3. {f \in Files : alive[f]} = (Objs \ ArchiveMembers) \cup (Dylibs \ StrippedDylibs)
  BY FilesAssumption DEF Round1Frame, EndResolve1, Files
<1>4. ASSUME NEW n \in Names
      PROVE  [file |-> sym[n].file, common |-> sym[n].common] = Abs!Best(n, Files, AbsLive)
  <2>1. \A g \in Files : \A j \in 1 .. NumSyms(g) :
          Defines(g, j, n) => SymRank(sym[n]) <= CandRank(g, j)
    BY DEF RankBound1, EndResolve1
  <2>2. sym[n].file # NoFile => sym[n].file \in Files
    BY DEF TypeOK, SymRec
  <2>3. QED
    BY <2>1, <2>2, <1>2, <1>3, OwnerIsBest
<1>5. AbsOwner' = [n \in Names |-> Abs!Best(n, Files, AbsLive)]
  BY <1>4 DEF AbsOwner, EndResolve1
<1>6. QED
  BY <1>1, <1>5 DEF Abs!Round1, Abs!Files, Files

(* The barrier after the second round is ResolutionSpec's Round2: every    *)
(* name is owned by its best definer among the live files.                 *)
LEMMA Round2Refines ==
  ASSUME RefInv, EndResolve2
  PROVE  Abs!Round2
<1> USE DEF RefInv, BestInv
<1>1. AbsStage = "round2" /\ AbsStage' = "done" /\ AbsLive' = AbsLive
  BY DEF EndResolve2, AbsStage, AbsLive
<1>2. AbsLive = {f \in Files : alive[f]}
  BY DEF EndResolve2, AbsLive
<1>3. ASSUME NEW n \in Names
      PROVE  [file |-> sym[n].file, common |-> sym[n].common] = Abs!Best(n, AbsLive, AbsLive)
  <2>1. \A g \in AbsLive : \A j \in 1 .. NumSyms(g) :
          Defines(g, j, n) => SymRank(sym[n]) <= CandRank(g, j)
    BY <1>2 DEF RankBound, EndResolve2
  <2>2. sym[n].file # NoFile => sym[n].file \in AbsLive
    BY <1>2 DEF TypeOK, SymRec, PhaseFrame, EndResolve2
  <2>3. QED
    BY <2>1, <2>2, <1>2, OwnerIsBest
<1>4. AbsOwner' = [n \in Names |-> Abs!Best(n, AbsLive, AbsLive)]
  BY <1>3 DEF AbsOwner, EndResolve2
<1>5. QED
  BY <1>1, <1>4 DEF Abs!Round2

(* Every thread step, clear_symbols and the barrier before the second      *)
(* round leave the abstract state as it is.                                *)
LEMMA StutterRefines ==
  ASSUME [Next]_vars, ~EndResolve1, ~EndMark, ~EndResolve2
  PROVE  UNCHANGED absvars
<1>1. CASE \E f \in Objs : ResolveObjSym(f)
  BY <1>1 DEF ResolveObjSym, absvars, AbsStage, AbsLive, AbsOwner
<1>2. CASE \E d \in Dylibs : ResolveDylibSym(d)
  BY <1>2 DEF ResolveDylibSym, absvars, AbsStage, AbsLive, AbsOwner
<1>3. CASE \E o \in Objs : MarkLiveSym(o)
  BY <1>3 DEF MarkLiveSym, absvars, AbsStage, AbsLive, AbsOwner
<1>4. CASE \E f \in Files : ClearSymbols(f)
  BY <1>4 DEF ClearSymbols, absvars, AbsStage, AbsLive, AbsOwner
<1>5. CASE EndClear
  BY <1>5 DEF EndClear, absvars, AbsStage, AbsLive, AbsOwner
<1>6. CASE UNCHANGED vars
  BY <1>6 DEF vars, absvars, AbsStage, AbsLive, AbsOwner
<1>7. QED
  BY <1>1, <1>2, <1>3, <1>4, <1>5, <1>6 DEF Next


(* The one fact of the refinement not proved here: the mark-live loop, when *)
(* it returns, has made live exactly ResolutionSpec's Closure of the first  *)
(* round's owners.  Closure is a recursive function, which these provers   *)
(* cannot unfold; TLC checks the fact with ImplementsSpec.                 *)
SweepMatchesClosure == EndMark => AbsLive' = Abs!Closure(AbsOwner)

(* Given that, the return of the mark-live loop is ResolutionSpec's Mark:  *)
(* the owners are dropped and the second round begins.                     *)
LEMMA MarkRefines ==
  ASSUME EndMark, SweepMatchesClosure
  PROVE  Abs!Mark
<1>1. AbsStage = "mark" /\ AbsStage' = "round2"
  BY DEF EndMark, AbsStage
<1>2. AbsOwner' = [n \in Names |-> Abs!NoOwner]
  BY DEF EndMark, AbsOwner, Abs!NoOwner
<1>3. AbsLive' = Abs!Closure(AbsOwner)
  BY DEF SweepMatchesClosure
<1>4. QED
  BY <1>1, <1>2, <1>3 DEF Abs!Mark

LEMMA StepRefines ==
  ASSUME RefInv, [Next]_vars, [SweepMatchesClosure]_vars
  PROVE  [Abs!Next]_absvars
<1>1. CASE EndResolve1
  BY <1>1, Round1Refines DEF Abs!Next
<1>2. CASE EndResolve2
  BY <1>2, Round2Refines DEF Abs!Next
<1>3. CASE EndMark
  <2>1. SweepMatchesClosure
    BY <1>3 DEF EndMark, vars
  <2>2. QED
    BY <1>3, <2>1, MarkRefines DEF Abs!Next
<1>4. CASE ~EndResolve1 /\ ~EndMark /\ ~EndResolve2
  BY <1>4, StutterRefines
<1>5. QED
  BY <1>1, <1>2, <1>3, <1>4

(* Sections 2 and 4.7: for every link line whose dylibs export no weak     *)
(* definition, and given that the mark-live loop computes the closure      *)
(* (SweepMatchesClosure, checked by TLC), the racing resolve_symbols and   *)
(* mark_live_objects threads implement ResolutionSpec: each round ends     *)
(* with every name owned by the best definer of the precedence table.      *)
THEOREM ImplementsSpecGivenSweep ==
  ASSUME NoWeakDylibExports
  PROVE  Spec /\ [][SweepMatchesClosure]_vars => ImplementsSpec
<1>1. Spec => []RefInv
  BY InitRefInv, NextRefInv, PTL DEF Spec
<1>2. RefInv /\ [Next]_vars /\ [SweepMatchesClosure]_vars => [Abs!Next]_absvars
  BY StepRefines
<1>3. QED
  BY <1>1, <1>2, InitRefines, PTL DEF Spec, ImplementsSpec, Abs!Spec, absvars

=============================================================================
