-------------------------- MODULE DuplicatesProofs --------------------------
(***************************************************************************)
(* The duplicate-symbol check, for every set of files, names, priorities   *)
(* and symbol tables that satisfy Resolver's assumptions.                  *)
(*                                                                         *)
(* check_duplicate_symbols reports a strong entry whose Symbol another     *)
(* file owns; DuplicatesReported says those reports are exactly the strong *)
(* definers that come after the first one.  That rests on what the second *)
(* round of resolve_symbols leaves behind: a strong definition of a live   *)
(* object ranks 1 << 24 plus the file's priority, better than any other    *)
(* kind of definition, so once the round is over the owner of a name that *)
(* some live object strongly defines is the strong definer of least        *)
(* priority (StrongOwner).  No hypothesis on dylibs is needed here: a      *)
(* dylib competes at rank 3 << 24 and never displaces an owner that ranks  *)
(* as a strong definition.                                                 *)
(***************************************************************************)
EXTENDS PostResolveProofs

(* OwnerViewMatches holds until convert_common_symbols rewrites the        *)
(* records it converts.                                                    *)
OwnerViewBefore == phase # "done" => OwnerViewMatches

(* In the second round, a name's owner ranks no worse than any strong      *)
(* entry of it that a live object's thread has passed.                     *)
StrongBound ==
  phase = "resolve2" =>
    \A g \in Objs : alive[g] =>
      \A j \in 1 .. rpc[g] :
        StrongDefAt(g, j) => SymRank(sym[ObjTab[g][j].name]) <= CandRank(g, j)

(* Once resolution is over, a name some live object strongly defines is    *)
(* owned by a strong definer of least priority.                            *)
StrongOwner ==
  phase = "done" =>
    \A n \in Names : \A u \in Objs : StrongDefiner(u, n) =>
      /\ sym[n].file \in Objs
      /\ StrongDefiner(sym[n].file, n)
      /\ Prio[sym[n].file] <= Prio[u]

(* The reports check_duplicate_symbols adds for object o.                  *)
DupsOf(o) ==
  {<< o, ObjTab[o][i].name, sym[ObjTab[o][i].name].file >> :
     i \in {j \in 1 .. NumSyms(o) :
              /\ StrongDefAt(o, j)
              /\ sym[ObjTab[o][j].name].file \notin {NoFile, o}}}

(* The reports are those of the objects checked so far, each computed on   *)
(* the Symbol records as they now are: nothing writes them during the      *)
(* check.                                                                  *)
DupFrame ==
  /\ checked \subseteq {o \in Objs : alive[o]}
  /\ post = "common" => checked = {}
  /\ dupErrs = UNION {DupsOf(o) : o \in checked}
  /\ post = "end" => \A o \in Objs : alive[o] => o \in checked

DInv == CInv /\ OwnerViewBefore /\ StrongBound /\ StrongOwner /\ DupFrame


-----------------------------------------------------------------------------
(* A strong entry of a live object ranks 1 << 24 plus its file's priority, *)
(* and defines its name.                                                   *)
LEMMA StrongRank ==
  ASSUME alive \in [Files -> BOOLEAN], NEW o \in Objs, alive[o],
         NEW i \in 1 .. NumSyms(o), StrongDefAt(o, i)
  PROVE  /\ CandRank(o, i) = RankShift + Prio[o]
         /\ Defines(o, i, ObjTab[o][i].name)
<1>1. ObjTab[o][i] \in MachSym
  BY ObjEntryType
<1>2. ViewOf(o, i).common = FALSE /\ ViewOf(o, i).weak = FALSE
  BY <1>1 DEF ViewOf, StrongDefAt, SharedAt, MachSym
<1>3. o \notin Dylibs
  BY FilesAssumption
<1>4. CandRank(o, i) = 1 * RankShift + Prio[o]
  BY <1>2, <1>3, Zenon DEF CandRank, GetRank
<1>5. Prio[o] \in Nat /\ RankShift \in Nat
  BY PrioAssumption, RankShiftNat DEF Files
<1>6. QED
  BY <1>1, <1>4, <1>5 DEF Defines, NotDefinition, StrongDefAt, SharedAt, MachSym

(* An entry that ranks below 2 << 24 is a live object's non-common,        *)
(* non-weak definition: every other kind ranks 2 << 24 or more.            *)
LEMMA RankBelowTwo ==
  ASSUME alive \in [Files -> BOOLEAN], NEW f \in Files, NEW i \in 1 .. NumSyms(f),
         CandRank(f, i) < 2 * RankShift
  PROVE  /\ f \in Objs /\ alive[f]
         /\ ~ViewOf(f, i).common /\ ~ViewOf(f, i).weak
<1> DEFINE c == ViewOf(f, i).common
           w == ViewOf(f, i).weak
<1>1. Prio[f] \in Nat /\ RankShift \in Nat \ {0}
  BY PrioAssumption, RankShiftNat
<1>2. CandRank(f, i) = GetRank(f, c, w)
  BY DEF CandRank
<1>3. CASE c
  <2>1. GetRank(f, c, w) \in {5 * RankShift + Prio[f], 6 * RankShift + Prio[f]}
    BY <1>3 DEF GetRank
  <2>2. QED
    BY <1>1, <1>2, <2>1
<1>4. CASE ~c /\ (f \in Dylibs \/ ~alive[f])
  <2>1. GetRank(f, c, w) \in {3 * RankShift + Prio[f], 4 * RankShift + Prio[f]}
    BY <1>4 DEF GetRank
  <2>2. QED
    BY <1>1, <1>2, <2>1
<1>5. CASE ~c /\ ~(f \in Dylibs \/ ~alive[f]) /\ w
  <2>1. GetRank(f, c, w) = 2 * RankShift + Prio[f]
    BY <1>5 DEF GetRank
  <2>2. QED
    BY <1>1, <1>2, <2>1
<1>6. QED
  BY <1>3, <1>4, <1>5 DEF Files

(* A dylib's resolve_symbols step leaves alone a symbol whose owner ranks  *)
(* below 2 << 24: the dylib competes at 3 << 24 or more.                   *)
LEMMA DylibKeepsStrong ==
  ASSUME TypeOK, NEW d \in Dylibs, ResolveDylibSym(d),
         NEW n \in Names, SymRank(sym[n]) < 2 * RankShift
  PROVE  sym'[n] = sym[n]
<1> DEFINE e == DylibTab[d][rpc[d] + 1]
<1>1. rpc[d] + 1 \in 1 .. NumSyms(d) /\ e \in DylibSym
  BY NumSymsNat, DylibEntryType DEF ResolveDylibSym, TypeOK, Files
<1>2. GetRank(d, FALSE, FALSE) = 3 * RankShift + Prio[d]
  BY Zenon DEF GetRank
<1>3. Prio[d] \in Nat /\ RankShift \in Nat \ {0}
  BY PrioAssumption, RankShiftNat DEF Files
<1>4. SymRank(sym[n]) \in 0 .. 7 * RankShift
  BY SymRankRange DEF TypeOK
<1>5. CASE n = e.name
  <2>1. ~(GetRank(d, FALSE, FALSE) < SymRank(sym[n]))
    <3> DEFINE g == GetRank(d, FALSE, FALSE)
               r == SymRank(sym[n])
    <3>1. g = 3 * RankShift + Prio[d] /\ r < 2 * RankShift /\ r \in 0 .. 7 * RankShift
      BY <1>2, <1>4
    <3> HIDE DEF g, r
    <3>2. ~(g < r)
      BY <3>1, <1>3
    <3>3. QED
      BY <3>2, Zenon DEF g, r
  <2>2. QED
    BY <1>5, <2>1 DEF ResolveDylibSym
<1>6. CASE n # e.name
  BY <1>6, <1>1 DEF ResolveDylibSym, TypeOK, DylibSym
<1>7. QED
  BY <1>5, <1>6


-----------------------------------------------------------------------------
(* When every live file has passed all its entries in the second round,    *)
(* the owner of a name that a live object strongly defines is itself a    *)
(* strong definer, of priority no greater than any other.                  *)
LEMMA StrongOwnerAtEnd ==
  ASSUME TypeOK, OwnerViewMatches, PhaseFrame, StrongBound, phase = "resolve2",
         \A f \in Files : rpc[f] = NumSyms(f),
         NEW n \in Names, NEW u \in Objs, StrongDefiner(u, n)
  PROVE  /\ sym[n].file \in Objs
         /\ StrongDefiner(sym[n].file, n)
         /\ Prio[sym[n].file] <= Prio[u]
<1> DEFINE o == sym[n].file
<1>0. alive \in [Files -> BOOLEAN] /\ sym[n] \in SymRec
      /\ Prio[u] \in 0 .. (RankShift - 1) /\ RankShift \in Nat \ {0}
  BY PrioAssumption, RankShiftNat DEF TypeOK, Files
<1>1. PICK j \in 1 .. NumSyms(u) : StrongDefAt(u, j) /\ ObjTab[u][j].name = n
  BY DEF StrongDefiner
<1>2. alive[u]
  BY DEF StrongDefiner
<1>3. CandRank(u, j) = RankShift + Prio[u]
  BY <1>0, <1>1, <1>2, StrongRank
<1>4. SymRank(sym[n]) <= CandRank(u, j)
  BY <1>1, <1>2, FilesAssumption DEF StrongBound, Files
<1>5. o # NoFile
  BY <1>0, <1>3, <1>4 DEF SymRank
<1>6. o \in Files /\ alive[o]
  BY <1>0, <1>5 DEF SymRec, PhaseFrame
<1>7. PICK i \in 1 .. NumSyms(o) :
        /\ Defines(o, i, n)
        /\ ViewOf(o, i) = [imported |-> sym[n].imported, weak |-> sym[n].weak,
                           common |-> sym[n].common, def |-> sym[n].def]
  BY <1>5 DEF OwnerViewMatches, OwnerViewOk
<1>8. SymRank(sym[n]) = CandRank(o, i)
  <2>1. ViewOf(o, i).common = sym[n].common /\ ViewOf(o, i).weak = sym[n].weak
    BY <1>7
  <2>2. QED
    BY <1>5, <2>1 DEF SymRank, CandRank
<1>9. CandRank(o, i) < 2 * RankShift
  <2>1. CandRank(o, i) \in 0 .. (7 * RankShift - 1)
    BY <1>0, <1>6, CandRankRange
  <2>2. QED
    BY <2>1, <1>0, <1>3, <1>4, <1>8
<1>10. o \in Objs /\ ~ViewOf(o, i).common /\ ~ViewOf(o, i).weak
  BY <1>0, <1>6, <1>9, RankBelowTwo
<1>11. StrongDefAt(o, i) /\ ObjTab[o][i].name = n
  <2>1. ObjTab[o][i] \in MachSym
    BY <1>10, ObjEntryType
  <2>2. ObjTab[o][i].type # "common" /\ ~ObjTab[o][i].weakDef
    BY <1>10 DEF ViewOf
  <2>3. QED
    BY <1>7, <1>10, <2>1, <2>2 DEF Defines, NotDefinition, StrongDefAt, SharedAt,
                                    MachSym, SymTypes
<1>12. StrongDefiner(o, n)
  BY <1>6, <1>11 DEF StrongDefiner
<1>13. CandRank(o, i) = RankShift + Prio[o] /\ Prio[o] \in Nat
  BY <1>0, <1>6, <1>10, <1>11, StrongRank, PrioAssumption
<1>14. QED
  BY <1>0, <1>3, <1>4, <1>8, <1>10, <1>12, <1>13


-----------------------------------------------------------------------------
LEMMA InitDInv == PostInit => DInv
<1> SUFFICES ASSUME PostInit PROVE DInv
  OBVIOUS
<1>1. CInv
  BY InitCInv
<1>2. OwnerViewBefore
  BY InitOwnerView DEF PostInit, OwnerViewBefore
<1>3. StrongBound /\ StrongOwner
  BY DEF PostInit, Init, StrongBound, StrongOwner
<1>4. DupFrame
  BY DEF PostInit, DupFrame
<1>5. QED
  BY <1>1, <1>2, <1>3, <1>4 DEF DInv

(* No step of resolution starts from the end of it, and the only one that  *)
(* reaches the end is the barrier after the second round.                  *)
LEMMA ResolverPhases ==
  ASSUME Next
  PROVE  /\ phase # "done"
         /\ phase' = "done" => EndResolve2
         /\ phase' = "resolve2" =>
              \/ \E f \in Objs : ResolveObjSym(f) /\ phase = "resolve2"
              \/ \E d \in Dylibs : ResolveDylibSym(d) /\ phase = "resolve2"
              \/ EndClear
BY DEF Next, ResolveObjSym, ResolveDylibSym, EndResolve1, MarkLiveSym, EndMark,
       ClearSymbols, EndClear, EndResolve2

(* A step of resolution, which leaves the post-resolution variables alone. *)
LEMMA ResolverStepDInv ==
  ASSUME DInv, Next, UNCHANGED postVars
  PROVE  DInv'
<1> USE DEF DInv
<1>0. CInv' /\ TypeOK'
  BY ResolverStepCInv, NextTypeOK DEF CInv
<1>1. phase # "done" /\ OwnerViewMatches
  BY ResolverPhases DEF OwnerViewBefore
<1>2. OwnerViewBefore'
  BY <1>1, NextOwnerView DEF OwnerViewBefore, CInv
<1>3. StrongBound'
  <2> SUFFICES ASSUME phase' = "resolve2", NEW g \in Objs, alive'[g],
                      NEW j \in 1 .. rpc'[g], StrongDefAt(g, j)
               PROVE  SymRank(sym[ObjTab[g][j].name])' <= CandRank(g, j)'
    BY DEF StrongBound, StrongDefAt, SharedAt
  <2> DEFINE n == ObjTab[g][j].name
  <2>0. alive' = alive /\ TypeOK
    BY ResolverPhases DEF ResolveObjSym, ResolveDylibSym, EndClear, CInv
  <2>1. /\ j \in 1 .. NumSyms(g) /\ n \in Names
        /\ SymRank(sym[n]) \in Nat /\ SymRank(sym'[n]) \in Nat
    <3>1. g \in Files /\ NumSyms(g) \in Nat
      BY NumSymsNat DEF Files
    <3>2. rpc'[g] \in Nat /\ rpc'[g] <= NumSyms(g)
      BY <1>0, <3>1 DEF TypeOK
    <3>3. j \in 1 .. NumSyms(g)
      BY <3>1, <3>2
    <3>4. n \in Names
      BY <3>3, ObjEntryType DEF MachSym
    <3>5. sym[n] \in SymRec /\ sym'[n] \in SymRec
      BY <3>4, <2>0, <1>0 DEF TypeOK
    <3>6. SymRank(sym[n]) \in Nat /\ SymRank(sym'[n]) \in Nat
      BY <3>5, <2>0, SymRankRange, RankShiftNat DEF TypeOK
    <3>7. QED
      BY <3>3, <3>4, <3>6
  <2>2. CandRank(g, j)' = CandRank(g, j) /\ SymRank(sym[n])' = SymRank(sym'[n])
    <3>1. g \in Files /\ j \in Nat
      BY <2>1 DEF Files
    <3>2. QED
      BY <2>0, <2>1, <3>1, RankFrame
  <2>3. CandRank(g, j) = RankShift + Prio[g] /\ Defines(g, j, n)
    BY <2>0, <2>1, StrongRank DEF TypeOK
  <2>4. ASSUME NEW f \in Objs, ResolveObjSym(f), phase = "resolve2"
        PROVE  SymRank(sym'[n]) <= CandRank(g, j)
    <3> DEFINE k == rpc[f] + 1
    <3>1. CASE g = f /\ j = k
      BY <3>1, <2>3, <2>4, <2>0, ObjStepRank
    <3>2. CASE ~(g = f /\ j = k)
      <4>1. j \in 1 .. rpc[g]
        BY <3>2, <2>4, <2>0 DEF ResolveObjSym, TypeOK
      <4>2. SymRank(sym[n]) <= CandRank(g, j)
        BY <4>1, <2>0, <2>4 DEF StrongBound
      <4>3. SymRank(sym'[n]) <= SymRank(sym[n])
        BY <2>4, <2>1, <2>0, ObjStepRank
      <4>4. CandRank(g, j) \in Nat
        BY <2>3, PrioAssumption, RankShiftNat DEF Files
      <4>5. QED
        BY <4>2, <4>3, <4>4, <2>1
    <3>3. QED
      BY <3>1, <3>2
  <2>5. ASSUME NEW d \in Dylibs, ResolveDylibSym(d), phase = "resolve2"
        PROVE  SymRank(sym'[n]) <= CandRank(g, j)
    <3>1. j \in 1 .. rpc[g]
      <4>1. g # d
        BY FilesAssumption
      <4>2. QED
        BY <4>1, <2>5, <2>0 DEF ResolveDylibSym, TypeOK
    <3>2. SymRank(sym[n]) <= CandRank(g, j)
      BY <3>1, <2>0, <2>5 DEF StrongBound
    <3>3. SymRank(sym[n]) < 2 * RankShift
      BY <3>2, <2>1, <2>3, PrioAssumption, RankShiftNat DEF Files
    <3>4. sym'[n] = sym[n]
      BY <3>3, <2>5, <2>0, <2>1, DylibKeepsStrong
    <3>5. QED
      BY <3>2, <3>4
  <2>6. ASSUME EndClear PROVE SymRank(sym'[n]) <= CandRank(g, j)
    <3>1. rpc'[g] = 0
      BY <2>6, <2>0, FilesAssumption DEF EndClear, Files
    <3>2. QED
      BY <3>1
  <2>7. SymRank(sym'[n]) <= CandRank(g, j)
    <3>1. \/ \E f \in Objs : ResolveObjSym(f) /\ phase = "resolve2"
          \/ \E d \in Dylibs : ResolveDylibSym(d) /\ phase = "resolve2"
          \/ EndClear
      BY ResolverPhases
    <3>2. CASE \E f \in Objs : ResolveObjSym(f) /\ phase = "resolve2"
      <4>1. PICK f \in Objs : ResolveObjSym(f) /\ phase = "resolve2"
        BY <3>2
      <4>2. QED
        BY <4>1, <2>4
    <3>3. CASE \E d \in Dylibs : ResolveDylibSym(d) /\ phase = "resolve2"
      <4>1. PICK d \in Dylibs : ResolveDylibSym(d) /\ phase = "resolve2"
        BY <3>3
      <4>2. QED
        BY <4>1, <2>5
    <3>4. QED
      BY <3>1, <3>2, <3>3, <2>6
  <2>8. QED
    BY <2>2, <2>7
<1>4. StrongOwner'
  <2> SUFFICES ASSUME phase' = "done", NEW n \in Names, NEW u \in Objs,
                      StrongDefiner(u, n)'
               PROVE  (/\ sym[n].file \in Objs
                       /\ StrongDefiner(sym[n].file, n)
                       /\ Prio[sym[n].file] <= Prio[u])'
    BY DEF StrongOwner
  <2>1. EndResolve2
    BY ResolverPhases
  <2>2. UNCHANGED <<alive, sym>>
    BY <2>1 DEF EndResolve2
  <2>3. StrongDefiner(u, n)
    BY <2>2 DEF StrongDefiner
  <2>4. /\ sym[n].file \in Objs
        /\ StrongDefiner(sym[n].file, n)
        /\ Prio[sym[n].file] <= Prio[u]
    BY <2>1, <2>3, <1>1, StrongOwnerAtEnd DEF EndResolve2, CInv
  <2>5. QED
    BY <2>2, <2>4 DEF StrongDefiner
<1>5. DupFrame'
  <2>1. post = "common" /\ checked = {}
    BY <1>1 DEF CInv, PostFrame, DupFrame
  <2>2. dupErrs = {}
    BY <2>1 DEF DupFrame
  <2>3. QED
    BY <2>1, <2>2 DEF postVars, DupFrame
<1>6. QED
  BY <1>0, <1>2, <1>3, <1>4, <1>5


(* The steps after resolution: common conversion and the duplicate check.  *)
(* None moves an owner or revives a file.                                 *)
LEMMA PostStepDInv ==
  ASSUME DInv,
         \/ \E o \in Objs : ConvertCommon(o)
         \/ EndCommon
         \/ \E o \in Objs : CheckDuplicates(o)
         \/ EndDups
  PROVE  DInv'
<1> USE DEF DInv
<1>0. CInv'
  BY PostStepCInv
<1>1. /\ phase = "done" /\ phase' = "done" /\ alive' = alive
      /\ \A n \in Names : sym'[n].file = sym[n].file
  <2>1. ASSUME NEW o \in Objs, ConvertCommon(o)
        PROVE  /\ phase = "done" /\ phase' = "done" /\ alive' = alive
               /\ \A n \in Names : sym'[n].file = sym[n].file
    BY <2>1 DEF ConvertCommon, CInv, TypeOK, SymRec
  <2>2. post # "common" => phase = "done"
    BY DEF CInv, PostFrame
  <2>3. QED
    BY <2>1, <2>2 DEF EndCommon, CheckDuplicates, EndDups, vars
<1>2. OwnerViewBefore' /\ StrongBound'
  BY <1>1 DEF OwnerViewBefore, StrongBound
<1>3. StrongOwner'
  <2> SUFFICES ASSUME NEW n \in Names, NEW u \in Objs, StrongDefiner(u, n)'
               PROVE  (/\ sym[n].file \in Objs
                       /\ StrongDefiner(sym[n].file, n)
                       /\ Prio[sym[n].file] <= Prio[u])'
    BY DEF StrongOwner
  <2>1. StrongDefiner(u, n)
    BY <1>1 DEF StrongDefiner
  <2>2. /\ sym[n].file \in Objs
        /\ StrongDefiner(sym[n].file, n)
        /\ Prio[sym[n].file] <= Prio[u]
    BY <2>1, <1>1 DEF StrongOwner
  <2>3. QED
    BY <2>2, <1>1 DEF StrongDefiner
<1>4. DupFrame'
  <2>1. ASSUME NEW o \in Objs, ConvertCommon(o) PROVE DupFrame'
    <3>1. checked = {} /\ dupErrs = {}
      BY <2>1 DEF ConvertCommon, DupFrame
    <3>2. QED
      BY <3>1, <2>1 DEF ConvertCommon, DupFrame
  <2>2. ASSUME EndCommon PROVE DupFrame'
    <3>1. checked = {} /\ dupErrs = {}
      BY <2>2 DEF EndCommon, DupFrame
    <3>2. QED
      BY <3>1, <2>2 DEF EndCommon, DupFrame
  <2>3. ASSUME NEW o \in Objs, CheckDuplicates(o) PROVE DupFrame'
    <3>1. UNCHANGED <<alive, sym, post>>
      BY <2>3 DEF CheckDuplicates, vars
    <3>2. \A c \in Objs : DupsOf(c)' = DupsOf(c)
      BY <3>1 DEF DupsOf
    <3>3. dupErrs' = dupErrs \cup DupsOf(o)
      BY <2>3 DEF CheckDuplicates, DupsOf
    <3>4. checked' = checked \cup {o} /\ alive[o] /\ post = "dups"
      BY <2>3 DEF CheckDuplicates
    <3>5. dupErrs' = UNION {DupsOf(c)' : c \in checked'}
      BY <3>2, <3>3, <3>4 DEF DupFrame
    <3>6. QED
      BY <3>1, <3>4, <3>5 DEF DupFrame
  <2>4. ASSUME EndDups PROVE DupFrame'
    BY <2>4, <1>1 DEF EndDups, vars, DupFrame, DupsOf
  <2>5. QED
    BY <2>1, <2>2, <2>3, <2>4
<1>5. QED
  BY <1>0, <1>2, <1>3, <1>4

(* Every step of the whole run, stuttering included, keeps DInv.           *)
LEMMA NextDInv == DInv /\ [PostNext]_allVars => DInv'
<1> SUFFICES ASSUME DInv, [PostNext]_allVars PROVE DInv'
  OBVIOUS
<1>1. CASE Next /\ UNCHANGED postVars
  BY <1>1, ResolverStepDInv
<1>2. CASE UNCHANGED allVars
  <2>1. CInv'
    BY <1>2, NextCInv DEF DInv
  <2>2. UNCHANGED <<phase, alive, sym, rpc, post, checked, dupErrs>>
    BY <1>2 DEF allVars, vars, postVars
  <2>3. OwnerViewBefore'
    BY <2>2 DEF DInv, OwnerViewBefore, OwnerViewMatches, OwnerViewOk, Defines,
                ViewOf
  <2>4. StrongBound'
    <3>1. /\ \A n \in Names : SymRank(sym[n])' = SymRank(sym[n])
          /\ \A g \in Files, j \in Nat : CandRank(g, j)' = CandRank(g, j)
      BY <2>2, RankFrame
    <3>2. SUFFICES ASSUME phase' = "resolve2", NEW g \in Objs, alive'[g],
                          NEW j \in 1 .. rpc'[g], StrongDefAt(g, j)
                   PROVE  SymRank(sym[ObjTab[g][j].name])' <= CandRank(g, j)'
      BY DEF StrongBound
    <3>3. j \in 1 .. NumSyms(g)
      BY <2>2, NumSymsNat DEF DInv, CInv, TypeOK, Files
    <3>4. ObjTab[g][j].name \in Names /\ g \in Files /\ j \in Nat
      BY <3>3, ObjEntryType DEF MachSym, Files
    <3>5. SymRank(sym[ObjTab[g][j].name]) <= CandRank(g, j)
      BY <2>2, <3>2 DEF DInv, StrongBound
    <3>6. QED
      BY <3>1, <3>4, <3>5
  <2>7. StrongOwner'
    BY <2>2 DEF DInv, StrongOwner, StrongDefiner
  <2>5. DupFrame'
    BY <2>2 DEF DInv, DupFrame, DupsOf
  <2>6. QED
    BY <2>1, <2>3, <2>4, <2>5, <2>7 DEF DInv
<1>3. QED
  BY <1>1, <1>2, PostStepDInv DEF PostNext


(* Once every live object has been checked, the reports are exactly the    *)
(* duplicates: the owner a report names is the first strong definer, since *)
(* StrongOwner puts it no later than the reporter and priorities are       *)
(* distinct; and every later strong definer reported its name, because the *)
(* owner is the first one, which is not itself.                            *)
LEMMA DInvDuplicatesReported == DInv => DuplicatesReported
<1> SUFFICES ASSUME DInv, post = "end"
             PROVE  dupErrs = {t \in Objs \X Names \X Objs :
                                 IsDuplicate(t[1], t[2], t[3])}
  BY DEF DuplicatesReported
<1>1. phase = "done" /\ checked = {o \in Objs : alive[o]}
  BY DEF DInv, CInv, PostFrame, DupFrame
<1>2. dupErrs = UNION {DupsOf(o) : o \in checked}
  BY DEF DInv, DupFrame
<1>3. ASSUME NEW o \in Objs, NEW n \in Names, StrongDefiner(o, n)
      PROVE  /\ sym[n].file \in Objs
             /\ StrongDefiner(sym[n].file, n)
             /\ Prio[sym[n].file] <= Prio[o]
  BY <1>1, <1>3 DEF DInv, StrongOwner
<1>4. ASSUME NEW t \in dupErrs
      PROVE  t \in Objs \X Names \X Objs /\ IsDuplicate(t[1], t[2], t[3])
  <2>1. PICK o \in checked : t \in DupsOf(o)
    BY <1>2
  <2>2. o \in Objs /\ alive[o]
    BY <1>1
  <2>3. PICK i \in 1 .. NumSyms(o) :
          /\ StrongDefAt(o, i)
          /\ sym[ObjTab[o][i].name].file \notin {NoFile, o}
          /\ t = << o, ObjTab[o][i].name, sym[ObjTab[o][i].name].file >>
    BY <2>1 DEF DupsOf
  <2> DEFINE n == ObjTab[o][i].name
             x == sym[n].file
  <2>4. n \in Names
    BY <2>2, ObjEntryType DEF MachSym
  <2>5. StrongDefiner(o, n)
    BY <2>2, <2>3 DEF StrongDefiner
  <2>6. x \in Objs /\ StrongDefiner(x, n) /\ Prio[x] <= Prio[o]
    BY <2>4, <2>5, <2>2, <1>3
  <2>7. Prio[x] < Prio[o]
    <3>1. x # o /\ x \in Files /\ o \in Files
      BY <2>3, <2>6, <2>2 DEF Files
    <3>2. Prio[x] \in Nat /\ Prio[o] \in Nat /\ Prio[x] # Prio[o]
      BY <3>1, PrioAssumption
    <3>3. \A a, b \in Nat : a <= b /\ a # b => a < b
      OBVIOUS
    <3>4. QED
      BY <3>2, <2>6, <3>3, Zenon
  <2>8. \A u \in Objs : StrongDefiner(u, n) => Prio[x] <= Prio[u]
    <3>1. SUFFICES ASSUME NEW u \in Objs, StrongDefiner(u, n)
                   PROVE  Prio[x] <= Prio[u]
      OBVIOUS
    <3>2. QED
      BY <3>1, <2>4, <1>3
  <2>9. QED
    BY <2>3, <2>4, <2>5, <2>6, <2>7, <2>8, <2>2 DEF IsDuplicate
<1>5. ASSUME NEW t \in Objs \X Names \X Objs, IsDuplicate(t[1], t[2], t[3])
      PROVE  t \in dupErrs
  <2> DEFINE o == t[1]
             n == t[2]
             w == t[3]
  <2>1. o \in Objs /\ n \in Names /\ w \in Objs /\ t = << o, n, w >>
    OBVIOUS
  <2>2. StrongDefiner(o, n) /\ StrongDefiner(w, n) /\ Prio[w] < Prio[o]
        /\ \A u \in Objs : StrongDefiner(u, n) => Prio[w] <= Prio[u]
    BY <1>5 DEF IsDuplicate
  <2>3. o \in checked
    BY <2>1, <2>2, <1>1 DEF StrongDefiner
  <2>4. PICK i \in 1 .. NumSyms(o) : StrongDefAt(o, i) /\ ObjTab[o][i].name = n
    BY <2>2 DEF StrongDefiner
  <2> DEFINE x == sym[n].file
  <2>5. x \in Objs /\ StrongDefiner(x, n) /\ Prio[x] <= Prio[w]
    BY <2>1, <2>2, <1>3
  <2>6. x = w
    <3>1. Prio[w] <= Prio[x]
      BY <2>2, <2>5
    <3>2. x \in Files /\ w \in Files /\ Prio[x] \in Nat /\ Prio[w] \in Nat
      BY <2>1, <2>5, PrioAssumption DEF Files
    <3>3. Prio[x] = Prio[w]
      BY <3>1, <3>2, <2>5
    <3>4. QED
      BY <3>2, <3>3, PrioAssumption
  <2>7. x \notin {NoFile, o}
    <3>1. w # o
      BY <2>1, <2>2, PrioAssumption DEF Files
    <3>2. w # NoFile
      BY <2>1, FilesAssumption DEF Files
    <3>3. QED
      BY <2>6, <3>1, <3>2
  <2>8. t \in DupsOf(o)
    BY <2>1, <2>4, <2>6, <2>7 DEF DupsOf
  <2>9. QED
    BY <2>3, <2>8, <1>2
<1>6. QED
  BY <1>4, <1>5

(* The duplicate-symbol check of the whole link reports exactly the        *)
(* strong definitions that lost to an earlier strong definition, naming    *)
(* the winner, for any files, tables and dylibs.                          *)
THEOREM DuplicatesReportedInvariant == PostSpec => []DuplicatesReported
<1>1. PostInit => DInv
  BY InitDInv
<1>2. DInv /\ [PostNext]_allVars => DInv'
  BY NextDInv
<1>3. DInv => DuplicatesReported
  BY DInvDuplicatesReported
<1>4. QED
  BY <1>1, <1>2, <1>3, PTL DEF PostSpec

=============================================================================
