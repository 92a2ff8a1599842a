------------------------- MODULE PostResolveProofs -------------------------
(***************************************************************************)
(* Proofs about PostResolve, for every set of files, names, priorities and *)
(* symbol tables that satisfy Resolver's assumptions: after common-symbol  *)
(* materialisation no symbol is left common.                               *)
(*                                                                         *)
(* CommonsCleared is not inductive: it needs three facts about the way     *)
(* there.  A common symbol is owned by an object that has a common entry  *)
(* of that name (CommonOwnerOk).  From the second round on, every owner is *)
(* live, because clear_symbols has reset what dead files owned and only   *)
(* live files take part in the second round (PhaseFrame).  And the objects *)
(* that have run convert_common_symbols own no common symbol (PostFrame).  *)
(***************************************************************************)
EXTENDS PostResolve, ResolverProofs

CommonOwnedAt(n) ==
  sym[n].common =>
    /\ sym[n].file \in Objs
    /\ \E i \in 1 .. NumSyms(sym[n].file) :
         /\ ObjTab[sym[n].file][i].name = n
         /\ SharedAt(sym[n].file, i)
         /\ ObjTab[sym[n].file][i].type = "common"

CommonOwnerOk == \A n \in Names : CommonOwnedAt(n)

PostFrame ==
  /\ post \in {"common", "dups", "end"}
  /\ converted \subseteq Objs
  /\ phase # "done" => converted = {} /\ post = "common"
  /\ phase = "done" =>
       \A n \in Names : sym[n].common => sym[n].file \notin converted
  /\ post # "common" => \A o \in Objs : alive[o] => o \in converted

CInv == TypeOK /\ CommonOwnerOk /\ PhaseFrame /\ PostFrame

-----------------------------------------------------------------------------
(* The Symbol record an object's winning entry writes is common exactly    *)
(* when the entry is.                                                      *)
LEMMA OwnerRecCommon ==
  ASSUME NEW f, NEW m, NEW scope, ObjOwnerRec(f, m, scope).common
  PROVE  m.type = "common"
BY Zenon DEF ObjOwnerRec

LEMMA InitCInv == PostInit => CInv
<1> SUFFICES ASSUME PostInit PROVE CInv
  OBVIOUS
<1>1. TypeOK
  BY InitTypeOK DEF PostInit
<1>2. CommonOwnerOk
  BY DEF PostInit, Init, CommonOwnerOk, CommonOwnedAt, NullSym
<1>3. PhaseFrame
  BY DEF PostInit, Init, PhaseFrame
<1>4. PostFrame
  BY DEF PostInit, Init, PostFrame
<1>5. QED
  BY <1>1, <1>2, <1>3, <1>4 DEF CInv

(* A step of the resolution phases, which leaves the post-resolution       *)
(* variables alone.                                                        *)
LEMMA ResolverStepCInv ==
  ASSUME CInv, Next, UNCHANGED postVars
  PROVE  CInv'
<1> USE DEF CInv
<1>0. TypeOK'
  BY NextTypeOK
<1>n. NoFile \notin Files
  BY FilesAssumption
<1>1. ASSUME NEW f \in Objs, ResolveObjSym(f) PROVE CInv'
  <2> DEFINE ent == ObjTab[f][rpc[f] + 1]
  <2>1. rpc[f] + 1 \in 1 .. NumSyms(f) /\ NumSyms(f) \in Nat
    BY <1>1, NumSymsNat DEF ResolveObjSym, TypeOK, Files
  <2>2. ent \in MachSym
    BY <2>1, ObjEntryType
  <2>3. UNCHANGED <<phase, alive, queued, mpc, cleared>>
    BY <1>1 DEF ResolveObjSym
  <2>4. \A n \in Names : n # ent.name => sym'[n] = sym[n]
    BY <1>1, <2>2 DEF ResolveObjSym, TypeOK, MachSym
  <2>5. \/ sym'[ent.name] = sym[ent.name]
        \/ /\ ~NotDefinition(ent)
           /\ sym'[ent.name] = ObjOwnerRec(f, ent, MergeScope(sym[ent.name], f, ent))
        \/ /\ sym'[ent.name].file = sym[ent.name].file
           /\ sym'[ent.name].common = sym[ent.name].common
    BY <1>1, <2>2 DEF ResolveObjSym, TypeOK, MachSym, SymRec
  <2>6. CommonOwnerOk'
    <3> SUFFICES ASSUME NEW n \in Names, sym'[n].common
                 PROVE  CommonOwnedAt(n)'
      BY DEF CommonOwnerOk, CommonOwnedAt
    <3>1. CASE n # ent.name
      BY <3>1, <2>4 DEF CommonOwnerOk, CommonOwnedAt
    <3>2. CASE n = ent.name /\ ~NotDefinition(ent)
               /\ sym'[ent.name] = ObjOwnerRec(f, ent, MergeScope(sym[ent.name], f, ent))
      <4>0. sym'[n] = ObjOwnerRec(f, ent, MergeScope(sym[ent.name], f, ent))
        BY <3>2
      <4>1. sym'[n].file = f
        BY <4>0 DEF ObjOwnerRec
      <4>5. ent.type = "common"
        BY <4>0, OwnerRecCommon
      <4>2. SharedAt(f, rpc[f] + 1)
        BY <3>2 DEF NotDefinition, SharedAt
      <4>3. QED
        BY <3>2, <4>1, <4>2, <4>5, <2>1 DEF CommonOwnedAt
    <3>3. CASE n = ent.name /\ sym'[ent.name].file = sym[ent.name].file
               /\ sym'[ent.name].common = sym[ent.name].common
      <4>1. sym'[n].file = sym[n].file /\ sym[n].common
        BY <3>3
      <4>2. CommonOwnedAt(n)
        BY DEF CommonOwnerOk
      <4>3. QED
        BY <4>1, <4>2 DEF CommonOwnedAt
    <3>4. QED
      BY <3>1, <3>2, <3>3, <2>5
  <2>7. PhaseFrame'
    <3>1. phase \in {"resolve1", "resolve2"}
      BY <1>1 DEF ResolveObjSym
    <3>2. CASE phase = "resolve1"
      BY <3>2, <2>3 DEF PhaseFrame
    <3>3. CASE phase = "resolve2"
      <4>1. alive[f]
        BY <3>3, <2>1, <1>1 DEF ResolveObjSym, PhaseFrame, Files
      <4>2. \A g \in Files : ~alive[g] => rpc'[g] = NumSyms(g)
        BY <3>3, <4>1, <1>1 DEF ResolveObjSym, PhaseFrame, TypeOK
      <4>3. \A n \in Names : sym'[n].file # NoFile => alive[sym'[n].file]
        <5> SUFFICES ASSUME NEW n \in Names, sym'[n].file # NoFile
                     PROVE  alive[sym'[n].file]
          OBVIOUS
        <5>1. CASE n # ent.name
          BY <5>1, <2>4, <3>3 DEF PhaseFrame
        <5>2. CASE n = ent.name /\ ~NotDefinition(ent)
                   /\ sym'[ent.name] = ObjOwnerRec(f, ent, MergeScope(sym[ent.name], f, ent))
          BY <5>2, <4>1 DEF ObjOwnerRec
        <5>3. CASE n = ent.name /\ sym'[ent.name].file = sym[ent.name].file
          BY <5>3, <3>3 DEF PhaseFrame
        <5>4. QED
          BY <5>1, <5>2, <5>3, <2>5
      <4>4. QED
        BY <3>3, <4>2, <4>3, <2>3 DEF PhaseFrame
    <3>4. QED
      BY <3>1, <3>2, <3>3
  <2>8. PostFrame'
    BY <1>1, <2>3 DEF ResolveObjSym, PostFrame, postVars
  <2>9. QED
    BY <1>0, <2>6, <2>7, <2>8
<1>2. ASSUME NEW d \in Dylibs, ResolveDylibSym(d) PROVE CInv'
  <2> DEFINE e == DylibTab[d][rpc[d] + 1]
  <2>1. rpc[d] + 1 \in 1 .. NumSyms(d) /\ NumSyms(d) \in Nat
    BY <1>2, NumSymsNat DEF ResolveDylibSym, TypeOK, Files
  <2>2. e \in DylibSym
    BY <2>1, DylibEntryType
  <2>3. UNCHANGED <<phase, alive, queued, mpc, cleared>>
    BY <1>2 DEF ResolveDylibSym
  <2>4. \A n \in Names : \/ sym'[n] = sym[n]
                         \/ sym'[n].file = d /\ ~sym'[n].common
    BY <1>2, <2>2 DEF ResolveDylibSym, TypeOK, DylibSym
  <2>5. CommonOwnerOk'
    BY <2>4 DEF CommonOwnerOk, CommonOwnedAt
  <2>6. PhaseFrame'
    <3>1. phase \in {"resolve1", "resolve2"}
      BY <1>2 DEF ResolveDylibSym
    <3>2. CASE phase = "resolve1"
      BY <3>2, <2>3 DEF PhaseFrame
    <3>3. CASE phase = "resolve2"
      <4>1. alive[d]
        BY <3>3, <2>1, <1>2 DEF ResolveDylibSym, PhaseFrame, Files
      <4>2. \A g \in Files : ~alive[g] => rpc'[g] = NumSyms(g)
        BY <3>3, <4>1, <1>2 DEF ResolveDylibSym, PhaseFrame, TypeOK
      <4>3. QED
        BY <3>3, <4>1, <4>2, <2>3, <2>4 DEF PhaseFrame
    <3>4. QED
      BY <3>1, <3>2, <3>3
  <2>7. PostFrame'
    BY <1>2, <2>3 DEF ResolveDylibSym, PostFrame, postVars
  <2>8. QED
    BY <1>0, <2>5, <2>6, <2>7
<1>3. CASE EndResolve1
  BY <1>0, <1>3 DEF EndResolve1, CommonOwnerOk, CommonOwnedAt, PhaseFrame, PostFrame, postVars
<1>4. ASSUME NEW o \in Objs, MarkLiveSym(o) PROVE CInv'
  <2>1. phase = "mark" /\ UNCHANGED <<phase, sym, rpc, cleared>>
    BY <1>4 DEF MarkLiveSym
  <2>2. CommonOwnerOk'
    BY <2>1 DEF CommonOwnerOk, CommonOwnedAt
  <2>3. PhaseFrame'
    BY <2>1 DEF PhaseFrame
  <2>4. PostFrame'
    BY <2>1 DEF PostFrame, postVars
  <2>5. QED
    BY <1>0, <2>2, <2>3, <2>4
<1>5. CASE EndMark
  BY <1>0, <1>5 DEF EndMark, CommonOwnerOk, CommonOwnedAt, PhaseFrame, PostFrame, postVars
<1>6. ASSUME NEW f \in Files, ClearSymbols(f) PROVE CInv'
  <2>1. \A n \in Names : sym'[n] = IF sym[n].file = f THEN NullSym ELSE sym[n]
    BY <1>6 DEF ClearSymbols
  <2>2. CommonOwnerOk'
    BY <2>1 DEF CommonOwnerOk, CommonOwnedAt, NullSym
  <2>3. PhaseFrame'
    <3>1. cleared \subseteq Files
      BY DEF TypeOK
    <3>2. \A g \in cleared' : ~alive'[g] /\ \A n \in Names : sym'[n].file # g
      BY <1>6, <2>1, <3>1, <1>n DEF ClearSymbols, PhaseFrame, NullSym
    <3>3. QED
      BY <1>6, <3>2 DEF ClearSymbols, PhaseFrame
  <2>4. PostFrame'
    BY <1>6, <2>1 DEF ClearSymbols, PostFrame, postVars
  <2>5. QED
    BY <1>0, <2>2, <2>3, <2>4
<1>7. CASE EndClear
  <2>1. \A n \in Names : sym[n].file # NoFile => alive[sym[n].file]
    <3> SUFFICES ASSUME NEW n \in Names, sym[n].file # NoFile, ~alive[sym[n].file]
                 PROVE  FALSE
      OBVIOUS
    <3>1. sym[n].file \in Files
      BY DEF TypeOK, SymRec
    <3>2. sym[n].file \in cleared
      BY <1>7, <3>1 DEF EndClear
    <3>3. QED
      BY <1>7, <3>2 DEF EndClear, PhaseFrame
  <2>2. PhaseFrame'
    BY <1>7, <2>1 DEF EndClear, PhaseFrame
  <2>3. QED
    BY <1>0, <1>7, <2>2 DEF EndClear, CommonOwnerOk, CommonOwnedAt, PostFrame, postVars
<1>8. CASE EndResolve2
  BY <1>0, <1>8 DEF EndResolve2, CommonOwnerOk, CommonOwnedAt, PhaseFrame, PostFrame, postVars
<1>9. QED
  BY <1>1, <1>2, <1>3, <1>4, <1>5, <1>6, <1>7, <1>8 DEF Next

(* A step of the two post-resolution loops or of their barriers.           *)
LEMMA PostStepCInv ==
  ASSUME CInv,
         \/ \E o \in Objs : ConvertCommon(o)
         \/ EndCommon
         \/ \E o \in Objs : CheckDuplicates(o)
         \/ EndDups
  PROVE  CInv'
<1> USE DEF CInv
<1>1. ASSUME NEW o \in Objs, ConvertCommon(o) PROVE CInv'
  <2>1. \A n \in Names :
          /\ sym'[n].file = sym[n].file
          /\ sym'[n].common => sym[n].common /\ n \notin ConvertedNames(o)
    BY <1>1 DEF ConvertCommon, TypeOK, SymRec
  <2>2. TypeOK'
    <3>1. sym' \in [Names -> SymRec]
      BY <1>1 DEF ConvertCommon, TypeOK, SymRec, Defs
    <3>2. QED
      BY <1>1, <3>1 DEF ConvertCommon, TypeOK
  <2>3. CommonOwnerOk'
    BY <2>1 DEF CommonOwnerOk, CommonOwnedAt
  <2>4. PhaseFrame'
    BY <1>1, <2>1 DEF ConvertCommon, PhaseFrame
  <2>5. ASSUME NEW n \in Names, sym'[n].common PROVE sym'[n].file # o
    <3> SUFFICES ASSUME sym[n].file = o PROVE FALSE
      BY <2>1
    <3>1. PICK i \in 1 .. NumSyms(o) :
            ObjTab[o][i].name = n /\ SharedAt(o, i)
      BY <2>1, <2>5 DEF CommonOwnerOk, CommonOwnedAt
    <3>2. n \in ConvertedNames(o)
      BY <3>1, <2>1, <2>5 DEF ConvertedNames
    <3>3. QED
      BY <3>2, <2>1, <2>5
  <2>6. PostFrame'
    BY <1>1, <2>1, <2>5 DEF ConvertCommon, PostFrame
  <2>7. QED
    BY <2>2, <2>3, <2>4, <2>6
<1>2. CASE EndCommon
  BY <1>2 DEF EndCommon, vars, TypeOK, CommonOwnerOk, CommonOwnedAt, PhaseFrame, PostFrame
<1>3. ASSUME NEW o \in Objs, CheckDuplicates(o) PROVE CInv'
  <2>1. UNCHANGED <<phase, alive, sym, rpc, queued, mpc, cleared, post, converted>>
    BY <1>3 DEF CheckDuplicates, vars
  <2>2. QED
    BY <2>1 DEF TypeOK, CommonOwnerOk, CommonOwnedAt, PhaseFrame, PostFrame
<1>4. CASE EndDups
  BY <1>4 DEF EndDups, vars, TypeOK, CommonOwnerOk, CommonOwnedAt, PhaseFrame, PostFrame
<1>5. QED
  BY <1>1, <1>2, <1>3, <1>4

LEMMA NextCInv == CInv /\ [PostNext]_allVars => CInv'
<1> SUFFICES ASSUME CInv, [PostNext]_allVars PROVE CInv'
  OBVIOUS
<1>1. CASE Next /\ UNCHANGED postVars
  BY <1>1, ResolverStepCInv
<1>2. CASE UNCHANGED allVars
  <2>1. UNCHANGED <<phase, alive, sym, rpc, queued, mpc, cleared, post, converted>>
    BY <1>2 DEF allVars, vars, postVars
  <2>2. QED
    BY <2>1 DEF CInv, TypeOK, CommonOwnerOk, CommonOwnedAt, PhaseFrame, PostFrame
<1>3. QED
  BY <1>1, <1>2, PostStepCInv DEF PostNext

LEMMA CInvCommonsCleared == CInv => CommonsCleared
<1> SUFFICES ASSUME CInv, post # "common", NEW n \in Names, sym[n].common
             PROVE  FALSE
  BY DEF CommonsCleared
<1>1. phase = "done"
  BY DEF CInv, PostFrame
<1>2. sym[n].file \in Objs
  BY DEF CInv, CommonOwnerOk, CommonOwnedAt
<1>3. alive[sym[n].file]
  BY <1>1, <1>2, FilesAssumption DEF CInv, PhaseFrame, Files
<1>4. QED
  BY <1>1, <1>2, <1>3 DEF CInv, PostFrame

(* Section 4.7 and convert_common_symbols: once every live object has run  *)
(* the conversion, no Symbol is left common, in every run of the driver    *)
(* and for every input -- the second round leaves only live owners, and    *)
(* each live owner converts the commons it owns.                           *)
THEOREM CommonsClearedInvariant == PostSpec => []CommonsCleared
<1>1. PostInit => CInv
  BY InitCInv
<1>2. CInv /\ [PostNext]_allVars => CInv'
  BY NextCInv
<1>3. CInv => CommonsCleared
  BY CInvCommonsCleared
<1>4. QED
  BY <1>1, <1>2, <1>3, PTL DEF PostSpec
====
