--------------------------- MODULE ResolverProofs ---------------------------
(***************************************************************************)
(* Proofs about Resolver, for every set of files, names, priorities and    *)
(* symbol tables that satisfy the module's assumptions.                    *)
(***************************************************************************)
EXTENDS Resolver, WellFoundedInduction, TLAPS


-----------------------------------------------------------------------------
(* Every file's table has a length, and its entries have their type.       *)
LEMMA NumSymsNat ==
  ASSUME NEW f \in Files
  PROVE  NumSyms(f) \in Nat
BY TabAssumption DEF NumSyms, Files

LEMMA ObjEntryType ==
  ASSUME NEW o \in Objs, NEW i \in 1 .. NumSyms(o)
  PROVE  ObjTab[o][i] \in MachSym
BY TabAssumption DEF NumSyms

LEMMA DylibEntryType ==
  ASSUME NEW d \in Dylibs, NEW i \in 1 .. NumSyms(d)
  PROVE  DylibTab[d][i] \in DylibSym
<1>1. d \notin Objs
  BY FilesAssumption
<1>2. QED
  BY <1>1, TabAssumption DEF NumSyms

-----------------------------------------------------------------------------
(* Type correctness.                                                       *)
LEMMA InitTypeOK == Init => TypeOK
<1> SUFFICES ASSUME Init PROVE TypeOK
  OBVIOUS
<1>1. \A f \in Files : NumSyms(f) \in Nat
  BY NumSymsNat
<1>2. NullSym \in SymRec
  BY DEF NullSym, SymRec, Scopes, Defs
<1>3. alive \in [Files -> BOOLEAN]
  BY DEF Init
<1>4. sym \in [Names -> SymRec]
  BY <1>2 DEF Init
<1>5. rpc \in [Files -> Nat] /\ \A f \in Files : rpc[f] <= NumSyms(f)
  BY <1>1 DEF Init
<1>6. /\ queued \in [Objs -> Nat]
      /\ mpc \in [Objs -> Nat]
      /\ \A o \in Objs : mpc[o] <= NumSyms(o)
  BY <1>1 DEF Init, Files
<1>7. QED
  BY <1>3, <1>4, <1>5, <1>6 DEF Init, TypeOK, Phases

LEMMA NextTypeOK == TypeOK /\ [Next]_vars => TypeOK'
<1> SUFFICES ASSUME TypeOK, [Next]_vars PROVE TypeOK'
  OBVIOUS
<1>0. \A f \in Files : NumSyms(f) \in Nat
  BY NumSymsNat
<1>1. ASSUME NEW f \in Objs, ResolveObjSym(f) PROVE TypeOK'
  <2> DEFINE m == ObjTab[f][rpc[f] + 1]
             s == sym[m.name]
  <2>1. rpc[f] + 1 \in 1 .. NumSyms(f) /\ NumSyms(f) \in Nat
    BY <1>1, NumSymsNat DEF ResolveObjSym, TypeOK, Files
  <2>2. m \in MachSym
    BY <2>1, ObjEntryType
  <2>3. s \in SymRec
    BY <2>2 DEF TypeOK, MachSym
  <2>4. MergeScope(s, f, m) \in Scopes
    BY DEF MergeScope, Scopes
  <2>5. ~NotDefinition(m) => ObjOwnerRec(f, m, MergeScope(s, f, m)) \in SymRec
    BY <2>2, <2>4 DEF NotDefinition, ObjOwnerRec, SymRec, MachSym, SymTypes,
                      Defs, Files
  <2>6. sym' \in [Names -> SymRec]
    BY <1>1, <2>2, <2>3, <2>4, <2>5 DEF ResolveObjSym, TypeOK, SymRec, MachSym
  <2>7. UNCHANGED <<phase, alive, queued, mpc, cleared>>
    BY <1>1 DEF ResolveObjSym
  <2>8. rpc' = [rpc EXCEPT ![f] = @ + 1]
    BY <1>1 DEF ResolveObjSym
  <2>9. rpc' \in [Files -> Nat] /\ \A g \in Files : rpc'[g] <= NumSyms(g)
    BY <1>0, <2>1, <2>8 DEF TypeOK, Files
  <2>10. QED
    BY <2>6, <2>7, <2>9 DEF TypeOK
<1>2. ASSUME NEW d \in Dylibs, ResolveDylibSym(d) PROVE TypeOK'
  <2> DEFINE e == DylibTab[d][rpc[d] + 1]
  <2>1. rpc[d] + 1 \in 1 .. NumSyms(d) /\ NumSyms(d) \in Nat
    BY <1>2, NumSymsNat DEF ResolveDylibSym, TypeOK, Files
  <2>2. e \in DylibSym
    BY <2>1, DylibEntryType
  <2>3. sym' \in [Names -> SymRec]
    BY <1>2, <2>2 DEF ResolveDylibSym, TypeOK, SymRec, DylibSym, Scopes,
                     Defs, Files
  <2>4. UNCHANGED <<phase, alive, queued, mpc, cleared>>
    BY <1>2 DEF ResolveDylibSym
  <2>5. rpc' = [rpc EXCEPT ![d] = @ + 1]
    BY <1>2 DEF ResolveDylibSym
  <2>6. rpc' \in [Files -> Nat] /\ \A f \in Files : rpc'[f] <= NumSyms(f)
    BY <1>0, <2>1, <2>5 DEF TypeOK, Files
  <2>7. QED
    BY <2>3, <2>4, <2>6 DEF TypeOK
<1>3. CASE EndResolve1
  BY <1>3 DEF EndResolve1, TypeOK, Phases
<1>4. ASSUME NEW o \in Objs, MarkLiveSym(o) PROVE TypeOK'
  <2>1. mpc[o] + 1 \in 1 .. NumSyms(o) /\ NumSyms(o) \in Nat
    BY <1>4, NumSymsNat DEF MarkLiveSym, TypeOK, Files
  <2>2. ObjTab[o][mpc[o] + 1] \in MachSym
    BY <2>1, ObjEntryType
  <2>3. sym[ObjTab[o][mpc[o] + 1].name] \in SymRec
    BY <2>2 DEF TypeOK, MachSym
  <2> DEFINE s == sym[ObjTab[o][mpc[o] + 1].name]
  <2>4. alive' \in [Files -> BOOLEAN] /\ queued' \in [Objs -> Nat]
    <3>1. CASE ActivatesOwner(ObjTab[o][mpc[o] + 1], s)
      <4>1. s.file \in Files
        BY <2>3, <3>1 DEF ActivatesOwner, SymRec
      <4>2. alive' = [alive EXCEPT ![s.file] = TRUE] /\ queued' = Feed(s.file)
        <5>1. IF ActivatesOwner(ObjTab[o][mpc[o] + 1], s)
              THEN /\ alive' = [alive EXCEPT ![s.file] = TRUE]
                   /\ queued' = Feed(s.file)
              ELSE UNCHANGED <<alive, queued>>
          BY <1>4 DEF MarkLiveSym
        <5>2. QED
          BY <5>1, <3>1, Zenon
      <4>3. alive' \in [Files -> BOOLEAN]
        BY <4>1, <4>2 DEF TypeOK
      <4>4. queued' \in [Objs -> Nat]
        <5>1. CASE s.file \in Objs
          <6>1. queued' = [queued EXCEPT ![s.file] = @ + 1]
            BY <4>2, <5>1 DEF Feed
          <6>2. QED
            BY <6>1, <5>1 DEF TypeOK
        <5>2. CASE s.file \notin Objs
          BY <4>2, <5>2 DEF Feed, TypeOK
        <5>3. QED
          BY <5>1, <5>2
      <4>5. QED
        BY <4>3, <4>4
    <3>2. CASE ~ActivatesOwner(ObjTab[o][mpc[o] + 1], s)
      BY <1>4, <3>2 DEF MarkLiveSym, TypeOK
    <3>3. QED
      BY <3>1, <3>2
  <2>5. UNCHANGED <<phase, sym, rpc, cleared>>
    BY <1>4 DEF MarkLiveSym
  <2>6. mpc' = [mpc EXCEPT ![o] = @ + 1]
    BY <1>4 DEF MarkLiveSym
  <2>7. mpc' \in [Objs -> Nat] /\ \A g \in Objs : mpc'[g] <= NumSyms(g)
    BY <1>0, <2>1, <2>6 DEF TypeOK, Files
  <2>8. QED
    BY <2>4, <2>5, <2>7 DEF TypeOK
<1>5. CASE EndMark
  BY <1>5 DEF EndMark, TypeOK, Phases
<1>6. ASSUME NEW f \in Files, ClearSymbols(f) PROVE TypeOK'
  BY <1>6 DEF ClearSymbols, TypeOK, NullSym, SymRec, Scopes, Defs, Files
<1>7. CASE EndClear
  <2>1. \A f \in Files : NumSyms(f) \in Nat
    BY NumSymsNat
  <2>2. QED
    BY <1>7, <2>1 DEF EndClear, TypeOK, Phases
<1>8. CASE EndResolve2
  BY <1>8 DEF EndResolve2, TypeOK, Phases
<1>9. CASE UNCHANGED vars
  BY <1>9 DEF vars, TypeOK
<1>10. QED
  BY <1>1, <1>2, <1>3, <1>4, <1>5, <1>6, <1>7, <1>8, <1>9 DEF Next, Files

(* The type invariant TypeOK holds in every state of every behaviour.      *)
THEOREM TypeCorrect == Spec => []TypeOK
BY InitTypeOK, NextTypeOK, PTL DEF Spec

-----------------------------------------------------------------------------
(* Owner's view.  OwnerViewOk(n) reads nothing but sym[n], so a step that  *)
(* leaves sym[n] alone, or changes only its scope, preserves it.           *)
LEMMA OwnerViewFrame ==
  ASSUME NEW n \in Names, OwnerViewOk(n),
         sym'[n].file = sym[n].file, sym'[n].imported = sym[n].imported,
         sym'[n].weak = sym[n].weak, sym'[n].common = sym[n].common,
         sym'[n].def = sym[n].def
  PROVE  OwnerViewOk(n)'
BY DEF OwnerViewOk

LEMMA InitOwnerView == Init => OwnerViewMatches
BY DEF Init, OwnerViewMatches, OwnerViewOk, NullSym

LEMMA NextOwnerView ==
  TypeOK /\ OwnerViewMatches /\ [Next]_vars => OwnerViewMatches'
<1> SUFFICES ASSUME TypeOK, OwnerViewMatches, [Next]_vars, NEW n \in Names
             PROVE  OwnerViewOk(n)'
  BY DEF OwnerViewMatches
<1>0. OwnerViewOk(n)
  BY DEF OwnerViewMatches
<1>1. ASSUME NEW f \in Objs, ResolveObjSym(f) PROVE OwnerViewOk(n)'
  <2> DEFINE i == rpc[f] + 1
             m == ObjTab[f][i]
             s == sym[m.name]
             scope == MergeScope(s, f, m)
  <2>1. i \in 1 .. NumSyms(f) /\ m \in MachSym
    BY <1>1, NumSymsNat, ObjEntryType DEF ResolveObjSym, TypeOK, Files
  <2>2. CASE n # m.name \/ NotDefinition(m)
    <3>1. sym'[n] = sym[n]
      BY <1>1, <2>1, <2>2 DEF ResolveObjSym, TypeOK, MachSym
    <3>2. QED
      BY <1>0, <3>1, OwnerViewFrame
  <2>3. CASE n = m.name /\ ~NotDefinition(m)
               /\ GetRank(f, m.type = "common", m.weakDef) < SymRank(s)
    <3>1. sym'[n] = ObjOwnerRec(f, m, scope)
      BY <1>1, <2>1, <2>3 DEF ResolveObjSym, TypeOK
    <3>2. Defines(f, i, n)
      BY <2>3 DEF Defines
    <3>3. ViewOf(f, i) = [imported |-> FALSE, weak |-> m.weakDef,
                          common |-> m.type = "common", def |-> m.type]
      BY DEF ViewOf
    <3>4. f # NoFile
      BY FilesAssumption DEF Files
    <3>5. QED
      BY <2>1, <3>1, <3>2, <3>3, <3>4 DEF OwnerViewOk, ObjOwnerRec
  <2>4. CASE n = m.name /\ ~NotDefinition(m)
               /\ ~(GetRank(f, m.type = "common", m.weakDef) < SymRank(s))
    <3>1. sym'[n] = [sym[n] EXCEPT !.scope = scope]
      BY <1>1, <2>1, <2>4 DEF ResolveObjSym, TypeOK
    <3>2. sym[n] \in SymRec
      BY DEF TypeOK
    <3>3. QED
      BY <1>0, <3>1, <3>2, OwnerViewFrame DEF SymRec
  <2>5. QED
    BY <2>2, <2>3, <2>4
<1>2. ASSUME NEW d \in Dylibs, ResolveDylibSym(d) PROVE OwnerViewOk(n)'
  <2> DEFINE i == rpc[d] + 1
             e == DylibTab[d][i]
  <2>1. i \in 1 .. NumSyms(d) /\ e \in DylibSym
    BY <1>2, NumSymsNat, DylibEntryType DEF ResolveDylibSym, TypeOK, Files
  <2>2. CASE n = e.name /\ GetRank(d, FALSE, FALSE) < SymRank(sym[e.name])
    <3>1. sym'[n] = [file |-> d, scope |-> "local", imported |-> TRUE,
                     weak |-> d \in WeakDylibs \/ e.weak,
                     common |-> FALSE, def |-> "dylib"]
      BY <1>2, <2>1, <2>2 DEF ResolveDylibSym, TypeOK, DylibSym
    <3>2. d \notin Objs /\ d # NoFile
      BY FilesAssumption DEF Files
    <3>3. Defines(d, i, n)
      BY <2>2, <3>2 DEF Defines
    <3>4. ViewOf(d, i) = [imported |-> TRUE, weak |-> d \in WeakDylibs \/ e.weak,
                          common |-> FALSE, def |-> "dylib"]
      BY <3>2 DEF ViewOf
    <3>5. QED
      BY <2>1, <3>1, <3>2, <3>3, <3>4 DEF OwnerViewOk
  <2>3. CASE ~(n = e.name /\ GetRank(d, FALSE, FALSE) < SymRank(sym[e.name]))
    <3>1. sym'[n] = sym[n]
      BY <1>2, <2>1, <2>3 DEF ResolveDylibSym, TypeOK, DylibSym
    <3>2. QED
      BY <1>0, <3>1, OwnerViewFrame
  <2>4. QED
    BY <2>2, <2>3
<1>3. ASSUME NEW f \in Files, ClearSymbols(f) PROVE OwnerViewOk(n)'
  <2>1. CASE sym[n].file = f
    <3>1. sym'[n] = NullSym
      BY <1>3, <2>1 DEF ClearSymbols
    <3>2. QED
      BY <3>1 DEF OwnerViewOk, NullSym
  <2>2. CASE sym[n].file # f
    <3>1. sym'[n] = sym[n]
      BY <1>3, <2>2 DEF ClearSymbols
    <3>2. QED
      BY <1>0, <3>1, OwnerViewFrame
  <2>3. QED
    BY <2>1, <2>2
<1>4. CASE UNCHANGED sym
  BY <1>0, <1>4, OwnerViewFrame
<1>5. QED
  BY <1>1, <1>2, <1>3, <1>4 DEF Next, vars, EndResolve1, MarkLiveSym, EndMark,
                               EndClear, EndResolve2

(* Spec invariant 4 holds in every reachable state: each symbol's record   *)
(* is exactly the view of the definer its file field names.                *)
THEOREM OwnerViewInvariant == Spec => []OwnerViewMatches
BY TypeCorrect, InitOwnerView, NextOwnerView, PTL DEF Spec


-----------------------------------------------------------------------------
(* The work list.  FedOnce alone is not inductive: a step of               *)
(* mark_live_objects could feed an object already queued.  What rules it   *)
(* out is that a queued object is already live, so the exchange on its     *)
(* is_alive cannot return FALSE again.                                     *)
QueuedAlive == \A o \in Objs : queued[o] > 0 => alive[o]

FeedInv == TypeOK /\ FedOnce /\ QueuedAlive

LEMMA InitFeedInv == Init => FeedInv
<1> SUFFICES ASSUME Init PROVE FeedInv
  OBVIOUS
<1>1. FedOnce /\ QueuedAlive
  BY DEF Init, FedOnce, QueuedAlive
<1>2. QED
  BY <1>1, InitTypeOK DEF FeedInv

LEMMA NextFeedInv == FeedInv /\ [Next]_vars => FeedInv'
<1> SUFFICES ASSUME FeedInv, [Next]_vars PROVE FeedInv'
  OBVIOUS
<1>0. TypeOK'
  BY NextTypeOK DEF FeedInv
<1>1. CASE UNCHANGED <<queued, alive>>
  BY <1>0, <1>1 DEF FeedInv, FedOnce, QueuedAlive
<1>2. CASE EndResolve1
  <2>1. queued' = [o \in Objs |-> IF alive[o] THEN 1 ELSE 0] /\ alive' = alive
    BY <1>2 DEF EndResolve1
  <2>2. QED
    BY <1>0, <2>1 DEF FeedInv, FedOnce, QueuedAlive
<1>3. ASSUME NEW o \in Objs, MarkLiveSym(o) PROVE FeedInv'
  <2>1. mpc[o] + 1 \in 1 .. NumSyms(o)
    BY <1>3, NumSymsNat DEF MarkLiveSym, FeedInv, TypeOK, Files
  <2>2. ObjTab[o][mpc[o] + 1] \in MachSym
    BY <2>1, ObjEntryType
  <2>3. sym[ObjTab[o][mpc[o] + 1].name] \in SymRec
    BY <2>2 DEF FeedInv, TypeOK, MachSym
  <2> DEFINE s == sym[ObjTab[o][mpc[o] + 1].name]
  <2>4. CASE ActivatesOwner(ObjTab[o][mpc[o] + 1], s)
    <3>1. s.file \in Files /\ ~alive[s.file]
      BY <2>3, <2>4 DEF ActivatesOwner, SymRec
    <3>2. alive' = [alive EXCEPT ![s.file] = TRUE] /\ queued' = Feed(s.file)
      BY <1>3, <2>4 DEF MarkLiveSym
    <3>3. s.file \in Objs => queued[s.file] = 0
      BY <3>1 DEF FeedInv, QueuedAlive, TypeOK
    <3>4. CASE s.file \in Objs
      <4>0. queued[s.file] = 0 /\ queued' = [queued EXCEPT ![s.file] = @ + 1]
        BY <3>2, <3>3, <3>4 DEF Feed
      <4>1. queued' = [queued EXCEPT ![s.file] = 1]
        BY <4>0
      <4>2. FedOnce'
        BY <4>1 DEF FeedInv, FedOnce, TypeOK
      <4>3. QueuedAlive'
        BY <3>1, <3>2, <4>1 DEF FeedInv, QueuedAlive, TypeOK, Files
      <4>4. QED
        BY <1>0, <4>2, <4>3 DEF FeedInv
    <3>5. CASE s.file \notin Objs
      <4>1. queued' = queued
        BY <3>2, <3>5 DEF Feed
      <4>2. FedOnce'
        BY <4>1 DEF FeedInv, FedOnce
      <4>3. QueuedAlive'
        BY <3>1, <3>2, <4>1 DEF FeedInv, QueuedAlive, TypeOK, Files
      <4>4. QED
        BY <1>0, <4>2, <4>3 DEF FeedInv
    <3>6. QED
      BY <3>4, <3>5
  <2>5. CASE ~ActivatesOwner(ObjTab[o][mpc[o] + 1], s)
    <3>1. UNCHANGED <<alive, queued>>
      BY <1>3, <2>5 DEF MarkLiveSym
    <3>2. QED
      BY <1>0, <3>1 DEF FeedInv, FedOnce, QueuedAlive
  <2>6. QED
    BY <2>4, <2>5
<1>4. QED
  BY <1>1, <1>2, <1>3 DEF Next, vars, ResolveObjSym, ResolveDylibSym, EndMark,
                          ClearSymbols, EndClear, EndResolve2

(* Each object enters the mark-live work list at most once, for every link *)
(* line: the is_alive exchange of mark_live_objects lets one racing thread *)
(* feed an archive member, and a queued object is never fed again.         *)
THEOREM FedOnceInvariant == Spec => []FedOnce
<1>1. Spec => []FeedInv
  BY InitFeedInv, NextFeedInv, PTL DEF Spec
<1>2. QED
  BY <1>1, PTL DEF FeedInv

-----------------------------------------------------------------------------
(* The mark-live closure.  MarkLiveClosure speaks only of the moment the   *)
(* loop has returned; what makes it true is what the loop keeps true while *)
(* it runs.  An object's thread has not started before the object is       *)
(* queued (MpcIdle); during the sweep every live object is queued          *)
(* (LiveQueued), because the first round's live objects form the work list *)
(* and the exchange that makes an object live feeds it; and every entry a  *)
(* queued object's thread has passed is covered: if it keeps a reference,  *)
(* the owner is live (MarkedCovered).  When the loop returns, every queued *)
(* object has passed all its entries.                                      *)
Covered(o, i) ==
  LET m == ObjTab[o][i] IN
  (m.ext /\ Keeps(m, sym[m.name]) /\ sym[m.name].file # NoFile)
    => alive[sym[m.name].file]

Resolve1Idle == phase = "resolve1" => \A o \in Objs : mpc[o] = 0
MpcIdle == \A o \in Objs : queued[o] = 0 => mpc[o] = 0
LiveQueued == phase = "mark" => \A o \in Objs : alive[o] => queued[o] > 0
MarkedCovered ==
  phase = "mark" =>
    \A o \in Objs : queued[o] > 0 => \A i \in 1 .. mpc[o] : Covered(o, i)

MarkInv ==
  TypeOK /\ Resolve1Idle /\ MpcIdle /\ LiveQueued /\ MarkedCovered /\ MarkLiveClosure

(* A covered entry stays covered while the Symbol records stay as they are *)
(* and files only become live.                                             *)
LEMMA CoveredMono ==
  ASSUME TypeOK, NEW o \in Objs, NEW i \in 1 .. NumSyms(o), Covered(o, i),
         sym' = sym, \A f \in Files : alive[f] => alive'[f]
  PROVE  Covered(o, i)'
<1>1. ObjTab[o][i] \in MachSym
  BY ObjEntryType
<1>2. sym[ObjTab[o][i].name] \in SymRec
  BY <1>1 DEF TypeOK, MachSym
<1>3. QED
  BY <1>2 DEF Covered, SymRec

LEMMA InitMarkInv == Init => MarkInv
<1> SUFFICES ASSUME Init PROVE MarkInv
  OBVIOUS
<1>1. Resolve1Idle /\ MpcIdle /\ LiveQueued /\ MarkedCovered /\ MarkLiveClosure
  BY DEF Init, Resolve1Idle, MpcIdle, LiveQueued, MarkedCovered, MarkLiveClosure
<1>2. QED
  BY <1>1, InitTypeOK DEF MarkInv

LEMMA NextMarkInv == MarkInv /\ [Next]_vars => MarkInv'
<1> SUFFICES ASSUME MarkInv, [Next]_vars PROVE MarkInv'
  OBVIOUS
<1> USE DEF MarkInv
<1>0. TypeOK'
  BY NextTypeOK
<1>1. ASSUME NEW f \in Objs, ResolveObjSym(f) PROVE MarkInv'
  BY <1>0, <1>1 DEF ResolveObjSym, Resolve1Idle, MpcIdle, LiveQueued,
                    MarkedCovered, MarkLiveClosure
<1>2. ASSUME NEW d \in Dylibs, ResolveDylibSym(d) PROVE MarkInv'
  BY <1>0, <1>2 DEF ResolveDylibSym, Resolve1Idle, MpcIdle, LiveQueued,
                    MarkedCovered, MarkLiveClosure
<1>3. CASE EndResolve1
  <2>1. \A o \in Objs : mpc[o] = 0
    BY <1>3 DEF EndResolve1, Resolve1Idle
  <2>2. QED
    BY <1>0, <1>3, <2>1 DEF EndResolve1, Resolve1Idle, MpcIdle, LiveQueued,
                            MarkedCovered, MarkLiveClosure, TypeOK
<1>4. ASSUME NEW o \in Objs, MarkLiveSym(o) PROVE MarkInv'
  <2> DEFINE m == ObjTab[o][mpc[o] + 1]
             s == sym[m.name]
  <2>1. mpc[o] + 1 \in 1 .. NumSyms(o) /\ NumSyms(o) \in Nat
    BY <1>4, NumSymsNat DEF MarkLiveSym, TypeOK, Files
  <2>2. m \in MachSym /\ s \in SymRec
    BY <2>1, ObjEntryType DEF TypeOK, MachSym
  <2>3. /\ phase = "mark" /\ queued[o] > 0
        /\ UNCHANGED <<phase, sym, rpc, cleared>>
        /\ mpc' = [mpc EXCEPT ![o] = @ + 1]
    BY <1>4 DEF MarkLiveSym
  (* What one iteration does to is_alive and the work list.                *)
  <2>4. /\ \A f \in Files : alive[f] => alive'[f]
        /\ \A g \in Objs : queued'[g] >= queued[g]
        /\ \A g \in Objs : alive'[g] /\ ~alive[g] => queued'[g] > 0
        /\ (m.ext /\ Keeps(m, s) /\ s.file # NoFile) => alive'[s.file]
    <3>1. CASE ActivatesOwner(m, s)
      <4>1. alive' = [alive EXCEPT ![s.file] = TRUE] /\ queued' = Feed(s.file)
        <5>1. IF ActivatesOwner(m, s)
              THEN /\ alive' = [alive EXCEPT ![s.file] = TRUE]
                   /\ queued' = Feed(s.file)
              ELSE UNCHANGED <<alive, queued>>
          BY <1>4 DEF MarkLiveSym
        <5>2. QED
          BY <5>1, <3>1, Zenon
      <4>2. s.file \in Files
        BY <2>2, <3>1 DEF ActivatesOwner, SymRec
      <4>3. \A g \in Objs : queued'[g] >= queued[g]
        <5>1. CASE s.file \in Objs
          <6>1. queued' = [queued EXCEPT ![s.file] = @ + 1]
            BY <4>1, <5>1 DEF Feed
          <6>2. QED
            BY <6>1, <5>1 DEF TypeOK
        <5>2. CASE s.file \notin Objs
          <6>1. queued' = queued
            BY <4>1, <5>2 DEF Feed
          <6>2. QED
            BY <6>1 DEF TypeOK
        <5>3. QED
          BY <5>1, <5>2
      <4>4. \A g \in Objs : alive'[g] /\ ~alive[g] => queued'[g] > 0
        <5> SUFFICES ASSUME NEW g \in Objs, alive'[g], ~alive[g] PROVE queued'[g] > 0
          OBVIOUS
        <5>1. g = s.file
          BY <4>1 DEF TypeOK, Files
        <5>2. queued' = [queued EXCEPT ![g] = @ + 1]
          BY <4>1, <5>1 DEF Feed
        <5>3. queued[g] \in Nat /\ queued \in [Objs -> Nat]
          BY DEF TypeOK
        <5>4. QED
          BY <5>2, <5>3
      <4>5. QED
        BY <4>1, <4>2, <4>3, <4>4 DEF TypeOK
    <3>2. CASE ~ActivatesOwner(m, s)
      <4>1. UNCHANGED <<alive, queued>>
        BY <1>4, <3>2 DEF MarkLiveSym
      <4>2. QED
        BY <3>2, <4>1 DEF ActivatesOwner, TypeOK
    <3>3. QED
      BY <3>1, <3>2
  <2>5. MpcIdle'
    BY <2>3, <2>4 DEF MpcIdle, TypeOK
  <2>6. LiveQueued'
    BY <1>0, <2>3, <2>4 DEF LiveQueued, TypeOK, Files
  <2>7. MarkedCovered'
    <3> SUFFICES ASSUME NEW g \in Objs, queued'[g] > 0, NEW i \in 1 .. mpc'[g]
                 PROVE  Covered(g, i)'
      BY <2>3 DEF MarkedCovered
    <3>1. queued[g] > 0
      BY <2>3, <2>4 DEF MpcIdle, TypeOK
    <3>2. CASE g = o /\ i = mpc[o] + 1
      BY <3>2, <2>3, <2>4 DEF Covered
    <3>3. CASE ~(g = o /\ i = mpc[o] + 1)
      <4>0. NumSyms(g) \in Nat
        BY NumSymsNat DEF Files
      <4>1. i \in 1 .. mpc[g] /\ i \in 1 .. NumSyms(g)
        BY <3>3, <2>3, <4>0 DEF TypeOK
      <4>2. Covered(g, i)
        BY <3>1, <4>1, <2>3 DEF MarkedCovered
      <4>3. QED
        BY <4>1, <4>2, <2>3, <2>4, CoveredMono
    <3>4. QED
      BY <3>2, <3>3
  <2>8. QED
    BY <1>0, <2>3, <2>5, <2>6, <2>7 DEF Resolve1Idle, MarkLiveClosure
<1>5. CASE EndMark
  <2>1. MarkLiveClosure'
    <3> SUFFICES ASSUME NEW o \in Objs, alive[o], NEW i \in 1 .. NumSyms(o)
                 PROVE  Covered(o, i)
      BY <1>5 DEF EndMark, MarkLiveClosure, Covered
    <3>1. queued[o] > 0
      BY <1>5 DEF EndMark, LiveQueued
    <3>2. mpc[o] = NumSyms(o)
      BY <1>5, <3>1 DEF EndMark
    <3>3. QED
      BY <1>5, <3>1, <3>2 DEF EndMark, MarkedCovered
  <2>2. QED
    BY <1>0, <1>5, <2>1 DEF EndMark, Resolve1Idle, MpcIdle, LiveQueued, MarkedCovered
<1>6. ASSUME NEW f \in Files, ClearSymbols(f) PROVE MarkInv'
  <2>1. MarkLiveClosure'
    <3> SUFFICES ASSUME NEW o \in Objs, alive[o], NEW i \in 1 .. NumSyms(o)
                 PROVE  Covered(o, i)'
      BY <1>6 DEF ClearSymbols, MarkLiveClosure, Covered
    <3>1. ObjTab[o][i] \in MachSym
      BY ObjEntryType
    <3>2. Covered(o, i)
      BY <1>6 DEF ClearSymbols, MarkLiveClosure, Covered
    <3>3. QED
      BY <1>6, <3>1, <3>2, FilesAssumption DEF ClearSymbols, Covered, NullSym, MachSym
  <2>2. QED
    BY <1>0, <1>6, <2>1 DEF ClearSymbols, Resolve1Idle, MpcIdle, LiveQueued, MarkedCovered
<1>7. CASE EndClear
  BY <1>0, <1>7 DEF EndClear, Resolve1Idle, MpcIdle, LiveQueued, MarkedCovered,
                    MarkLiveClosure
<1>8. CASE EndResolve2
  BY <1>0, <1>8 DEF EndResolve2, Resolve1Idle, MpcIdle, LiveQueued, MarkedCovered,
                    MarkLiveClosure
<1>9. CASE UNCHANGED vars
  BY <1>0, <1>9 DEF vars, Resolve1Idle, MpcIdle, LiveQueued, MarkedCovered,
                    MarkLiveClosure, Covered
<1>10. QED
  BY <1>1, <1>2, <1>3, <1>4, <1>5, <1>6, <1>7, <1>8, <1>9 DEF Next

(* Spec invariant 5, for every link line: when the parallel mark-live loop *)
(* has returned, every reference a live object keeps (an undefined        *)
(* symbol, or a common that lost to a definition) points at a live file,   *)
(* however the threads raced on the is_alive exchanges.                    *)
THEOREM MarkLiveClosureInvariant == Spec => []MarkLiveClosure
<1>1. Spec => []MarkInv
  BY InitMarkInv, NextMarkInv, PTL DEF Spec
<1>2. QED
  BY <1>1, PTL DEF MarkInv

-----------------------------------------------------------------------------
(* The frame of the rounds.  Nothing is cleared before the clear loop; a   *)
(* file clear_symbols has run on is dead and owns nothing; from the second *)
(* round on, a dead file has no entries left to resolve (EndClear sets its *)
(* counter to the end) and every owner is live.                            *)
PhaseFrame ==
  /\ phase \in {"resolve1", "mark"} => cleared = {}
  /\ phase = "clear" =>
       \A f \in cleared : ~alive[f] /\ \A n \in Names : sym[n].file # f
  /\ phase \in {"resolve2", "done"} =>
       /\ \A f \in Files : ~alive[f] => rpc[f] = NumSyms(f)
       /\ \A n \in Names : sym[n].file # NoFile => alive[sym[n].file]

(* The precondition FinalOwnerIsBest needs, and the weak_dylib_order       *)
(* finding shows it does: no dylib is -weak-l and no export is weak, so a  *)
(* dylib's owner record ranks as the dylib competed.                       *)
NoWeakDylibExports ==
  /\ WeakDylibs = {}
  /\ \A d \in Dylibs : \A i \in 1 .. NumSyms(d) : ~DylibTab[d][i].weak

(* The second round is over when every file has passed all its entries.    *)
DoneFrame == phase = "done" => \A f \in Files : rpc[f] = NumSyms(f)

(* In the second round, the owner of a name ranks no worse than any entry  *)
(* defining it that a live file's thread has already passed.               *)
RankBound ==
  phase \in {"resolve2", "done"} =>
    \A n \in Names : \A g \in Files : alive[g] =>
      \A j \in 1 .. rpc[g] : Defines(g, j, n) => SymRank(sym[n]) <= CandRank(g, j)

BestInv == TypeOK /\ OwnerViewMatches /\ PhaseFrame /\ DoneFrame /\ RankBound

-----------------------------------------------------------------------------
(* Every non-empty set of naturals has a least element.                    *)
LEMMA NatMinExists ==
  ASSUME NEW T \in SUBSET Nat, T # {}
  PROVE  \E x \in T : \A y \in T : x <= y
<1> DEFINE Lt == OpToRel(<, Nat)
<1>1. IsWellFoundedOn(Lt, Nat)
  BY NatLessThanWellFounded, Zenon
<1>2. PICK x \in T : \A y \in T : ~(<<y, x>> \in Lt)
  BY <1>1, WFMin, Zenon
<1>3. ASSUME NEW y \in T, y < x PROVE <<y, x>> \in Lt
  BY <1>3, Zenon DEF OpToRel
<1>4. \A y \in T : ~(y < x)
  BY <1>2, <1>3, Zenon
<1>5. QED
  BY <1>4
LEMMA RankShiftNat == RankShift \in Nat \ {0}
BY DEF RankShift

(* get_rank stays below the rank of an unowned symbol, 7 << 24.            *)
LEMMA GetRankRange ==
  ASSUME alive \in [Files -> BOOLEAN], NEW f \in Files,
         NEW c \in BOOLEAN, NEW w \in BOOLEAN
  PROVE  GetRank(f, c, w) \in 0 .. (7 * RankShift - 1)
<1>1. RankShift = 16777216
  BY DEF RankShift
<1>2. Prio[f] \in 0 .. (RankShift - 1)
  BY PrioAssumption, Zenon
<1>3. alive[f] \in BOOLEAN
  OBVIOUS
<1>6. \E k \in 1 .. 6 : GetRank(f, c, w) = k * RankShift + Prio[f]
  BY <1>3 DEF GetRank
<1>4. RankShift \in Nat
  BY <1>1
<1>5. \A k \in 1 .. 6 : k * RankShift + Prio[f] \in 0 .. (7 * RankShift - 1)
  BY <1>2, <1>4
<1>7. QED
  BY <1>5, <1>6

LEMMA SymRankRange ==
  ASSUME alive \in [Files -> BOOLEAN], NEW s \in SymRec
  PROVE  SymRank(s) \in 0 .. 7 * RankShift
<1>1. CASE s.file = NoFile
  BY <1>1 DEF SymRank, RankShift
<1>2. CASE s.file # NoFile
  <2>1. s.file \in Files /\ s.common \in BOOLEAN /\ s.weak \in BOOLEAN
    BY <1>2 DEF SymRec
  <2>2. GetRank(s.file, s.common, s.weak) \in 0 .. (7 * RankShift - 1)
    BY <2>1, GetRankRange
  <2>3. QED
    BY <1>2, <2>2 DEF SymRank, RankShift
<1>3. QED
  BY <1>1, <1>2

LEMMA CandRankRange ==
  ASSUME alive \in [Files -> BOOLEAN], NEW f \in Files, NEW i \in 1 .. NumSyms(f)
  PROVE  CandRank(f, i) \in 0 .. (7 * RankShift - 1)
<1>1. ViewOf(f, i).common \in BOOLEAN /\ ViewOf(f, i).weak \in BOOLEAN
  <2>1. CASE f \in Objs
    BY <2>1, ObjEntryType DEF ViewOf, MachSym
  <2>2. CASE f \in Dylibs
    BY <2>2, DylibEntryType, FilesAssumption DEF ViewOf, DylibSym
  <2>3. QED
    BY <2>1, <2>2 DEF Files
<1>2. QED
  BY <1>1, GetRankRange DEF CandRank

(* BestRank picks the least rank among a definer's entries for the name.   *)
LEMMA BestRankMin ==
  ASSUME alive \in [Files -> BOOLEAN], NEW f \in Files, NEW n,
         \E i \in 1 .. NumSyms(f) : Defines(f, i, n)
  PROVE  /\ \E k \in 1 .. NumSyms(f) : Defines(f, k, n) /\ BestRank(f, n) = CandRank(f, k)
         /\ \A j \in 1 .. NumSyms(f) : Defines(f, j, n) => BestRank(f, n) <= CandRank(f, j)
<1> DEFINE T == {CandRank(f, k) : k \in {j \in 1 .. NumSyms(f) : Defines(f, j, n)}}
<1>1. T \subseteq Nat /\ T # {}
  BY CandRankRange, NumSymsNat
<1>2. PICK x \in T : \A y \in T : x <= y
  BY <1>1, NatMinExists
<1>3. \A j \in 1 .. NumSyms(f) : Defines(f, j, n) => x <= CandRank(f, j)
  BY <1>2
<1>4. BestRank(f, n) \in T
      /\ \A j \in 1 .. NumSyms(f) : Defines(f, j, n) => BestRank(f, n) <= CandRank(f, j)
  BY <1>2, <1>3 DEF BestRank
<1>5. QED
  BY <1>4

-----------------------------------------------------------------------------
LEMMA InitBestInv == Init => BestInv
<1> SUFFICES ASSUME Init PROVE BestInv
  OBVIOUS
<1>1. TypeOK /\ OwnerViewMatches
  BY InitTypeOK, InitOwnerView
<1>2. PhaseFrame /\ DoneFrame /\ RankBound
  BY DEF Init, PhaseFrame, DoneFrame, RankBound
<1>3. QED
  BY <1>1, <1>2 DEF BestInv

LEMMA NextPhaseFrame == TypeOK /\ PhaseFrame /\ [Next]_vars => PhaseFrame'
<1> SUFFICES ASSUME TypeOK, PhaseFrame, [Next]_vars PROVE PhaseFrame'
  OBVIOUS
<1>1. ASSUME NEW f \in Objs, ResolveObjSym(f) PROVE PhaseFrame'
  <2> DEFINE ent == ObjTab[f][rpc[f] + 1]
  <2>1. rpc[f] + 1 \in 1 .. NumSyms(f) /\ NumSyms(f) \in Nat
    BY <1>1, NumSymsNat DEF ResolveObjSym, TypeOK, Files
  <2>2. ent \in MachSym
    BY <2>1, ObjEntryType
  <2>3. UNCHANGED <<phase, alive, cleared>>
    BY <1>1 DEF ResolveObjSym
  <2>4. \A n \in Names : sym'[n].file = sym[n].file \/ sym'[n].file = f
    BY <1>1, <2>2 DEF ResolveObjSym, TypeOK, MachSym, SymRec, ObjOwnerRec
  <2>5. CASE phase = "resolve1"
    BY <2>5, <2>3 DEF PhaseFrame
  <2>6. CASE phase = "resolve2"
    <3>1. alive[f]
      BY <2>6, <2>1, <1>1 DEF ResolveObjSym, PhaseFrame, Files
    <3>2. \A g \in Files : ~alive[g] => rpc'[g] = NumSyms(g)
      BY <2>6, <3>1, <1>1 DEF ResolveObjSym, PhaseFrame, TypeOK
    <3>3. QED
      BY <2>6, <3>1, <3>2, <2>3, <2>4 DEF PhaseFrame
  <2>7. QED
    BY <1>1, <2>5, <2>6 DEF ResolveObjSym
<1>2. ASSUME NEW d \in Dylibs, ResolveDylibSym(d) PROVE PhaseFrame'
  <2>1. rpc[d] + 1 \in 1 .. NumSyms(d) /\ NumSyms(d) \in Nat
    BY <1>2, NumSymsNat DEF ResolveDylibSym, TypeOK, Files
  <2>2. DylibTab[d][rpc[d] + 1] \in DylibSym
    BY <2>1, DylibEntryType
  <2>3. UNCHANGED <<phase, alive, cleared>>
    BY <1>2 DEF ResolveDylibSym
  <2>4. \A n \in Names : sym'[n].file = sym[n].file \/ sym'[n].file = d
    BY <1>2, <2>2 DEF ResolveDylibSym, TypeOK, DylibSym
  <2>5. CASE phase = "resolve1"
    BY <2>5, <2>3 DEF PhaseFrame
  <2>6. CASE phase = "resolve2"
    <3>1. alive[d]
      BY <2>6, <2>1, <1>2 DEF ResolveDylibSym, PhaseFrame, Files
    <3>2. \A g \in Files : ~alive[g] => rpc'[g] = NumSyms(g)
      BY <2>6, <3>1, <1>2 DEF ResolveDylibSym, PhaseFrame, TypeOK
    <3>3. QED
      BY <2>6, <3>1, <3>2, <2>3, <2>4 DEF PhaseFrame
  <2>7. QED
    BY <1>2, <2>5, <2>6 DEF ResolveDylibSym
<1>3. ASSUME NEW f \in Files, ClearSymbols(f) PROVE PhaseFrame'
  <2>1. \A n \in Names : sym'[n] = IF sym[n].file = f THEN NullSym ELSE sym[n]
    BY <1>3 DEF ClearSymbols
  <2>2. \A g \in cleared' : ~alive'[g] /\ \A n \in Names : sym'[n].file # g
    BY <1>3, <2>1, FilesAssumption DEF ClearSymbols, PhaseFrame, NullSym, TypeOK
  <2>3. QED
    BY <1>3, <2>2 DEF ClearSymbols, PhaseFrame
<1>4. CASE EndClear
  <2>1. \A n \in Names : sym[n].file # NoFile => alive[sym[n].file]
    <3> SUFFICES ASSUME NEW n \in Names, sym[n].file # NoFile, ~alive[sym[n].file]
                 PROVE  FALSE
      OBVIOUS
    <3>1. sym[n].file \in Files
      BY DEF TypeOK, SymRec
    <3>2. sym[n].file \in cleared
      BY <1>4, <3>1 DEF EndClear
    <3>3. QED
      BY <1>4, <3>2 DEF EndClear, PhaseFrame
  <2>2. QED
    BY <1>4, <2>1 DEF EndClear, PhaseFrame
<1>5. QED
  BY <1>1, <1>2, <1>3, <1>4
     DEF Next, vars, PhaseFrame, EndResolve1, MarkLiveSym, EndMark, EndResolve2

(* A step of an object's resolve_symbols never makes a name's owner rank   *)
(* worse, and leaves the name of the entry it read owned by a rank no     *)
(* worse than that entry's.                                                *)
LEMMA ObjStepRank ==
  ASSUME TypeOK, NEW f \in Objs, ResolveObjSym(f)
  PROVE  LET k == rpc[f] + 1
             n0 == ObjTab[f][k].name
         IN  /\ \A n \in Names : SymRank(sym'[n]) <= SymRank(sym[n])
             /\ Defines(f, k, n0) => SymRank(sym'[n0]) <= CandRank(f, k)
<1> DEFINE k == rpc[f] + 1
           ent == ObjTab[f][k]
           s == sym[ent.name]
           r == GetRank(f, ent.type = "common", ent.weakDef)
           sc == MergeScope(s, f, ent)
<1>1. k \in 1 .. NumSyms(f) /\ ent \in MachSym /\ f \in Files
  BY NumSymsNat, ObjEntryType DEF ResolveObjSym, TypeOK, Files
<1>2. alive \in [Files -> BOOLEAN] /\ s \in SymRec
  BY <1>1 DEF TypeOK, MachSym
<1>3. SymRank(s) \in Nat /\ r \in Nat
  <2>1. SymRank(s) \in 0 .. 7 * RankShift
    BY <1>2, SymRankRange
  <2>2. r \in 0 .. (7 * RankShift - 1)
    BY <1>1, <1>2, GetRankRange DEF MachSym
  <2>3. QED
    BY <2>1, <2>2, RankShiftNat
<1>4. \A n \in Names : n # ent.name => sym'[n] = sym[n]
  BY <1>1 DEF ResolveObjSym, TypeOK, MachSym
<1>5. CandRank(f, k) = r
  BY <1>1 DEF CandRank, ViewOf
<1>6. \A n \in Names : sym[n] \in SymRec
  BY DEF TypeOK
<1>7. CASE NotDefinition(ent)
  <2>1. sym' = sym
    BY <1>7 DEF ResolveObjSym
  <2>2. ~Defines(f, k, ent.name)
    BY <1>7 DEF Defines
  <2>3. \A n \in Names : SymRank(sym[n]) \in Nat
    BY <1>2, <1>6, SymRankRange, RankShiftNat
  <2>4. QED
    BY <2>1, <2>2, <2>3
<1>8. CASE ~NotDefinition(ent) /\ r < SymRank(s)
  <2>1. sym' = [sym EXCEPT ![ent.name] = ObjOwnerRec(f, ent, sc)]
    BY <1>8 DEF ResolveObjSym
  <2>2. SymRank(sym'[ent.name]) = r
    BY <2>1, <1>1, FilesAssumption DEF SymRank, ObjOwnerRec, TypeOK, MachSym
  <2>3. \A n \in Names : SymRank(sym[n]) \in Nat
    BY <1>2, <1>6, SymRankRange, RankShiftNat
  <2>4. ASSUME NEW n \in Names PROVE SymRank(sym'[n]) <= SymRank(sym[n])
    <3>1. CASE n = ent.name
      <4>1. SymRank(sym'[n]) = r /\ SymRank(sym[n]) = SymRank(s)
        BY <3>1, <2>2
      <4>2. QED
        BY <4>1, <1>3, <1>8
    <3>2. CASE n # ent.name
      BY <3>2, <1>4, <2>3
    <3>3. QED
      BY <3>1, <3>2
  <2>5. SymRank(sym'[ent.name]) <= CandRank(f, k)
    BY <1>3, <1>5, <2>2
  <2>6. QED
    BY <2>4, <2>5
<1>9. CASE ~NotDefinition(ent) /\ ~(r < SymRank(s))
  <2>1. sym' = [sym EXCEPT ![ent.name].scope = sc]
    BY <1>9 DEF ResolveObjSym
  <2>2. sym'[ent.name] = [s EXCEPT !.scope = sc]
    BY <2>1, <1>1 DEF TypeOK, MachSym
  <2>3. SymRank(sym'[ent.name]) = SymRank(s)
    BY <2>2, <1>2 DEF SymRank, SymRec
  <2>4. \A n \in Names : SymRank(sym[n]) \in Nat
    BY <1>2, <1>6, SymRankRange, RankShiftNat
  <2>5. \A n \in Names : SymRank(sym'[n]) <= SymRank(sym[n])
    BY <1>4, <2>3, <2>4
  <2>6. SymRank(sym'[ent.name]) <= CandRank(f, k)
    BY <1>3, <1>5, <1>9, <2>3
  <2>7. QED
    BY <2>5, <2>6
<1>10. QED
  BY <1>7, <1>8, <1>9

(* The same for a dylib's resolve_symbols, when no export is weak: the     *)
(* record a dylib writes then ranks as the dylib competed.                 *)
LEMMA DylibStepRank ==
  ASSUME TypeOK, NoWeakDylibExports, NEW d \in Dylibs, ResolveDylibSym(d)
  PROVE  LET k == rpc[d] + 1
             n0 == DylibTab[d][k].name
         IN  /\ \A n \in Names : SymRank(sym'[n]) <= SymRank(sym[n])
             /\ SymRank(sym'[n0]) <= CandRank(d, k)
<1> DEFINE k == rpc[d] + 1
           e == DylibTab[d][k]
           s == sym[e.name]
           r == CandRank(d, k)
<1> SUFFICES /\ \A n \in Names : SymRank(sym'[n]) <= SymRank(sym[n])
             /\ SymRank(sym'[e.name]) <= r
  OBVIOUS
<1>1. k \in 1 .. NumSyms(d) /\ e \in DylibSym /\ d \in Files
  BY NumSymsNat, DylibEntryType DEF ResolveDylibSym, TypeOK, Files
<1>2. alive \in [Files -> BOOLEAN] /\ s \in SymRec
  BY <1>1 DEF TypeOK, DylibSym
<1>3. SymRank(s) \in Nat /\ r \in Nat
  <2>1. SymRank(s) \in 0 .. 7 * RankShift
    BY <1>2, SymRankRange
  <2>2. r \in 0 .. (7 * RankShift - 1)
    BY <1>1, <1>2, CandRankRange
  <2>3. QED
    BY <2>1, <2>2, RankShiftNat
<1>4. \A n \in Names : n # e.name => sym'[n] = sym[n]
  BY <1>1 DEF ResolveDylibSym, TypeOK, DylibSym
<1>5. ~(d \in WeakDylibs \/ e.weak)
  BY <1>1 DEF NoWeakDylibExports
<1>6. GetRank(d, FALSE, FALSE) = r
  <2>1. d \notin Objs
    BY FilesAssumption
  <2>2. ViewOf(d, k).common = FALSE /\ ViewOf(d, k).weak = FALSE
    BY <2>1, <1>5, Zenon DEF ViewOf
  <2>3. QED
    BY <2>2, Zenon DEF CandRank
<1>7. \A n \in Names : SymRank(sym[n]) \in Nat
  BY <1>2, SymRankRange, RankShiftNat DEF TypeOK
<1>8. CASE r < SymRank(s)
  <2>1. sym'[e.name] = [file |-> d, scope |-> "local", imported |-> TRUE,
                        weak |-> d \in WeakDylibs \/ e.weak,
                        common |-> FALSE, def |-> "dylib"]
    <3>1. GetRank(d, FALSE, FALSE) < SymRank(s)
      BY <1>8, <1>6, Zenon
    <3>2. QED
      BY <3>1, <1>1 DEF ResolveDylibSym, TypeOK, DylibSym
  <2>2. sym'[e.name].file = d /\ sym'[e.name].common = FALSE
        /\ sym'[e.name].weak = (d \in WeakDylibs \/ e.weak)
    <3>1. sym'[e.name].file = d
      BY <2>1
    <3>2. sym'[e.name].common = FALSE
      BY <2>1
    <3>3. sym'[e.name].weak = (d \in WeakDylibs \/ e.weak)
      BY <2>1
    <3>4. QED
      BY <3>1, <3>2, <3>3
  <2>5. sym'[e.name].weak = FALSE
    BY <2>2, <1>5, Zenon
  <2>3. SymRank(sym'[e.name]) = r
    <3>1. d # NoFile
      BY <1>1, FilesAssumption
    <3>2. QED
      BY <2>2, <2>5, <3>1, <1>6, Zenon DEF SymRank
  <2>4. QED
    BY <1>3, <1>4, <1>7, <1>8, <2>3
<1>9. CASE ~(r < SymRank(s))
  <2>1. sym' = sym
    <3>1. ~(GetRank(d, FALSE, FALSE) < SymRank(s))
      BY <1>9, <1>6, Zenon
    <3>2. QED
      BY <3>1 DEF ResolveDylibSym
  <2>2. QED
    BY <1>3, <1>7, <1>9, <2>1
<1>10. QED
  BY <1>8, <1>9

(* While the live files are unchanged, the ranks of Symbol records and of  *)
(* entries are the same before and after a step.                           *)
LEMMA RankFrame ==
  ASSUME alive' = alive
  PROVE  /\ \A n \in Names : SymRank(sym[n])' = SymRank(sym'[n])
         /\ \A g \in Files, j \in Nat : CandRank(g, j)' = CandRank(g, j)
<1>1. \A f, c, w : GetRank(f, c, w)' = GetRank(f, c, w)
  BY DEF GetRank
<1>2. \A n \in Names : SymRank(sym[n])' = SymRank(sym'[n])
  BY <1>1 DEF SymRank
<1>3. \A g, j : ViewOf(g, j)' = ViewOf(g, j)
  BY DEF ViewOf
<1>4. \A g \in Files, j \in Nat : CandRank(g, j)' = CandRank(g, j)
  BY <1>1, <1>3, Zenon DEF CandRank
<1>5. QED
  BY <1>2, <1>4

LEMMA DoneFrameStep == BestInv /\ [Next]_vars => DoneFrame'
<1> SUFFICES ASSUME BestInv, [Next]_vars PROVE DoneFrame'
  OBVIOUS
<1>1. CASE EndResolve2
  BY <1>1 DEF EndResolve2, DoneFrame
<1>2. CASE ~EndResolve2
  <2>1. phase' = "done" => phase = "done" /\ rpc' = rpc
    BY <1>2 DEF Next, vars, ResolveObjSym, ResolveDylibSym, EndResolve1,
                MarkLiveSym, EndMark, ClearSymbols, EndClear
  <2>2. QED
    BY <2>1 DEF BestInv, DoneFrame
<1>3. QED
  BY <1>1, <1>2

LEMMA RankBoundStep ==
  ASSUME NoWeakDylibExports
  PROVE  BestInv /\ [Next]_vars => RankBound'
<1> SUFFICES ASSUME BestInv, [Next]_vars PROVE RankBound'
  OBVIOUS
<1> USE DEF BestInv
<1>0. TypeOK'
  BY NextTypeOK
(* The ranks of both Symbol records and entries are naturals.              *)
<1>r. /\ \A n \in Names : SymRank(sym[n]) \in Nat /\ SymRank(sym'[n]) \in Nat
      /\ \A g \in Files : \A j \in 1 .. NumSyms(g) : CandRank(g, j) \in Nat
  BY <1>0, SymRankRange, CandRankRange, RankShiftNat DEF TypeOK
(* A step that keeps alive and the phase: it suffices that each name's    *)
(* owner ranks no worse than each entry passed by a live file.             *)
<1>1. ASSUME NEW f \in Objs, ResolveObjSym(f) PROVE RankBound'
  <2> DEFINE k == rpc[f] + 1
  <2>1. alive' = alive /\ phase' = phase
    BY <1>1 DEF ResolveObjSym
  <2>2. CASE phase = "resolve1"
    BY <2>1, <2>2 DEF RankBound
  <2>3. CASE phase = "resolve2"
    <3> SUFFICES ASSUME NEW n \in Names, NEW g \in Files, alive[g],
                        NEW j \in 1 .. rpc'[g], Defines(g, j, n)
                 PROVE  SymRank(sym'[n]) <= CandRank(g, j)
      BY <2>1, RankFrame DEF RankBound, Defines
    <3>1. rpc'[g] \in Nat /\ rpc'[g] <= NumSyms(g) /\ j \in Nat
      BY <1>0 DEF TypeOK
    <3>2. CASE g = f /\ j = k
      <4>1. ObjTab[f][k].name = n /\ Defines(f, k, ObjTab[f][k].name)
        BY <3>2 DEF Defines
      <4>2. SymRank(sym'[ObjTab[f][k].name]) <= CandRank(f, k)
        BY <4>1, <1>1, ObjStepRank
      <4>3. QED
        BY <3>2, <4>1, <4>2
    <3>3. CASE ~(g = f /\ j = k)
      <4>1. j \in 1 .. rpc[g]
        BY <3>3, <1>1 DEF ResolveObjSym, TypeOK
      <4>2. SymRank(sym[n]) <= CandRank(g, j)
        BY <4>1, <2>3 DEF RankBound
      <4>3. SymRank(sym'[n]) <= SymRank(sym[n])
        BY <1>1, ObjStepRank
      <4>4. j \in 1 .. NumSyms(g)
        BY <3>1, NumSymsNat
      <4>5. QED
        BY <4>2, <4>3, <4>4, <1>r
    <3>4. QED
      BY <3>2, <3>3
  <2>4. QED
    BY <1>1, <2>2, <2>3 DEF ResolveObjSym
<1>2. ASSUME NEW d \in Dylibs, ResolveDylibSym(d) PROVE RankBound'
  <2> DEFINE k == rpc[d] + 1
  <2>1. alive' = alive /\ phase' = phase
    BY <1>2 DEF ResolveDylibSym
  <2>2. CASE phase = "resolve1"
    BY <2>1, <2>2 DEF RankBound
  <2>3. CASE phase = "resolve2"
    <3> SUFFICES ASSUME NEW n \in Names, NEW g \in Files, alive[g],
                        NEW j \in 1 .. rpc'[g], Defines(g, j, n)
                 PROVE  SymRank(sym'[n]) <= CandRank(g, j)
      BY <2>1, RankFrame DEF RankBound, Defines
    <3>1. rpc'[g] \in Nat /\ rpc'[g] <= NumSyms(g) /\ j \in Nat
      BY <1>0 DEF TypeOK
    <3>2. CASE g = d /\ j = k
      <4>1. d \notin Objs
        BY FilesAssumption
      <4>2. DylibTab[d][k].name = n
        BY <3>2, <4>1 DEF Defines
      <4>3. QED
        BY <3>2, <4>2, <1>2, DylibStepRank
    <3>3. CASE ~(g = d /\ j = k)
      <4>1. j \in 1 .. rpc[g]
        BY <3>3, <1>2 DEF ResolveDylibSym, TypeOK
      <4>2. SymRank(sym[n]) <= CandRank(g, j)
        BY <4>1, <2>3 DEF RankBound
      <4>3. SymRank(sym'[n]) <= SymRank(sym[n])
        BY <1>2, DylibStepRank
      <4>4. j \in 1 .. NumSyms(g)
        BY <3>1, NumSymsNat
      <4>5. QED
        BY <4>2, <4>3, <4>4, <1>r
    <3>4. QED
      BY <3>2, <3>3
  <2>4. QED
    BY <1>2, <2>2, <2>3 DEF ResolveDylibSym
<1>3. CASE EndClear
  <2>1. \A g \in Files : alive'[g] => rpc'[g] = 0
    BY <1>3 DEF EndClear
  <2>2. QED
    BY <2>1 DEF RankBound
<1>4. CASE EndResolve2 \/ UNCHANGED vars
  <2>1. alive' = alive /\ sym' = sym /\ rpc' = rpc
    BY <1>4 DEF EndResolve2, vars
  <2>2. phase' \in {"resolve2", "done"} => phase \in {"resolve2", "done"}
    BY <1>4 DEF EndResolve2, vars
  <2>3. QED
    BY <2>1, <2>2, RankFrame DEF RankBound
<1>5. CASE \/ EndResolve1 \/ EndMark
           \/ \E o \in Objs : MarkLiveSym(o)
           \/ \E f \in Files : ClearSymbols(f)
  <2>1. phase' \in {"mark", "clear"}
    BY <1>5 DEF EndResolve1, EndMark, MarkLiveSym, ClearSymbols
  <2>2. QED
    BY <2>1 DEF RankBound
<1>6. CASE Next
  <2>1. CASE \E f \in Objs : ResolveObjSym(f)
    BY <2>1, <1>1
  <2>2. CASE \E d \in Dylibs : ResolveDylibSym(d)
    BY <2>2, <1>2
  <2>3. QED
    BY <1>3, <1>4, <1>5, <1>6, <2>1, <2>2 DEF Next
<1>7. QED
  BY <1>4, <1>6

LEMMA NextBestInv ==
  ASSUME NoWeakDylibExports
  PROVE  BestInv /\ [Next]_vars => BestInv'
BY NextTypeOK, NextOwnerView, NextPhaseFrame, DoneFrameStep, RankBoundStep
   DEF BestInv

(* Once every live file has passed all its entries, the owner ranks no    *)
(* worse than any live definer's entry, and is itself one of them.         *)
LEMMA BestInvFinal == BestInv => FinalOwnerIsBest
<1> SUFFICES ASSUME BestInv, phase = "done", NEW n \in Names
             PROVE  IF Candidates(n) = {} THEN sym[n].file = NoFile
                    ELSE /\ sym[n].file \in Candidates(n)
                         /\ \A g \in Candidates(n) :
                              BestRank(sym[n].file, n) <= BestRank(g, n)
  BY DEF FinalOwnerIsBest
<1> USE DEF BestInv
<1> DEFINE o == sym[n].file
<1>0. alive \in [Files -> BOOLEAN] /\ sym[n] \in SymRec
  BY DEF TypeOK
<1>1. o # NoFile =>
        /\ o \in Candidates(n)
        /\ \E i \in 1 .. NumSyms(o) :
             Defines(o, i, n) /\ SymRank(sym[n]) = CandRank(o, i)
  <2> SUFFICES ASSUME o # NoFile
               PROVE  /\ o \in Candidates(n)
                      /\ \E i \in 1 .. NumSyms(o) :
                           Defines(o, i, n) /\ SymRank(sym[n]) = CandRank(o, i)
    OBVIOUS
  <2>1. o \in Files
    BY <1>0 DEF SymRec
  <2>2. alive[o]
    BY DEF PhaseFrame
  <2>3. PICK i \in 1 .. NumSyms(o) :
          /\ Defines(o, i, n)
          /\ ViewOf(o, i) = [imported |-> sym[n].imported, weak |-> sym[n].weak,
                             common |-> sym[n].common, def |-> sym[n].def]
    BY DEF OwnerViewMatches, OwnerViewOk
  <2>4. ViewOf(o, i).common = sym[n].common /\ ViewOf(o, i).weak = sym[n].weak
    BY <2>3
  <2>5. SymRank(sym[n]) = CandRank(o, i)
    BY <2>4 DEF SymRank, CandRank
  <2>6. QED
    BY <2>1, <2>2, <2>3, <2>5 DEF Candidates
<1>2. \A g \in Candidates(n) : \A j \in 1 .. NumSyms(g) :
        Defines(g, j, n) => SymRank(sym[n]) <= CandRank(g, j)
  BY DEF Candidates, DoneFrame, RankBound
<1>3. CASE Candidates(n) = {}
  BY <1>1, <1>3
<1>4. CASE Candidates(n) # {}
  <2>1. o # NoFile
    <3>1. PICK g \in Candidates(n) : TRUE
      BY <1>4
    <3>2. g \in Files /\ \E j \in 1 .. NumSyms(g) : Defines(g, j, n)
      BY <3>1 DEF Candidates
    <3>3. PICK j \in 1 .. NumSyms(g) : Defines(g, j, n)
      BY <3>2
    <3>4. CandRank(g, j) \in 0 .. (7 * RankShift - 1)
      BY <3>2, <1>0, CandRankRange
    <3>5. SymRank(sym[n]) <= CandRank(g, j)
      BY <3>1, <3>3, <1>2
    <3>6. QED
      BY <3>4, <3>5, RankShiftNat DEF SymRank
  <2>2. PICK i \in 1 .. NumSyms(o) : Defines(o, i, n) /\ SymRank(sym[n]) = CandRank(o, i)
    BY <2>1, <1>1
  <2>3. o \in Files
    BY <2>1, <1>0 DEF SymRec
  <2>4. /\ \E k \in 1 .. NumSyms(o) : Defines(o, k, n) /\ BestRank(o, n) = CandRank(o, k)
        /\ BestRank(o, n) <= CandRank(o, i)
    BY <2>2, <2>3, <1>0, BestRankMin
  <2>5. BestRank(o, n) \in Nat
    BY <2>3, <2>4, <1>0, CandRankRange, RankShiftNat
  <2>6. ASSUME NEW g \in Candidates(n) PROVE BestRank(o, n) <= BestRank(g, n)
    <3>1. g \in Files /\ \E j \in 1 .. NumSyms(g) : Defines(g, j, n)
      BY DEF Candidates
    <3>2. PICK k \in 1 .. NumSyms(g) : Defines(g, k, n) /\ BestRank(g, n) = CandRank(g, k)
      BY <3>1, <1>0, BestRankMin
    <3>3. SymRank(sym[n]) <= CandRank(g, k)
      BY <3>2, <1>2
    <3>4. CandRank(g, k) \in Nat /\ CandRank(o, i) \in Nat
      BY <3>1, <2>3, <1>0, CandRankRange, RankShiftNat
    <3>5. QED
      BY <2>2, <2>4, <2>5, <3>2, <3>3, <3>4
  <2>7. QED
    BY <1>4, <1>1, <2>1, <2>6
<1>5. QED
  BY <1>3, <1>4

(* The precedence table of section 4.7, for every link line whose dylibs   *)
(* export no weak definition (the weak_dylib_order finding shows the       *)
(* hypothesis is needed): once the second round of resolve_symbols is      *)
(* over, every symbol is owned by the live definer of least rank, whatever *)
(* order the threads took the symbol locks in, and by no file when no live *)
(* file defines it.                                                        *)
THEOREM FinalOwnerIsBestInvariant ==
  ASSUME NoWeakDylibExports
  PROVE  Spec => []FinalOwnerIsBest
<1>1. Spec => []BestInv
  BY InitBestInv, NextBestInv, PTL DEF Spec
<1>2. QED
  BY <1>1, BestInvFinal, PTL


-----------------------------------------------------------------------------
(* A step of either round is a resolve_symbols iteration, which under      *)
(* sym.mu never leaves a symbol ranked worse (ObjStepRank, DylibStepRank); *)
(* every other step of Next changes the phase.                             *)
LEMMA RankStep ==
  ASSUME TypeOK, NoWeakDylibExports, [Next]_vars
  PROVE  (phase \in {"resolve1", "resolve2"} /\ phase' = phase) =>
           \A n \in Names : SymRank(sym[n])' <= SymRank(sym[n])
<1> SUFFICES ASSUME phase \in {"resolve1", "resolve2"}, phase' = phase,
                    NEW n \in Names
             PROVE  SymRank(sym[n])' <= SymRank(sym[n])
  OBVIOUS
<1>1. \/ \E f \in Objs : ResolveObjSym(f)
      \/ \E d \in Dylibs : ResolveDylibSym(d)
      \/ UNCHANGED vars
  <2>1. ~EndResolve1 /\ ~EndMark /\ ~EndClear /\ ~EndResolve2
    BY DEF EndResolve1, EndMark, EndClear, EndResolve2
  <2>2. \A o \in Objs : ~MarkLiveSym(o)
    BY DEF MarkLiveSym
  <2>3. \A f \in Files : ~ClearSymbols(f)
    BY DEF ClearSymbols
  <2>4. QED
    BY <2>1, <2>2, <2>3 DEF Next
<1>2. alive' = alive
  <2>1. ASSUME NEW f \in Objs, ResolveObjSym(f) PROVE alive' = alive
    BY <2>1 DEF ResolveObjSym
  <2>2. ASSUME NEW d \in Dylibs, ResolveDylibSym(d) PROVE alive' = alive
    BY <2>2 DEF ResolveDylibSym
  <2>3. QED
    BY <1>1, <2>1, <2>2 DEF vars
<1>3. SymRank(sym[n])' = SymRank(sym'[n])
  BY <1>2, RankFrame
<1>4. SymRank(sym'[n]) <= SymRank(sym[n])
  <2>1. CASE \E f \in Objs : ResolveObjSym(f)
    <3>1. PICK f \in Objs : ResolveObjSym(f)
      BY <2>1
    <3>2. QED
      BY <3>1, ObjStepRank
  <2>2. CASE \E d \in Dylibs : ResolveDylibSym(d)
    <3>1. PICK d \in Dylibs : ResolveDylibSym(d)
      BY <2>2
    <3>2. QED
      BY <3>1, DylibStepRank
  <2>3. CASE UNCHANGED vars
    <3>1. sym'[n] = sym[n] /\ sym[n] \in SymRec
      BY <2>3 DEF vars, TypeOK
    <3>2. SymRank(sym[n]) \in Nat
      BY <3>1, SymRankRange, RankShiftNat DEF TypeOK
    <3>3. QED
      BY <3>1, <3>2
  <2>4. QED
    BY <1>1, <2>1, <2>2, <2>3
<1>5. QED
  BY <1>3, <1>4

(* Section 8's 'rank monotone', step by step, for every link line whose    *)
(* dylibs export no weak definition: no resolve_symbols iteration of       *)
(* either round leaves a symbol owned at a worse get_rank.  The            *)
(* weak_dylib_order input breaks it at DylibFile::resolve_symbols.         *)
THEOREM RankNeverWorsensHolds ==
  ASSUME NoWeakDylibExports
  PROVE  Spec => RankNeverWorsens
<1>1. Spec => []TypeOK
  BY TypeCorrect
<1>2. TypeOK /\ [Next]_vars =>
        [(phase \in {"resolve1", "resolve2"} /\ phase' = phase) =>
           \A n \in Names : SymRank(sym[n])' <= SymRank(sym[n])]_vars
  BY RankStep
<1>3. QED
  BY <1>1, <1>2, PTL DEF Spec, RankNeverWorsens

=============================================================================
