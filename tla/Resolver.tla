------------------------------ MODULE Resolver ------------------------------
(***************************************************************************)
(* Global symbol resolution of the Mach-O linker (src/macho/input-files.cc)*)
(*                                                                         *)
(* Every object file and every dylib runs resolve_symbols on its own       *)
(* thread.  The threads share one Symbol record per name and serialise on  *)
(* its mutex: one step of a thread is the whole body of the loop for one   *)
(* symbol index, executed while holding that symbol's lock.  After the     *)
(* first round, mark_live_objects runs on every live object, again in      *)
(* parallel, and feeds the archive members whose is_alive flag it wins by  *)
(* the atomic exchange back into the same parallel loop.  Then the symbols *)
(* of the files still dead are cleared (clear_symbols) and the live files  *)
(* resolve once more.  The order of those phases is the driver's, which is *)
(* not part of src/ and is taken from the spec (sections 2 and 4.7).       *)
(*                                                                         *)
(* The raw symbol table of an object (its MachSym entries) and the export  *)
(* list of a dylib are the output of parsing and are CONSTANTS here.       *)
(***************************************************************************)
EXTENDS Naturals, Sequences, FiniteSets

CONSTANTS
  Objs,          \* object files (ObjectFile), command-line and archive members
  Dylibs,        \* dynamic libraries (DylibFile)
  Names,         \* symbol names interned by get_symbol
  NoFile,        \* the null InputFile pointer
  Prio,          \* file -> priority (lower wins ties)
  ArchiveMembers,\* objects with a non-empty archive_name (and no -all_load)
  StrippedDylibs,\* dylibs created with is_alive = FALSE (-dead_strip_dylibs)
  HiddenObjs,    \* objects created with is_hidden (-hidden-l)
  WeakDylibs,    \* dylibs created with is_weak (-weak-l)
  ObjTab,        \* object -> sequence of MachSym entries
  DylibTab       \* dylib -> sequence of [name, weak] (syms + is_weak_symbol)

Files == Objs \cup Dylibs

(* The four MachSym shapes the resolver tells apart: N_UNDF with value 0,  *)
(* N_UNDF with a non-zero value (is_common), N_ABS and N_SECT.             *)
SymTypes == {"undef", "common", "abs", "sect"}

MachSym ==
  [name : Names, ext : BOOLEAN, type : SymTypes,
   weakDef : BOOLEAN, weakRef : BOOLEAN, pext : BOOLEAN]

DylibSym == [name : Names, weak : BOOLEAN]

(* get_rank shifts the kind by 24 bits and adds the file priority.         *)
RankShift == 2^24

ASSUME FilesAssumption ==
  /\ Objs \cap Dylibs = {}
  /\ NoFile \notin Files
  /\ ArchiveMembers \subseteq Objs
  /\ HiddenObjs \subseteq Objs
  /\ StrippedDylibs \subseteq Dylibs
  /\ WeakDylibs \subseteq Dylibs

ASSUME PrioAssumption ==
  /\ Prio \in [Files -> 0 .. (RankShift - 1)]
  /\ \A f, g \in Files : Prio[f] = Prio[g] => f = g

(* A local symbol of type N_UNDF is fatal in parse_symbols, so no parsed   *)
(* table holds one; a name is exported at most once by a dylib.            *)
ASSUME TabAssumption ==
  /\ ObjTab \in [Objs -> Seq(MachSym)]
  /\ DylibTab \in [Dylibs -> Seq(DylibSym)]
  /\ \A o \in Objs : \A i \in 1 .. Len(ObjTab[o]) :
       ~ObjTab[o][i].ext => ObjTab[o][i].type \in {"abs", "sect"}

NumSyms(f) == IF f \in Objs THEN Len(ObjTab[f]) ELSE Len(DylibTab[f])

Scopes == {"local", "private_extern", "extern"}

(* What a Symbol's subsec/value pair holds: nothing, a subsection of the   *)
(* owner (N_SECT), an absolute value, a common size, or an import.        *)
Defs == {"none", "sect", "abs", "common", "dylib"}

SymRec ==
  [file : Files \cup {NoFile}, scope : Scopes, imported : BOOLEAN,
   weak : BOOLEAN, common : BOOLEAN, def : Defs]

(* The record clear_symbols leaves behind, which is also the state of a    *)
(* symbol freshly interned by get_symbol.                                  *)
NullSym ==
  [file |-> NoFile, scope |-> "local", imported |-> FALSE,
   weak |-> FALSE, common |-> FALSE, def |-> "none"]

Phases == {"resolve1", "mark", "clear", "resolve2", "done"}

VARIABLES
  phase,   \* which parallel loop of the driver is running
  alive,   \* file -> is_alive
  sym,     \* name -> the shared Symbol record
  rpc,     \* file -> symbol indices resolve_symbols has finished
  queued,  \* object -> times it was pushed into the mark-live work list
  mpc,     \* object -> symbol indices mark_live_objects has finished
  cleared  \* files whose clear_symbols has run

vars == <<phase, alive, sym, rpc, queued, mpc, cleared>>

-----------------------------------------------------------------------------
(* Mutant: a dead archive member ranks as if it were live.                 *)
GetRank_AliveIgnored(f, isCommon, isWeak) ==
  LET kind ==
        IF isCommon THEN 5
        ELSE IF f \in Dylibs THEN (IF isWeak THEN 4 ELSE 3)
        ELSE IF isWeak THEN 2 ELSE 1
  IN kind * RankShift + Prio[f]

(* get_rank(file, is_common, is_weak): smaller is better.  The code's      *)
(* chain of early returns, each test read only if the ones before failed.  *)
GetRank(f, isCommon, isWeak) ==
  LET kind ==
        IF isCommon THEN (IF alive[f] THEN 5 ELSE 6)
        ELSE IF f \in Dylibs \/ ~alive[f] THEN (IF isWeak THEN 4 ELSE 3)
        ELSE IF isWeak THEN 2 ELSE 1
  IN kind * RankShift + Prio[f]

(* get_rank(sym): the rank of the current owner, 7 if there is none.       *)
SymRank(s) ==
  IF s.file = NoFile THEN 7 * RankShift
  ELSE GetRank(s.file, s.common, s.weak)

(* is_private_extern(msym) of ObjectFile::resolve_symbols.                 *)
IsPrivateExtern(f, m) ==
  f \in HiddenObjs \/ m.pext \/ (m.weakRef /\ m.weakDef)

(* merge_scope: once EXTERN, always EXTERN.                                *)
MergeScope(s, f, m) ==
  IF s.scope = "extern" THEN "extern"
  ELSE IF IsPrivateExtern(f, m) THEN "private_extern" ELSE "extern"

(* Mutant: the undefined-symbol check of the loop is dropped.             *)
NotDefinition_NoUndefSkip(m) == ~m.ext

(* The entry is skipped by resolve_symbols: not extern, or undefined.      *)
NotDefinition(m) == ~m.ext \/ m.type = "undef"

(* The Symbol record an object's winning entry writes (lines 567-587).     *)
(* Mutant: is_weak is not copied from the entry.                           *)
ObjOwnerRec_NoWeak(f, m, scope) ==
  [file |-> f, scope |-> scope, imported |-> FALSE,
   weak |-> FALSE, common |-> m.type = "common", def |-> m.type]

ObjOwnerRec(f, m, scope) ==
  [file |-> f, scope |-> scope, imported |-> FALSE,
   weak |-> m.weakDef, common |-> m.type = "common", def |-> m.type]

(* mark_live_objects' keep condition: the entry needs the owner's          *)
(* definition (an undefined reference, or a common that lost to a          *)
(* non-common definition).                                                 *)
Keeps(m, s) == m.type = "undef" \/ (m.type = "common" /\ ~s.common)

(* Mutant: the owner's is_alive is tested and set without the exchange's   *)
(* result deciding who feeds it.                                           *)
ActivatesOwner_NoExchange(m, s) == m.ext /\ s.file # NoFile /\ Keeps(m, s)

(* This thread's exchange on the owner's is_alive returns FALSE.           *)
ActivatesOwner(m, s) ==
  m.ext /\ s.file # NoFile /\ Keeps(m, s) /\ ~alive[s.file]

(* Mutant: the feeder callback never adds the object to the work list.     *)
Feed_Dropped(g) == queued

(* The feeder: a newly live object joins the parallel mark-live loop.      *)
Feed(g) == IF g \in Objs THEN [queued EXCEPT ![g] = @ + 1] ELSE queued

-----------------------------------------------------------------------------
Init ==
  /\ phase = "resolve1"
  /\ alive = [f \in Files |->
               IF f \in Objs THEN f \notin ArchiveMembers
                             ELSE f \notin StrippedDylibs]
  /\ sym = [n \in Names |-> NullSym]
  /\ rpc = [f \in Files |-> 0]
  /\ queued = [o \in Objs |-> 0]
  /\ mpc = [o \in Objs |-> 0]
  /\ cleared = {}

(* Mutant: the loop does not advance past an entry it skips.              *)
ResolveObjSym_SkipStalls(f) ==
  /\ phase \in {"resolve1", "resolve2"}
  /\ f \in Objs
  /\ rpc[f] < NumSyms(f)
  /\ LET m == ObjTab[f][rpc[f] + 1]
         s == sym[m.name]
         isCommon == m.type = "common"
         scope == MergeScope(s, f, m)
     IN /\ sym' = IF NotDefinition(m) THEN sym
                  ELSE IF GetRank(f, isCommon, m.weakDef) < SymRank(s)
                  THEN [sym EXCEPT ![m.name] = ObjOwnerRec(f, m, scope)]
                  ELSE [sym EXCEPT ![m.name].scope = scope]
        /\ rpc' = IF NotDefinition(m) THEN rpc ELSE [rpc EXCEPT ![f] = @ + 1]
  /\ UNCHANGED <<phase, alive, queued, mpc, cleared>>

(* Mutant: the object competes as a non-common definition, as a dylib     *)
(* does, but still records is_common.                                      *)
ResolveObjSym_CommonAsStrong(f) ==
  /\ phase \in {"resolve1", "resolve2"}
  /\ f \in Objs
  /\ rpc[f] < NumSyms(f)
  /\ LET m == ObjTab[f][rpc[f] + 1]
         s == sym[m.name]
         scope == MergeScope(s, f, m)
     IN sym' = IF NotDefinition(m) THEN sym
               ELSE IF GetRank(f, FALSE, m.weakDef) < SymRank(s)
               THEN [sym EXCEPT ![m.name] = ObjOwnerRec(f, m, scope)]
               ELSE [sym EXCEPT ![m.name].scope = scope]
  /\ rpc' = [rpc EXCEPT ![f] = @ + 1]
  /\ UNCHANGED <<phase, alive, queued, mpc, cleared>>

(* One iteration of ObjectFile::resolve_symbols, under sym.mu.  The scope  *)
(* is merged whether or not the candidate wins.                            *)
ResolveObjSym(f) ==
  /\ phase \in {"resolve1", "resolve2"}
  /\ f \in Objs
  /\ rpc[f] < NumSyms(f)
  /\ LET m == ObjTab[f][rpc[f] + 1]
         s == sym[m.name]
         isCommon == m.type = "common"
         scope == MergeScope(s, f, m)
     IN sym' = IF NotDefinition(m) THEN sym
               ELSE IF GetRank(f, isCommon, m.weakDef) < SymRank(s)
               THEN [sym EXCEPT ![m.name] = ObjOwnerRec(f, m, scope)]
               ELSE [sym EXCEPT ![m.name].scope = scope]
  /\ rpc' = [rpc EXCEPT ![f] = @ + 1]
  /\ UNCHANGED <<phase, alive, queued, mpc, cleared>>

(* One iteration of DylibFile::resolve_symbols, under sym.mu: the dylib    *)
(* competes as strong and non-common, and records its own weakness.       *)
ResolveDylibSym(d) ==
  /\ phase \in {"resolve1", "resolve2"}
  /\ d \in Dylibs
  /\ rpc[d] < NumSyms(d)
  /\ LET e == DylibTab[d][rpc[d] + 1]
     IN sym' = IF GetRank(d, FALSE, FALSE) < SymRank(sym[e.name])
               THEN [sym EXCEPT ![e.name] =
                       [file |-> d, scope |-> "local", imported |-> TRUE,
                        weak |-> d \in WeakDylibs \/ e.weak,
                        common |-> FALSE, def |-> "dylib"]]
               ELSE sym
  /\ rpc' = [rpc EXCEPT ![d] = @ + 1]
  /\ UNCHANGED <<phase, alive, queued, mpc, cleared>>

(* Barrier after the first round: the live objects form the work list.     *)
EndResolve1 ==
  /\ phase = "resolve1"
  /\ \A f \in Files : rpc[f] = NumSyms(f)
  /\ phase' = "mark"
  /\ queued' = [o \in Objs |-> IF alive[o] THEN 1 ELSE 0]
  /\ UNCHANGED <<alive, sym, rpc, mpc, cleared>>

(* One iteration of ObjectFile::mark_live_objects, under sym.mu.  The      *)
(* owner's is_alive is set by an atomic exchange; only the thread that     *)
(* saw FALSE calls the feeder, and never for a dylib.                      *)
MarkLiveSym(o) ==
  /\ phase = "mark"
  /\ queued[o] > 0
  /\ mpc[o] < NumSyms(o)
  /\ LET m == ObjTab[o][mpc[o] + 1]
         s == sym[m.name]
     IN IF ActivatesOwner(m, s)
        THEN /\ alive' = [alive EXCEPT ![s.file] = TRUE]
             /\ queued' = Feed(s.file)
        ELSE UNCHANGED <<alive, queued>>
  /\ mpc' = [mpc EXCEPT ![o] = @ + 1]
  /\ UNCHANGED <<phase, sym, rpc, cleared>>

(* The parallel mark-live loop returns when every queued object is done.   *)
EndMark ==
  /\ phase = "mark"
  /\ \A o \in Objs : queued[o] > 0 => mpc[o] = NumSyms(o)
  /\ phase' = "clear"
  /\ UNCHANGED <<alive, sym, rpc, queued, mpc, cleared>>

(* Mutant: clear_symbols leaves the dead file's symbols as they are.       *)
ClearSymbols_Skipped(f) ==
  /\ phase = "clear"
  /\ ~alive[f]
  /\ f \notin cleared
  /\ sym' = sym
  /\ cleared' = cleared \cup {f}
  /\ UNCHANGED <<phase, alive, rpc, queued, mpc>>

(* InputFile::clear_symbols of a file left dead.                           *)
ClearSymbols(f) ==
  /\ phase = "clear"
  /\ ~alive[f]
  /\ f \notin cleared
  /\ sym' = [n \in Names |-> IF sym[n].file = f THEN NullSym ELSE sym[n]]
  /\ cleared' = cleared \cup {f}
  /\ UNCHANGED <<phase, alive, rpc, queued, mpc>>

(* Barrier before the second round, which only the live files run.         *)
EndClear ==
  /\ phase = "clear"
  /\ \A f \in Files : ~alive[f] => f \in cleared
  /\ phase' = "resolve2"
  /\ rpc' = [f \in Files |-> IF alive[f] THEN 0 ELSE NumSyms(f)]
  /\ UNCHANGED <<alive, sym, queued, mpc, cleared>>

EndResolve2 ==
  /\ phase = "resolve2"
  /\ \A f \in Files : rpc[f] = NumSyms(f)
  /\ phase' = "done"
  /\ UNCHANGED <<alive, sym, rpc, queued, mpc, cleared>>

Next ==
  \/ \E f \in Objs : ResolveObjSym(f)
  \/ \E d \in Dylibs : ResolveDylibSym(d)
  \/ EndResolve1
  \/ \E o \in Objs : MarkLiveSym(o)
  \/ EndMark
  \/ \E f \in Files : ClearSymbols(f)
  \/ EndClear
  \/ EndResolve2

Spec == Init /\ [][Next]_vars

-----------------------------------------------------------------------------
(* Type invariant.                                                         *)
TypeOK ==
  /\ phase \in Phases
  /\ alive \in [Files -> BOOLEAN]
  /\ sym \in [Names -> SymRec]
  /\ rpc \in [Files -> Nat]
  /\ \A f \in Files : rpc[f] <= NumSyms(f)
  /\ queued \in [Objs -> Nat]
  /\ mpc \in [Objs -> Nat]
  /\ \A o \in Objs : mpc[o] <= NumSyms(o)
  /\ cleared \subseteq Files

(* The entry i of file f defines name n: an extern, non-undefined MachSym  *)
(* of an object, or an export of a dylib.                                  *)
Defines(f, i, n) ==
  IF f \in Objs THEN ObjTab[f][i].name = n /\ ~NotDefinition(ObjTab[f][i])
  ELSE DylibTab[f][i].name = n

(* The Symbol record as file f's entry i would write it.                   *)
ViewOf(f, i) ==
  IF f \in Objs
  THEN [imported |-> FALSE, weak |-> ObjTab[f][i].weakDef,
        common |-> ObjTab[f][i].type = "common", def |-> ObjTab[f][i].type]
  ELSE [imported |-> TRUE, weak |-> f \in WeakDylibs \/ DylibTab[f][i].weak,
        common |-> FALSE, def |-> "dylib"]

(* Spec invariant 4: a symbol's file names one of its definers, and the    *)
(* (imported, is_weak, is_common, subsec/value) it records are that        *)
(* definer's own view -- never a mix of two racing resolve_symbols         *)
(* threads, nor left over from a file clear_symbols has since reset.       *)
OwnerViewOk(n) ==
  LET s == sym[n] IN
  /\ s.file = NoFile =>
       s.def = "none" /\ ~s.imported /\ ~s.weak /\ ~s.common
  /\ s.file # NoFile =>
       \E i \in 1 .. NumSyms(s.file) :
          /\ Defines(s.file, i, n)
          /\ ViewOf(s.file, i) =
               [imported |-> s.imported, weak |-> s.weak,
                common |-> s.common, def |-> s.def]

OwnerViewMatches == \A n \in Names : OwnerViewOk(n)

(* The design note on the archive fixed point: the work list is fed with   *)
(* each object at most once, however many mark_live_objects threads race   *)
(* on symbols owned by the same archive member (the is_alive exchange).    *)
FedOnce == \A o \in Objs : queued[o] <= 1

(* Spec invariant 5, when the mark-live loop has returned: every live      *)
(* object's references that need a definition point at a live file.        *)
MarkLiveClosure ==
  phase = "clear" =>
    \A o \in Objs : alive[o] =>
      \A i \in 1 .. NumSyms(o) :
        LET m == ObjTab[o][i] IN
        (m.ext /\ Keeps(m, sym[m.name]) /\ sym[m.name].file # NoFile)
          => alive[sym[m.name].file]

(* The rank of file f's entry i by the precedence table: the rank the     *)
(* Symbol record would carry once that entry has won it.                   *)
CandRank(f, i) == GetRank(f, ViewOf(f, i).common, ViewOf(f, i).weak)

Candidates(n) ==
  {f \in Files : alive[f] /\ \E i \in 1 .. NumSyms(f) : Defines(f, i, n)}

BestRank(f, n) ==
  CHOOSE r \in {CandRank(f, i) : i \in {j \in 1 .. NumSyms(f) : Defines(f, j, n)}} :
    \A j \in 1 .. NumSyms(f) : Defines(f, j, n) => r <= CandRank(f, j)

(* The precedence table of section 4.7 and 'rank monotone' of section 8:   *)
(* once resolution is over, every symbol is owned by the live definer of   *)
(* least rank, whatever order the threads took the locks in, and by no     *)
(* file when no live file defines it.                                      *)
FinalOwnerIsBest ==
  phase = "done" =>
    \A n \in Names :
      IF Candidates(n) = {} THEN sym[n].file = NoFile
      ELSE /\ sym[n].file \in Candidates(n)
           /\ \A g \in Candidates(n) :
                BestRank(sym[n].file, n) <= BestRank(g, n)

(* Section 8, 'rank monotone', one step at a time: under sym.mu a         *)
(* resolve_symbols iteration of an object or a dylib replaces a symbol's   *)
(* owner only with a candidate of smaller get_rank, so no step of either   *)
(* round leaves a symbol owned at a worse rank than before it.             *)
RankNeverWorsens ==
  [][(phase \in {"resolve1", "resolve2"} /\ phase' = phase) =>
       \A n \in Names : SymRank(sym[n])' <= SymRank(sym[n])]_vars

(* Section 4.7, scope merge ('at least one exported wins'), read with the  *)
(* files that end up in the link: once resolution is over, a symbol owned  *)
(* by an object is EXTERN iff some live object defines it without making   *)
(* it private (is_private_extern: -hidden-l, N_PEXT, or weak-ref+weak-def).*)
ScopeFromLiveDefiners ==
  phase = "done" =>
    \A n \in Names : sym[n].file \in Objs =>
      LET exported == \E o \in Objs : alive[o] /\
                        \E i \in 1 .. NumSyms(o) :
                          Defines(o, i, n) /\ ~IsPrivateExtern(o, ObjTab[o][i])
      IN sym[n].scope = IF exported THEN "extern" ELSE "private_extern"


-----------------------------------------------------------------------------
(* The refinement mapping onto ResolutionSpec.  The abstract rounds happen *)
(* at the driver's barriers: the first at the end of the first round, the *)
(* sweep when the mark-live loop returns, the second at the end of the     *)
(* second round; every thread step, and clear_symbols, is a stutter.  The  *)
(* abstract liveness is the initial one until the sweep is over, and the   *)
(* abstract owners are visible only when a round has just ended.           *)
AbsStage ==
  CASE phase = "resolve1" -> "round1"
    [] phase = "mark" -> "mark"
    [] phase \in {"clear", "resolve2"} -> "round2"
    [] phase = "done" -> "done"
AbsLive ==
  IF phase \in {"resolve1", "mark"}
  THEN (Objs \ ArchiveMembers) \cup (Dylibs \ StrippedDylibs)
  ELSE {f \in Files : alive[f]}
AbsOwner ==
  [n \in Names |->
     IF phase \in {"mark", "done"}
     THEN [file |-> sym[n].file, common |-> sym[n].common]
     ELSE [file |-> NoFile, common |-> FALSE]]

Abs == INSTANCE ResolutionSpec WITH stage <- AbsStage, live <- AbsLive, owner <- AbsOwner

(* The design of section 2 and 4.7: however the resolve_symbols and       *)
(* mark_live_objects threads interleave, the rounds and the sweep have the *)
(* effect of the atomic steps of ResolutionSpec -- each round's owners are *)
(* the best definers of the precedence table, and the sweep makes live     *)
(* exactly the least closure of the first round's owners, no file more.   *)
ImplementsSpec == Abs!Spec
=============================================================================
