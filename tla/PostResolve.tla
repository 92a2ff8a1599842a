---------------------------- MODULE PostResolve ----------------------------
(***************************************************************************)
(* What the driver does with the object files once resolution is over     *)
(* (src/macho/input-files.cc): convert_common_symbols gives every common   *)
(* symbol an object still owns a zero-fill subsection of its __common      *)
(* section, then check_duplicate_symbols reports the strong definitions    *)
(* that lost.  Both run on every live object, in parallel; a file only     *)
(* writes the Symbol records it owns, so each call is one step.            *)
(*                                                                         *)
(* The module composes Resolver with those two phases and with the         *)
(* fairness of the driver's worker pool.  The order of the phases is the   *)
(* driver's (spec section 4.7: materialisation "after resolution           *)
(* terminates"), which is not part of src/.                                *)
(***************************************************************************)
EXTENDS Resolver

VARIABLES
  post,      \* "common", "dups", "end": the driver's phase after resolution
  converted, \* live objects whose convert_common_symbols has run
  commonSec, \* object -> names of the __common subsections it appended
  checked,   \* live objects whose check_duplicate_symbols has run
  dupErrs    \* <<file, name, owner>> triples reported as duplicate symbol

postVars == <<post, converted, commonSec, checked, dupErrs>>
allVars == <<vars, postVars>>

(* The entries of o that point at the shared Symbol: parse_symbols gives   *)
(* a non-extern entry a Symbol of its own, owned by o and never common.    *)
SharedAt(o, i) == ObjTab[o][i].ext

(* Mutant: the is_common test reads the symbol as it was before the loop, *)
(* so a second entry of the name finds it common again.                    *)
ConvertsAt_NoRecheck(o, i, done) ==
  LET n == ObjTab[o][i].name IN
  SharedAt(o, i) /\ sym[n].file = o /\ sym[n].common

(* The test of entry i: o owns the symbol and it is common as the loop     *)
(* finds it, i.e. common before the loop and not yet converted by an       *)
(* earlier entry of the loop (done), which cleared is_common.              *)
ConvertsAt(o, i, done) ==
  LET n == ObjTab[o][i].name IN
  SharedAt(o, i) /\ sym[n].file = o /\ sym[n].common /\ n \notin done

(* The loop over mach_syms: after entry i, the names it has converted and  *)
(* the names of the __common subsections it has appended, in order.        *)
ConvertLoop(o) ==
  LET acc[i \in 0 .. NumSyms(o)] ==
        IF i = 0 THEN [done |-> {}, secs |-> << >>]
        ELSE IF ConvertsAt(o, i, acc[i - 1].done)
        THEN [done |-> acc[i - 1].done \cup {ObjTab[o][i].name},
              secs |-> Append(acc[i - 1].secs, ObjTab[o][i].name)]
        ELSE acc[i - 1]
  IN acc[NumSyms(o)]

(* The Symbols the loop rewrites: those of o's shared entries that o owns *)
(* and that are common when the loop starts -- ConvertLoop(o).done.  Every *)
(* entry that converts a name writes the same fields, so the loop's effect *)
(* on the Symbols is one rewrite per name.                                 *)
ConvertedNames(o) ==
  {ObjTab[o][i].name :
     i \in {j \in 1 .. NumSyms(o) :
              SharedAt(o, j) /\ sym[ObjTab[o][j].name].file = o
              /\ sym[ObjTab[o][j].name].common}}

(* ObjectFile::convert_common_symbols, the whole loop.  The new subsection *)
(* belongs to o, so the symbol becomes a section definition of o with      *)
(* value 0, neither imported, weak nor common.                             *)
ConvertCommon(o) ==
  /\ phase = "done" /\ post = "common"
  /\ o \in Objs /\ alive[o] /\ o \notin converted
  /\ commonSec' = [commonSec EXCEPT ![o] = @ \o ConvertLoop(o).secs]
  /\ sym' = [n \in Names |->
              IF n \in ConvertedNames(o)
              THEN [sym[n] EXCEPT !.imported = FALSE, !.weak = FALSE,
                                  !.common = FALSE, !.def = "sect"]
              ELSE sym[n]]
  /\ converted' = converted \cup {o}
  /\ UNCHANGED <<phase, alive, rpc, queued, mpc, cleared, post, checked, dupErrs>>

EndCommon ==
  /\ phase = "done" /\ post = "common"
  /\ \A o \in Objs : alive[o] => o \in converted
  /\ post' = "dups"
  /\ UNCHANGED <<vars, converted, commonSec, checked, dupErrs>>

(* Mutant: a weak definition that lost is reported too.                    *)
StrongDefAt_WithWeak(o, i) ==
  SharedAt(o, i) /\ ObjTab[o][i].type \in {"abs", "sect"}

(* Entry i of o is a strong definition: not undefined, not common, no      *)
(* N_WEAK_DEF.                                                             *)
StrongDefAt(o, i) ==
  /\ SharedAt(o, i) /\ ObjTab[o][i].type \in {"abs", "sect"}
  /\ ~ObjTab[o][i].weakDef

(* ObjectFile::check_duplicate_symbols: an error for every strong entry    *)
(* whose symbol another file owns.                                         *)
CheckDuplicates(o) ==
  /\ post = "dups"
  /\ o \in Objs /\ alive[o] /\ o \notin checked
  /\ dupErrs' = dupErrs \cup
       {<< o, ObjTab[o][i].name, sym[ObjTab[o][i].name].file >> :
          i \in {j \in 1 .. NumSyms(o) :
                   /\ StrongDefAt(o, j)
                   /\ sym[ObjTab[o][j].name].file \notin {NoFile, o}}}
  /\ checked' = checked \cup {o}
  /\ UNCHANGED <<vars, post, converted, commonSec>>

EndDups ==
  /\ post = "dups"
  /\ \A o \in Objs : alive[o] => o \in checked
  /\ post' = "end"
  /\ UNCHANGED <<vars, converted, commonSec, checked, dupErrs>>

PostInit ==
  /\ Init
  /\ post = "common"
  /\ converted = {}
  /\ commonSec = [o \in Objs |-> << >>]
  /\ checked = {}
  /\ dupErrs = {}

PostNext ==
  \/ Next /\ UNCHANGED postVars
  \/ \E o \in Objs : ConvertCommon(o)
  \/ EndCommon
  \/ \E o \in Objs : CheckDuplicates(o)
  \/ EndDups

PostSpec == PostInit /\ [][PostNext]_allVars

(* Every loop runs as tasks of one worker pool, which runs every task it   *)
(* was given, and the driver moves on once a parallel loop has returned:  *)
(* each thread's next step and each barrier is weakly fair.                *)
Fairness ==
  /\ \A f \in Objs : WF_allVars(ResolveObjSym(f) /\ UNCHANGED postVars)
  /\ \A d \in Dylibs : WF_allVars(ResolveDylibSym(d) /\ UNCHANGED postVars)
  /\ \A o \in Objs : WF_allVars(MarkLiveSym(o) /\ UNCHANGED postVars)
  /\ \A f \in Files : WF_allVars(ClearSymbols(f) /\ UNCHANGED postVars)
  /\ WF_allVars((EndResolve1 \/ EndMark \/ EndClear \/ EndResolve2)
                  /\ UNCHANGED postVars)
  /\ \A o \in Objs : WF_allVars(ConvertCommon(o) \/ CheckDuplicates(o))
  /\ WF_allVars(EndCommon \/ EndDups)

FairSpec == PostSpec /\ Fairness

-----------------------------------------------------------------------------
PostTypeOK ==
  /\ TypeOK
  /\ post \in {"common", "dups", "end"}
  /\ converted \subseteq Objs /\ checked \subseteq Objs
  /\ commonSec \in [Objs -> Seq(Names)]
  /\ dupErrs \subseteq Objs \X Names \X Files

(* The driver's pipeline terminates: every resolve_symbols and             *)
(* mark_live_objects thread finishes its loop, the work list drains, and   *)
(* the duplicate check is reached -- under the pool's fairness alone,      *)
(* whatever order the threads run in.                                      *)
Termination == <>(post = "end")

(* Section 4.7, common-symbol materialisation: once every live object has *)
(* run convert_common_symbols, no symbol is left common -- which needs the *)
(* second round to have left every symbol with a live owner, since only    *)
(* live objects convert, and clear_symbols to have reset those a dead      *)
(* archive member won in the first round.                                  *)
CommonsCleared == post # "common" => \A n \in Names : ~sym[n].common

(* Scenario 3 of section 8, across the whole link: once every live object *)
(* has run convert_common_symbols, no common symbol has two __common       *)
(* subsections -- not from two objects (only the owner converts), nor from *)
(* two common entries of one name in an object (the first clears          *)
(* is_common, which the second re-reads).                                  *)
CommonsMaterialised ==
  post # "common" =>
    \A o1, o2 \in Objs :
      \A k \in 1 .. Len(commonSec[o1]), l \in 1 .. Len(commonSec[o2]) :
        commonSec[o1][k] = commonSec[o2][l] => o1 = o2 /\ k = l

(* A live object strongly defines n (non-weak N_SECT or N_ABS, extern).    *)
StrongDefiner(o, n) ==
  alive[o] /\ \E i \in 1 .. NumSyms(o) : StrongDefAt(o, i) /\ ObjTab[o][i].name = n

(* o strongly defines n after w, the first strong definer of n.           *)
IsDuplicate(o, n, w) ==
  /\ StrongDefiner(o, n) /\ StrongDefiner(w, n) /\ Prio[w] < Prio[o]
  /\ \A u \in Objs : StrongDefiner(u, n) => Prio[w] <= Prio[u]

(* Scenario 7 of section 8: once the check has run on every live object,   *)
(* the reports are exactly one per strong definer that is not the first   *)
(* on the command line among the strong definers of its name, and each    *)
(* names that first definer as the winner.                                 *)
DuplicatesReported ==
  post = "end" =>
    dupErrs = {t \in Objs \X Names \X Objs : IsDuplicate(t[1], t[2], t[3])}
=============================================================================
