------------------------------- MODULE Dylib -------------------------------
(***************************************************************************)
(* DylibFile::create and what it calls (src/macho/input-files.cc): a       *)
(* dylib or .tbd is parsed (parse_tapi, or parse_dylib with read_trie on   *)
(* the export trie), then every reexported library is located with         *)
(* find_external_lib and created recursively, and its export sets are      *)
(* merged into the parent's with std::set::merge.  Finally the dylib's     *)
(* syms are materialised from its exports and weak exports.                *)
(*                                                                         *)
(* The recursion is a call stack: a frame is a DylibFile in the pool and   *)
(* the index of the reexport loop.  A file system (which names exist and   *)
(* what each holds) is picked by Init and never changes.  Names are        *)
(* sequences of letters, so that the trie can build them and std::set can  *)
(* order them.                                                             *)
(***************************************************************************)
EXTENDS Naturals, Sequences, SequencesExt, FiniteSets

CONSTANTS
  FileSystems,     \* the possible file systems: file name -> library image
  Roots,           \* ctx.arg.syslibroot, in order
  Cwd,             \* the directory a relative path is opened in
  TopLibs,         \* the dylibs of the command line, in order
  DeadStripDylibs, \* -dead_strip_dylibs
  NoFile           \* find_external_lib's nullptr

(* The flags value of a weak-definition terminal in the export trie.      *)
WeakDefFlag == 4

VARIABLES
  fs,     \* the file system
  stage,  \* "run", then "done", "fatal" (Fatal) or "crash" (stack overflow)
  top,    \* how many command-line dylibs the driver has created
  pool,   \* ctx.dylib_pool: the DylibFile objects, in creation order
  stack   \* the create() calls in progress: [idx (in pool), next (loop index)]

vars == <<fs, stage, top, pool, stack>>

-----------------------------------------------------------------------------
(* std::set<std::string_view> orders names lexicographically.              *)
LexLess(a, b) ==
  \E k \in 0 .. Len(a) :
    /\ k <= Len(b) /\ SubSeq(a, 1, k) = SubSeq(b, 1, k)
    /\ \/ k = Len(a) /\ k < Len(b)
       \/ k < Len(a) /\ k < Len(b) /\ a[k + 1] < b[k + 1]

SortedNames(S) == SetToSortSeq(S, LexLess)

(* read_trie: the node at off holds its terminal size (0: no terminal),   *)
(* the terminal's flags, and children, each a suffix and an offset.  A terminal whose flags are the  *)
(* weak-definition flag adds the name to weak_exports, any other to        *)
(* exports.  Nothing stops a child offset from leading back to a node on   *)
(* the current path, and then the recursion never returns: 'overflow'.     *)
RECURSIVE ReadTrie(_, _, _, _)
ReadTrie(t, off, prefix, path) ==
  IF off \in path
  THEN [exports |-> {}, weak |-> {}, overflow |-> TRUE]
  ELSE
    LET node == t[off]
        subs == {ReadTrie(t, node.kids[k].off, prefix \o node.kids[k].sfx,
                          path \cup {off}) : k \in 1 .. Len(node.kids)}
    IN [exports |-> (IF node.size # 0 /\ node.flags # WeakDefFlag
                     THEN {prefix} ELSE {}) \cup UNION {r.exports : r \in subs},
        weak |-> (IF node.size # 0 /\ node.flags = WeakDefFlag THEN {prefix} ELSE {})
                  \cup UNION {r.weak : r \in subs},
        overflow |-> \E r \in subs : r.overflow]

NoParse ==
  [install |-> "", reexports |-> << >>, exports |-> {}, weak |-> {},
   overflow |-> FALSE]

(* One load command of parse_dylib.  LC_DYLD_INFO_ONLY is read only when   *)
(* its export_off is not 0; a trie read twice adds nothing new.            *)
LoadCmd(acc, c) ==
  CASE c.cmd = "id" -> [acc EXCEPT !.install = c.name]
    [] c.cmd = "trie" \/ (c.cmd = "info" /\ c.off # 0) ->
         LET r == ReadTrie(c.trie, 0, << >>, {}) IN
         [acc EXCEPT !.exports = @ \cup r.exports, !.weak = @ \cup r.weak,
                     !.overflow = @ \/ r.overflow]
    [] c.cmd = "reexport" -> [acc EXCEPT !.reexports = Append(@, c.path)]
    [] OTHER -> acc

(* parse_tapi takes the stub parser's result as it is; parse_dylib walks  *)
(* the load commands in order.                                             *)
Parse(img) ==
  IF img.kind = "tapi"
  THEN [install |-> img.install, reexports |-> img.reexports,
        exports |-> img.exports, weak |-> img.weak, overflow |-> FALSE]
  ELSE FoldLeft(LoadCmd, NoParse, img.cmds)

-----------------------------------------------------------------------------
(* find_external_lib.  A file name is <<directory, stem, extensions>>; a   *)
(* path is absolute or not, with a stem and an extension ("" for none).    *)
Exts(p) == IF p.ext = "" THEN << >> ELSE << p.ext >>

RootCandidates(r, p) ==
  IF p.ext = "tbd" THEN << << r, p.stem, << "tbd" >> >> >>
  ELSE (IF p.ext = "dylib"
        THEN << << r, p.stem, << "tbd" >> >>, << r, p.stem, << "dylib" >> >> >>
        ELSE << >>)
       \o << << r, p.stem, Exts(p) \o << "tbd" >> >>,
             << r, p.stem, Exts(p) \o << "dylib" >> >> >>

(* A relative path is opened as it is (the parent's install name is not   *)
(* used); an absolute one is tried under every root in order.              *)
FindExternalLib(p) ==
  LET cands == IF ~p.abs THEN << << Cwd, p.stem, Exts(p) >> >>
               ELSE FlattenSeq([k \in 1 .. Len(Roots) |-> RootCandidates(Roots[k], p)])
      found == SelectSeq(cands, LAMBDA c : c \in DOMAIN fs)
  IN IF found = << >> THEN NoFile ELSE Head(found)

-----------------------------------------------------------------------------
(* The first half of DylibFile::create(file): the new DylibFile takes      *)
(* is_alive, is_weak and is_reexported from the -l flags the driver set in *)
(* ctx, joins the pool, and is parsed; a file of another type is fatal.   *)
(* Its call is pushed on frames, the caller's stack.                       *)
Create(file, req, frames) ==
  LET img == fs[file]
      r == Parse(img)
  IN IF img.kind = "other" THEN stage' = "fatal" /\ UNCHANGED <<pool, stack>>
     ELSE IF r.overflow THEN stage' = "crash" /\ UNCHANGED <<pool, stack>>
     ELSE /\ pool' = Append(pool,
                      [file |-> file, alive |-> req.needed \/ ~DeadStripDylibs,
                       weakL |-> req.weak, reexportL |-> req.reexport,
                       install |-> r.install, reexports |-> r.reexports,
                       exports |-> r.exports, weakExports |-> r.weak,
                       syms |-> << >>, done |-> FALSE])
          /\ stack' = Append(frames, [idx |-> Len(pool) + 1, next |-> 1])
          /\ UNCHANGED stage

(* The driver creates the command-line dylibs one after the other.         *)
CreateTop ==
  /\ stage = "run" /\ stack = << >> /\ top < Len(TopLibs)
  /\ top' = top + 1
  /\ Create(TopLibs[top + 1].file, TopLibs[top + 1], stack)
  /\ UNCHANGED fs

(* The file's create() is already on the stack: the call repeats it, with  *)
(* the same file system and flags, for ever.                               *)
OnStack(file) == \E k \in 1 .. Len(stack) : pool[stack[k].idx].file = file

(* Mutant: the loop index moves on when the child is opened as well as    *)
(* when it returns.                                                        *)
OpenReexport_EarlyAdvance ==
  /\ stage = "run" /\ stack # << >>
  /\ LET fr == stack[Len(stack)]
         d == pool[fr.idx]
     IN /\ fr.next <= Len(d.reexports)
        /\ LET file == FindExternalLib(d.reexports[fr.next]) IN
           IF file = NoFile THEN stage' = "fatal" /\ UNCHANGED <<pool, stack>>
           ELSE IF OnStack(file) THEN stage' = "crash" /\ UNCHANGED <<pool, stack>>
           ELSE Create(file, TopLibs[top],
                       [stack EXCEPT ![Len(stack)].next = @ + 1])
  /\ UNCHANGED <<fs, top>>

(* One turn of the reexport loop: the library is located and created; a   *)
(* path that cannot be opened is fatal.                                    *)
OpenReexport ==
  /\ stage = "run" /\ stack # << >>
  /\ LET fr == stack[Len(stack)]
         d == pool[fr.idx]
     IN /\ fr.next <= Len(d.reexports)
        /\ LET file == FindExternalLib(d.reexports[fr.next]) IN
           IF file = NoFile THEN stage' = "fatal" /\ UNCHANGED <<pool, stack>>
           ELSE IF OnStack(file) THEN stage' = "crash" /\ UNCHANGED <<pool, stack>>
           ELSE Create(file, TopLibs[top], stack)
  /\ UNCHANGED <<fs, top>>

(* The names of syms, in order: every export, then every weak export that  *)
(* is not also an export, flagged in is_weak_symbol.                       *)
(* Mutant: the exports.contains test is dropped.                           *)
WeakOnly_Any(d, n) == TRUE

WeakOnly(d, n) == n \notin d.exports

SymsOf(d) ==
  [k \in 1 .. Cardinality(d.exports) |->
     [name |-> SortedNames(d.exports)[k], weak |-> FALSE]]
  \o LET ws == SelectSeq(SortedNames(d.weakExports), LAMBDA n : WeakOnly(d, n))
     IN [k \in 1 .. Len(ws) |-> [name |-> ws[k], weak |-> TRUE]]

(* Mutant: only the strong exports are merged.                             *)
MergeChild_NoWeak(p, c) ==
  [p EXCEPT !.exports = @ \cup c.exports]

(* dylib->exports.merge(child->exports) and the same for weak_exports.    *)
MergeChild(p, c) ==
  [p EXCEPT !.exports = @ \cup c.exports, !.weakExports = @ \cup c.weakExports]

(* std::set::merge moves a name out of the child only when the parent did  *)
(* not have it: the child keeps just the names both had.                   *)
Drained(p, c) ==
  [c EXCEPT !.exports = @ \cap p.exports, !.weakExports = @ \cap p.weakExports]

(* The end of create(): syms are materialised and the call returns; the   *)
(* caller merges the child's sets into its own and moves to its next      *)
(* reexport.                                                               *)
Finish ==
  /\ stage = "run" /\ stack # << >>
  /\ LET fr == stack[Len(stack)]
         c == [pool[fr.idx] EXCEPT !.syms = SymsOf(pool[fr.idx]), !.done = TRUE]
     IN /\ fr.next > Len(c.reexports)
        /\ IF Len(stack) = 1
           THEN /\ pool' = [pool EXCEPT ![fr.idx] = c]
                /\ stack' = << >>
           ELSE LET pi == stack[Len(stack) - 1].idx IN
                /\ pool' = [pool EXCEPT ![fr.idx] = Drained(pool[pi], c),
                                        ![pi] = MergeChild(pool[pi], c)]
                /\ stack' = [Front(stack) EXCEPT ![Len(stack) - 1].next = @ + 1]
  /\ UNCHANGED <<fs, stage, top>>

(* Every command-line dylib has been created.                              *)
AllCreated ==
  /\ stage = "run" /\ stack = << >> /\ top = Len(TopLibs)
  /\ stage' = "done"
  /\ UNCHANGED <<fs, top, pool, stack>>

Init ==
  /\ fs \in FileSystems
  /\ stage = "run"
  /\ top = 0
  /\ pool = << >>
  /\ stack = << >>

Next == CreateTop \/ OpenReexport \/ Finish \/ AllCreated

Spec == Init /\ [][Next]_vars

-----------------------------------------------------------------------------
DylibRec ==
  [file : DOMAIN fs, alive : BOOLEAN, weakL : BOOLEAN, reexportL : BOOLEAN,
   install : STRING, reexports : Seq([abs : BOOLEAN, stem : STRING, ext : STRING]),
   exports : SUBSET Seq(Nat), weakExports : SUBSET Seq(Nat),
   syms : Seq([name : Seq(Nat), weak : BOOLEAN]), done : BOOLEAN]

(* Type invariant; each frame's loop index stays within its range-for.     *)
TypeOK ==
  /\ stage \in {"run", "done", "fatal", "crash"}
  /\ top \in 0 .. Len(TopLibs)
  /\ pool \in Seq(DylibRec)
  /\ \A k \in 1 .. Len(stack) :
       /\ stack[k].idx \in 1 .. Len(pool)
       /\ stack[k].next \in 1 .. Len(pool[stack[k].idx].reexports) + 1

(* What parsing a file gives, and the files its reexports open.            *)
Own(f) == IF fs[f].kind = "other" THEN NoParse ELSE Parse(fs[f])

Succ(f) ==
  {FindExternalLib(Own(f).reexports[k]) : k \in 1 .. Len(Own(f).reexports)}
    \ {NoFile}

(* The files reachable from f through reexports, f included.               *)
Reach(f) ==
  LET r[k \in 0 .. Cardinality(DOMAIN fs)] ==
        IF k = 0 THEN {f} ELSE r[k - 1] \cup UNION {Succ(g) : g \in r[k - 1]}
  IN r[Cardinality(DOMAIN fs)]

(* Section 8, 'dylib reexport closure', and section 4.5: a created dylib's *)
(* syms name, once each, every name any library it reexports (directly or  *)
(* through other reexports) exports or weak-exports, and a name is flagged *)
(* weak exactly when none of them exports it strongly -- however the       *)
(* recursion and the set merges of its frames interleave.                  *)
ReexportClosure ==
  \A k \in 1 .. Len(pool) : pool[k].done =>
    LET d == pool[k]
        strong == UNION {Own(g).exports : g \in Reach(d.file)}
        all == strong \cup UNION {Own(g).weak : g \in Reach(d.file)}
    IN /\ {d.syms[j].name : j \in 1 .. Len(d.syms)} = all
       /\ \A j \in 1 .. Len(d.syms) :
            /\ d.syms[j].weak <=> d.syms[j].name \notin strong
            /\ \A l \in 1 .. Len(d.syms) : d.syms[l].name = d.syms[j].name => l = j

(* Section 7: a malformed input ends the link with a diagnostic.  A        *)
(* reexport cycle, or an export trie whose child offsets loop, makes       *)
(* create() or read_trie() recurse until the stack overflows instead.      *)
NoUnboundedRecursion == stage # "crash"
=============================================================================
