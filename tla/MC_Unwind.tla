----------------------------- MODULE MC_Unwind -----------------------------
(***************************************************************************)
(* One object: __TEXT,__text at 4 (size 4), __LD,__compact_unwind at 8     *)
(* with three entries (96 bytes; 40 bytes in the malformed table), and     *)
(* __DATA,__data at 104 (size 4); in a last table, also a __cstring at 112 *)
(* whose one string has no NUL.  Each entry's code_start is below every  *)
(* subsection (0), at either half of __text (4, 6) or in __data (104).    *)
(***************************************************************************)
EXTENDS Unwind

Sect(kind, addr, size, p2align) ==
  [kind |-> kind, addr |-> addr, size |-> size, p2align |-> p2align, bytes |-> << >>]

Base(u) == << Sect("regular", 4, 4, 2), Sect("unwind", 8, u, 3), Sect("regular", 104, 4, 3) >>

MCSectTabs ==
  {Base(96), Base(40),
   Base(96) \o << [Sect("cstring", 112, 1, 0) EXCEPT !.bytes = << 1 >>] >>}

Sym(sect, value, ext) ==
  [type |-> "sect", sect |-> sect, value |-> value, ext |-> ext, alt |-> FALSE]
Undef == [type |-> "undef", sect |-> 0, value |-> 0, ext |-> TRUE, alt |-> FALSE]

(* An object with an extern function at 4, a local label at 6, an extern  *)
(* datum and an undefined reference; and one with only the label made     *)
(* extern.                                                                 *)
MCSymTabs ==
  { << Sym(1, 4, TRUE), Sym(1, 6, FALSE), Sym(3, 104, TRUE), Undef >>,
    << Undef, Sym(1, 6, TRUE) >> }

Entry(c, p) == [codeStart |-> c, personality |-> p, lsda |-> 6]

(* The first entry's personality word holds 4 or 0.                        *)
MCEntryTabs ==
  { << Entry(c1, p), Entry(c2, 0), Entry(c3, 0) >> :
    c1, c2, c3 \in {0, 4, 6, 104}, p \in {0, 4} }

Rel(off, ext, idx) ==
  [offset |-> off, pcrel |-> FALSE, p2size |-> 3, type |-> 0, ext |-> ext, idx |-> idx]

(* code_start of each entry, the first entry's personality (local), the   *)
(* second's LSDA, the third's personality (extern, symbol 1).              *)
Good == << Rel(0, FALSE, 0), Rel(32, FALSE, 0), Rel(64, FALSE, 0),
           Rel(16, FALSE, 0), Rel(56, FALSE, 0), Rel(80, TRUE, 1) >>

(* Also: the third code_start relocation missing; one on code_len; one     *)
(* past the end of the section.                                            *)
MCRelocTabs ==
  { Good, SubSeq(Good, 1, 2) \o SubSeq(Good, 4, 6),
    Good \o << Rel(8, FALSE, 0) >>, << Rel(96, FALSE, 0) >> \o Good }
=============================================================================
