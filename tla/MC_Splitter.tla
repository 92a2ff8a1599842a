---------------------------- MODULE MC_Splitter ----------------------------
(***************************************************************************)
(* One object: __TEXT,__text at 0 (size 4), __TEXT,__cstring at 4 (size   *)
(* 4), __LD,__compact_unwind at 8 (size 2), __DATA,__data at 10 (size 2).  *)
(* The symbol tables are every table of up to three symbols drawn from a   *)
(* few candidates per section.                                             *)
(***************************************************************************)
EXTENDS Splitter

Sect(kind, addr, size, p2align, bytes) ==
  [kind |-> kind, addr |-> addr, size |-> size, p2align |-> p2align, bytes |-> bytes]

(* The __cstring contents: "a\0b\0", "\0a\0\0", and "a\0bc" with no NUL   *)
(* after its last string.                                                  *)
CStrContents == {<< 1, 0, 1, 0 >>, << 0, 1, 0, 0 >>, << 1, 0, 1, 1 >>}

MCSectTabs ==
  { << Sect("regular", 0, 4, 2, << >>), Sect("cstring", 4, 4, 1, b),
       Sect("unwind", 8, 2, 3, << >>), Sect("regular", 10, 2, 3, << >>) >> :
    b \in CStrContents }

Sym(sect, value, ext, alt) ==
  [type |-> "sect", sect |-> sect, value |-> value, ext |-> ext, alt |-> alt]
AbsSym == [type |-> "abs", sect |-> 0, value |-> 7, ext |-> FALSE, alt |-> FALSE]

(* Candidates: __text symbols at offsets 0 and 2, any linkage, alt-entry  *)
(* or not; local labels at the first two bytes of __cstring; a __data     *)
(* symbol; an absolute symbol.                                             *)
Candidates ==
  {Sym(1, v, e, a) : v \in {0, 2}, e \in BOOLEAN, a \in BOOLEAN}
  \cup {Sym(2, v, FALSE, FALSE) : v \in {4, 5}}
  \cup {Sym(4, 10, e, FALSE) : e \in BOOLEAN}
  \cup {AbsSym}

UpTo3(C) == UNION {[1 .. n -> C] : n \in 0 .. 3}

(* An alt-entry symbol continues a non-alt-entry symbol of its section     *)
(* placed before it: at a lower address, or at the same address and        *)
(* earlier in the table.                                                   *)
AltFollowsPrimary(t) ==
  \A j \in DOMAIN t : t[j].alt =>
    \E k \in DOMAIN t :
      /\ ~t[k].alt /\ t[k].sect = t[j].sect
      /\ \/ t[k].value < t[j].value
         \/ t[k].value = t[j].value /\ k < j

MCSymTabs == {t \in UpTo3(Candidates) : AltFollowsPrimary(t)}

(* The same, with the primary allowed anywhere in the table: an assembler *)
(* lists extern symbols by name, so `_a` (alt-entry) precedes `_z` at the  *)
(* same address.                                                           *)
AltHasPrimary(t) ==
  \A j \in DOMAIN t : t[j].alt =>
    \E k \in DOMAIN t :
      ~t[k].alt /\ t[k].sect = t[j].sect /\ t[k].value <= t[j].value
AnyOrderSymTabs == {t \in UpTo3(Candidates) : AltHasPrimary(t)}

(* A local ltmp label at the start of __compact_unwind.                    *)
UnwindLabelSymTabs == {<< Sym(3, 8, FALSE, FALSE) >>, << Sym(1, 0, FALSE, FALSE), Sym(3, 8, FALSE, FALSE) >>}

(* An extern symbol at the start of __cstring.                             *)
ExternCStrSymTabs == {<< Sym(2, 4, TRUE, FALSE) >>}
=============================================================================
