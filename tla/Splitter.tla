------------------------------ MODULE Splitter ------------------------------
(***************************************************************************)
(* ObjectFile::parse for one object (src/macho/input-files.cc): the        *)
(* section table, then either symbol-directed splitting                    *)
(* (split_regular_sections and split_subsections_via_symbols, with the     *)
(* __cstring slicer) or one subsection per section (init_subsections),     *)
(* then the sort of subsections by input_addr and fix_subsec_members.      *)
(* One object is parsed by one thread, so each outcome of parse is a       *)
(* single step; the interest is in the data the step computes.             *)
(*                                                                         *)
(* Offsets and addresses are naturals.  A subsection pointer is the        *)
(* subsection's id (its creation index), 0 is nullptr, and Dangling is     *)
(* what subsections.back() yields on an empty vector.                      *)
(***************************************************************************)
EXTENDS Naturals, Integers, Sequences, FiniteSets

CONSTANTS
  SectTabs,   \* candidate section tables of the object, in load-command order
  SymTabs     \* candidate symbol tables (mach_syms)

Kinds == {"regular", "cstring", "unwind", "debug"}

(* A section header: __TEXT,__cstring is "cstring", __LD,__compact_unwind  *)
(* is "unwind", an S_ATTR_DEBUG section is "debug"; bytes are the contents *)
(* with 0 for NUL (only looked at for __cstring).                          *)
SectRec == [kind : Kinds, addr : Nat, size : Nat, p2align : Nat, bytes : Seq({0, 1})]

(* A MachSym: type N_SECT ("sect"), N_ABS ("abs") or N_UNDF ("undef");     *)
(* parse_symbols rejects a local N_UNDF, and the split ignores undefined   *)
(* externs (find_symbol in Unwind does not).                               *)
MachSym == [type : {"sect", "abs", "undef"}, sect : Nat, value : Nat, ext : BOOLEAN, alt : BOOLEAN]

Dangling == -1

(* The input an assembler can hand over: each N_SECT symbol names a        *)
(* section of the table and lies inside it, and a cstring section's size   *)
(* is its length.                                                          *)
InputAssumption ==
  /\ SectTabs \subseteq Seq(SectRec)
  /\ SymTabs \subseteq Seq(MachSym)
  /\ \A st \in SectTabs :
       /\ \A i \in 1 .. Len(st) :
            st[i].kind = "cstring" => st[i].size = Len(st[i].bytes)
       /\ \A mt \in SymTabs : \A j \in 1 .. Len(mt) :
            mt[j].type = "sect" =>
              /\ mt[j].sect \in 1 .. Len(st)
              /\ st[mt[j].sect].addr <= mt[j].value
              /\ mt[j].value <= st[mt[j].sect].addr + st[mt[j].sect].size
ASSUME InputAssumption

VARIABLES
  stage,        \* "parse", then "done" or "fatal"
  sects,        \* the section headers
  msyms,        \* mach_syms
  viaSyms,      \* MH_SUBSECTIONS_VIA_SYMBOLS in the Mach header
  subsections,  \* ObjectFile::subsections, as subsection records
  symToSubsec,  \* ObjectFile::sym_to_subsec
  symSubsec,    \* Symbol::subsec of each local symbol
  symValue      \* Symbol::value of each local symbol

vars == <<stage, sects, msyms, viaSyms, subsections, symToSubsec, symSubsec, symValue>>

SubsecRec == [id : Nat \ {0}, sect : Nat, off : Nat, size : Nat, addr : Nat, p2align : Nat]

-----------------------------------------------------------------------------
(* Small helpers.                                                          *)
MinOf(S) == CHOOSE m \in S : \A q \in S : m <= q

(* mold's sort(): a stable sort of s by key.  Element j lands at one plus  *)
(* the number of elements that sort before it.                             *)
SortPos(s, key(_), j) ==
  1 + Cardinality({k \in 1 .. Len(s) :
                     key(s[k]) < key(s[j]) \/ (key(s[k]) = key(s[j]) /\ k < j)})
StableSort(s, key(_)) ==
  [p \in 1 .. Len(s) |-> s[CHOOSE j \in 1 .. Len(s) : SortPos(s, key, j) = p]]

(* std::countr_zero of a 64-bit size_t.                                    *)
Ctz(n) == IF n = 0 THEN 64
          ELSE CHOOSE k \in 0 .. 63 : n % 2^k = 0 /\ n % 2^(k + 1) # 0

Indices(s, Test(_)) == SelectSeq([j \in 1 .. Len(s) |-> j], Test)

-----------------------------------------------------------------------------
(* parse_sections: __compact_unwind and debug sections get an empty slot.  *)
Present(i) == sects[i].kind \notin {"unwind", "debug"}

(* split_regular_sections: the sections it splits (vec[i].isec set).       *)
Splits(i) == Present(i) /\ sects[i].kind # "cstring"

(* Mutant: a region's offset is the symbol's address, not its offset.      *)
RawRegions_NoBase(i) ==
  LET js == Indices(msyms, LAMBDA j : msyms[j].type = "sect" /\ msyms[j].sect = i)
  IN [k \in 1 .. Len(js) |->
        [sect |-> i, offset |-> msyms[js[k]].value, size |-> 0,
         symidx |-> js[k], alt |-> msyms[js[k]].alt]]

(* One region per N_SECT symbol of section i, in symbol-table order.  Its  *)
(* size is left uninitialised by the code and only read once the closing   *)
(* loop below has written it, so 0 stands for it.                          *)
RawRegions(i) ==
  LET js == Indices(msyms, LAMBDA j : msyms[j].type = "sect" /\ msyms[j].sect = i)
  IN [k \in 1 .. Len(js) |->
        [sect |-> i, offset |-> msyms[js[k]].value - sects[i].addr, size |-> 0,
         symidx |-> js[k], alt |-> msyms[js[k]].alt]]

(* The fix-up loop `if (r[i-1].offset == r[i].offset) r[i++].is_alt_entry *)
(* = true`: region k is promoted when it collides with k-1 and k-1 was not *)
(* itself promoted, since then the loop skipped k.                         *)
PromoteAltEntries(r) ==
  LET promoted[k \in 1 .. Len(r)] ==
        IF k = 1 THEN FALSE
        ELSE r[k - 1].offset = r[k].offset /\ ~promoted[k - 1]
  IN [k \in 1 .. Len(r) |-> [r[k] EXCEPT !.alt = @ \/ promoted[k]]]

(* The closing loop: a non-alt-entry region runs to the next one, the last *)
(* to the end of the section; alt-entry regions are left alone.            *)
CloseSizes(r, secSize) ==
  [k \in 1 .. Len(r) |->
     IF r[k].alt THEN r[k]
     ELSE LET nxt == {m \in k + 1 .. Len(r) : ~r[m].alt}
          IN [r[k] EXCEPT !.size = IF nxt = {} THEN secSize - r[k].offset
                                   ELSE r[MinOf(nxt)].offset - r[k].offset]]

Gap(i, size) == [sect |-> i, offset |-> 0, size |-> size, symidx |-> 0, alt |-> FALSE]

(* Mutant: no gap region is put before a first symbol past offset 0.       *)
FixRegions_NoPrepend(i) ==
  LET r0 == RawRegions(i)
  IN IF r0 = << >> THEN << Gap(i, sects[i].size) >>
     ELSE CloseSizes(PromoteAltEntries(StableSort(r0, LAMBDA x : x.offset)),
                     sects[i].size)

(* The regions of section i once fixed to cover it.                        *)
FixRegions(i) ==
  LET r0 == RawRegions(i)
      r1 == StableSort(r0, LAMBDA x : x.offset)
      r2 == IF r1[1].offset > 0 THEN << Gap(i, r1[1].offset) >> \o r1 ELSE r1
  IN IF r0 = << >> THEN << Gap(i, sects[i].size) >>
     ELSE CloseSizes(PromoteAltEntries(r2), sects[i].size)

(* The split sections ordered by address, their regions laid end to end.  *)
SplitOrder == StableSort(Indices(sects, Splits), LAMBDA i : sects[i].addr)
Regions ==
  LET cat[n \in 0 .. Len(SplitOrder)] ==
        IF n = 0 THEN << >> ELSE cat[n - 1] \o FixRegions(SplitOrder[n])
  IN cat[Len(SplitOrder)]

-----------------------------------------------------------------------------
(* split_subsections_via_symbols, first loop: `add` for every non-alt-     *)
(* entry region, and sym_to_subsec of a region's symbol set to             *)
(* subsections.back() right after.                                         *)
NAdded(R, k) == Cardinality({m \in 1 .. k : ~R[m].alt})

NewSubsec(id, i, off, size, p2align) ==
  [id |-> id, sect |-> i, off |-> off, size |-> size,
   addr |-> sects[i].addr + off, p2align |-> p2align]

RegularSubsecs(R) ==
  LET adds == Indices(R, LAMBDA k : ~R[k].alt)
  IN [q \in 1 .. Len(adds) |->
        LET r == R[adds[q]]
        IN NewSubsec(q, r.sect, r.offset, r.size, sects[r.sect].p2align)]

(* Mutant: sym_to_subsec is taken before the region's own subsection is    *)
(* added.                                                                  *)
BackAfter_Early(R, k) == NAdded(R, k - 1)

(* The subsection subsections.back() names once region k is handled.       *)
BackAfter(R, k) == NAdded(R, k)

RegionSymToSubsec(R) ==
  [j \in 1 .. Len(msyms) |->
     IF \E k \in 1 .. Len(R) : R[k].symidx = j
     THEN LET k == CHOOSE k \in 1 .. Len(R) : R[k].symidx = j
          IN IF BackAfter(R, k) = 0 THEN Dangling ELSE BackAfter(R, k)
     ELSE 0]

(* The __cstring loop, positions counted from 0: find the next NUL, skip   *)
(* the run of NULs, cut there.  FindFrom answers npos with Len(b).         *)
FindFrom(b, p, isNul) ==
  LET hits == {q \in p .. Len(b) - 1 : (b[q + 1] = 0) = isNul}
  IN IF hits = {} THEN Len(b) ELSE MinOf(hits)
CStrStarts(b) ==
  LET from[p \in 0 .. Len(b)] ==
        IF p >= Len(b) THEN << >>
        ELSE << p >> \o from[FindFrom(b, FindFrom(b, p, TRUE), FALSE)]
  IN from[0]

(* The Fatal "corrupted __TEXT,__cstring": a string with no NUL after it.  *)
CStrCorrupt(i) ==
  \E p \in 0 .. Len(sects[i].bytes) - 1 :
     /\ p \in {CStrStarts(sects[i].bytes)[k] : k \in 1 .. Len(CStrStarts(sects[i].bytes))}
     /\ FindFrom(sects[i].bytes, p, TRUE) = Len(sects[i].bytes)
CStrSects == Indices(sects, LAMBDA i : Present(i) /\ sects[i].kind = "cstring")
AnyCStrCorrupt == \E n \in 1 .. Len(CStrSects) : CStrCorrupt(CStrSects[n])

(* Second loop: one subsection per string, aligned as its start allows.    *)
CStrPieces(i) ==
  LET st == CStrStarts(sects[i].bytes)
      end(k) == IF k = Len(st) THEN sects[i].size ELSE st[k + 1]
  IN [k \in 1 .. Len(st) |->
        [sect |-> i, off |-> st[k], size |-> end(k) - st[k],
         p2align |-> IF Ctz(st[k]) < sects[i].p2align THEN Ctz(st[k])
                     ELSE sects[i].p2align]]
CStrSubsecs(first) ==
  LET cat[n \in 0 .. Len(CStrSects)] ==
        IF n = 0 THEN << >> ELSE cat[n - 1] \o CStrPieces(CStrSects[n])
      ps == cat[Len(CStrSects)]
  IN [q \in 1 .. Len(ps) |->
        NewSubsec(first + q, ps[q].sect, ps[q].off, ps[q].size, ps[q].p2align)]

(* init_subsections: one subsection per present section, its id the       *)
(* section's slot; N_SECT symbols point at their section's slot, null for  *)
(* an empty slot; the null slots are then erased.                          *)
SectionSubsecs ==
  LET ps == Indices(sects, Present)
  IN [q \in 1 .. Len(ps) |->
        NewSubsec(ps[q], ps[q], 0, sects[ps[q]].size, sects[ps[q]].p2align)]
SectionSymToSubsec ==
  [j \in 1 .. Len(msyms) |->
     IF msyms[j].type = "sect" /\ Present(msyms[j].sect) THEN msyms[j].sect ELSE 0]

(* Mutant: equal addresses sort in the reverse of creation order.          *)
SortByAddr_Unstable(ss) ==
  LET rev == [q \in 1 .. Len(ss) |-> ss[Len(ss) + 1 - q]]
  IN StableSort(rev, LAMBDA x : x.addr)

(* parse: `sort(subsections, ... a->input_addr < b->input_addr)`.          *)
SortByAddr(ss) == StableSort(ss, LAMBDA x : x.addr)

(* Mutant: lower_bound, so an address at a subsection's start finds the    *)
(* subsection before it.                                                   *)
FindSubsection_LowerBound(ss, addr) ==
  LET after == {k \in 1 .. Len(ss) : addr <= ss[k].addr}
      it == IF after = {} THEN Len(ss) + 1 ELSE MinOf(after)
  IN IF it = 1 THEN 0 ELSE ss[it - 1].id

(* find_subsection: upper_bound on input_addr, then the subsection before; *)
(* null when the address precedes every subsection.                        *)
FindSubsection(ss, addr) ==
  LET after == {k \in 1 .. Len(ss) : addr < ss[k].addr}
      it == IF after = {} THEN Len(ss) + 1 ELSE MinOf(after)
  IN IF it = 1 THEN 0 ELSE ss[it - 1].id

SubsecById(ss, id) == CHOOSE s \in {ss[k] : k \in 1 .. Len(ss)} : s.id = id

(* fix_subsec_members for local N_SECT symbols: sym_to_subsec, else a      *)
(* search by address; value relative to the subsection's input_addr.       *)
(* A dangling sym_to_subsec leaves value unknown; 0 stands for it.         *)
FixedSubsec(ss, s2s, j) ==
  IF s2s[j] # 0 THEN s2s[j] ELSE FindSubsection(ss, msyms[j].value)
IsLocalSect(j) == ~msyms[j].ext /\ msyms[j].type = "sect"

(* Mutant: the found subsection is recorded but value keeps the address.   *)
LocalValue_NoRebase(ss, s2s, j) ==
  IF FixedSubsec(ss, s2s, j) = Dangling THEN 0 ELSE msyms[j].value

(* sym.value: relative to the subsection found, the address without one.   *)
LocalValue(ss, s2s, j) ==
  CASE FixedSubsec(ss, s2s, j) = 0 -> msyms[j].value
    [] FixedSubsec(ss, s2s, j) = Dangling -> 0
    [] OTHER -> msyms[j].value - SubsecById(ss, FixedSubsec(ss, s2s, j)).addr

FixSubsecMembers(ss, s2s) ==
  /\ symSubsec' = [j \in 1 .. Len(msyms) |->
                     IF IsLocalSect(j) THEN FixedSubsec(ss, s2s, j) ELSE 0]
  /\ symValue' = [j \in 1 .. Len(msyms) |->
                    IF IsLocalSect(j) THEN LocalValue(ss, s2s, j) ELSE msyms[j].value]

-----------------------------------------------------------------------------
Init ==
  /\ stage = "parse"
  /\ sects \in SectTabs
  /\ msyms \in SymTabs
  /\ viaSyms \in BOOLEAN
  /\ subsections = << >>
  /\ symToSubsec = << >>
  /\ symSubsec = << >>
  /\ symValue = << >>

(* parse with MH_SUBSECTIONS_VIA_SYMBOLS: split, sort, fix members.        *)
ParseViaSymbols ==
  /\ stage = "parse"
  /\ viaSyms
  /\ ~AnyCStrCorrupt
  /\ LET R == Regions
         regs == RegularSubsecs(R)
         ss == SortByAddr(regs \o CStrSubsecs(Len(regs)))
         s2s == RegionSymToSubsec(R)
     IN /\ subsections' = ss
        /\ symToSubsec' = s2s
        /\ FixSubsecMembers(ss, s2s)
  /\ stage' = "done"
  /\ UNCHANGED <<sects, msyms, viaSyms>>

(* The same, when a __cstring string has no terminating NUL: Fatal.        *)
ParseCorrupt ==
  /\ stage = "parse"
  /\ viaSyms
  /\ AnyCStrCorrupt
  /\ stage' = "fatal"
  /\ UNCHANGED <<sects, msyms, viaSyms, subsections, symToSubsec, symSubsec, symValue>>

(* parse without the flag: init_subsections, sort, fix members.            *)
ParseBySections ==
  /\ stage = "parse"
  /\ ~viaSyms
  /\ LET ss == SortByAddr(SectionSubsecs)
         s2s == SectionSymToSubsec
     IN /\ subsections' = ss
        /\ symToSubsec' = s2s
        /\ FixSubsecMembers(ss, s2s)
  /\ stage' = "done"
  /\ UNCHANGED <<sects, msyms, viaSyms>>

Next == ParseViaSymbols \/ ParseCorrupt \/ ParseBySections

Spec == Init /\ [][Next]_vars

-----------------------------------------------------------------------------
Ids == {subsections[k].id : k \in 1 .. Len(subsections)}
Sub(id) == SubsecById(subsections, id)
Off(j) == msyms[j].value - sects[msyms[j].sect].addr

(* Type correctness; offsets and sizes are u32 in the code, so a negative  *)
(* one here is a value that wrapped.                                       *)
TypeOK ==
  /\ stage \in {"parse", "done", "fatal"}
  /\ sects \in SectTabs
  /\ msyms \in SymTabs
  /\ viaSyms \in BOOLEAN
  /\ subsections \in Seq(SubsecRec)
  /\ stage = "done" =>
       /\ symToSubsec \in [1 .. Len(msyms) -> Ids \cup {0, Dangling}]
       /\ symSubsec \in [1 .. Len(msyms) -> Ids \cup {0, Dangling}]
       /\ symValue \in [1 .. Len(msyms) -> Nat]

(* Spec invariant 2 and the "subsection cover" property: after parse, the  *)
(* subsections of each present section tile it, every byte in exactly one  *)
(* of them and none running past its end, whichever splitting mode ran.    *)
SubsecCover ==
  stage = "done" =>
    \A i \in 1 .. Len(sects) : Present(i) =>
      LET mine == {k \in 1 .. Len(subsections) : subsections[k].sect = i}
      IN /\ \A k \in mine : subsections[k].off + subsections[k].size <= sects[i].size
         /\ \A b \in 0 .. sects[i].size - 1 :
              Cardinality({k \in mine : /\ subsections[k].off <= b
                                        /\ b < subsections[k].off + subsections[k].size}) = 1

(* The subsection resolve_symbols reads through sym_to_subsec: for every   *)
(* N_SECT symbol of a section that was split (by symbols, or whole in the  *)
(* section mode) it is a subsection of that section and holds the symbol,  *)
(* its end included, so that value - input_addr is an offset into it.      *)
SymToSubsecContains ==
  stage = "done" =>
    \A j \in 1 .. Len(msyms) :
      (msyms[j].type = "sect" /\ IF viaSyms THEN Splits(msyms[j].sect)
                                  ELSE Present(msyms[j].sect)) =>
        /\ symToSubsec[j] \in Ids
        /\ Sub(symToSubsec[j]).sect = msyms[j].sect
        /\ Sub(symToSubsec[j]).off <= Off(j)
        /\ Off(j) <= Sub(symToSubsec[j]).off + Sub(symToSubsec[j]).size

(* Spec invariant 1 and the comment of fix_subsec_members: a local N_SECT  *)
(* symbol of a present section gets a subsection of its own section with   *)
(* 0 <= value <= input_size; one in __compact_unwind keeps a null subsec   *)
(* and its address as value.                                               *)
LocalSubsecCorrect ==
  stage = "done" =>
    \A j \in 1 .. Len(msyms) : IsLocalSect(j) =>
      IF Present(msyms[j].sect)
      THEN /\ symSubsec[j] \in Ids
           /\ Sub(symSubsec[j]).sect = msyms[j].sect
           /\ symValue[j] <= Sub(symSubsec[j]).size
      ELSE symSubsec[j] = 0 /\ symValue[j] = msyms[j].value

(* "Sym-to-subsec correctness": find_subsection on the address of any      *)
(* N_SECT symbol lying inside a non-empty subsection returns that          *)
(* subsection, zero-size subsections left at the same address by the       *)
(* alt-entry fix-up notwithstanding.                                       *)
FindAgrees ==
  stage = "done" =>
    \A j \in 1 .. Len(msyms), k \in 1 .. Len(subsections) :
      LET s == subsections[k]
      IN (msyms[j].type = "sect" /\ s.size > 0
          /\ s.addr <= msyms[j].value /\ msyms[j].value < s.addr + s.size)
         => FindSubsection(subsections, msyms[j].value) = s.id

(* The crash resolve_symbols would hit: every extern N_SECT symbol has a   *)
(* non-null sym_to_subsec (it is dereferenced when the symbol wins).       *)
ExternSubsecSet ==
  stage = "done" =>
    \A j \in 1 .. Len(msyms) :
      (msyms[j].ext /\ msyms[j].type = "sect") => symToSubsec[j] > 0
=============================================================================
