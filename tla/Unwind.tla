------------------------------- MODULE Unwind -------------------------------
(***************************************************************************)
(* The last step of ObjectFile::parse (src/macho/input-files.cc):          *)
(* parse_compact_unwind reads the __LD,__compact_unwind entries and their  *)
(* relocations, attaches each record to the subsection of its code_start   *)
(* with find_subsection, resolves personality and LSDA references, sorts   *)
(* the records by (subsection address, offset) and gives every subsection  *)
(* the range of records that belongs to it.                                *)
(*                                                                         *)
(* It runs in the same call as the split of Splitter, on the subsections   *)
(* that the split has just produced, so each parse outcome of Splitter is  *)
(* extended here with what parse_compact_unwind does after it.  A Fatal    *)
(* in parse_compact_unwind ends the object with ustage = "fatal".          *)
(***************************************************************************)
EXTENDS Splitter

CONSTANTS
  EntryTabs,  \* candidate contents of __compact_unwind: one record per entry
  RelocTabs   \* candidate relocation tables of __compact_unwind

(* sizeof(CompactUnwindEntry) and offsetof its code_start, personality     *)
(* and lsda fields.                                                        *)
EntrySize == 32
CodeStartOff == 0
PersonalityOff == 16
LsdaOff == 24

(* An entry's fields that parse_compact_unwind reads: code_start and the  *)
(* 32-bit words at the personality and lsda fields (code_len and encoding *)
(* are copied and never looked at).  A relocation: r_address, r_pcrel,     *)
(* r_length, r_type, r_extern and r_symbolnum.                             *)
EntryRec == [codeStart : Nat, personality : Nat, lsda : Nat]
RelocRec == [offset : Nat, pcrel : BOOLEAN, p2size : Nat, type : Nat,
             ext : BOOLEAN, idx : Nat]

(* The relocations an assembler emits reference entries of the section    *)
(* contents and symbols of the table (r.idx of an extern relocation is an *)
(* index into mach_syms).                                                  *)
UnwindInputAssumption ==
  /\ EntryTabs \subseteq Seq(EntryRec)
  /\ RelocTabs \subseteq Seq(RelocRec)
  /\ \A st \in SectTabs, et \in EntryTabs, rt \in RelocTabs, mt \in SymTabs :
       \A i \in 1 .. Len(st) : st[i].kind = "unwind" =>
         /\ st[i].size \div EntrySize <= Len(et)
         /\ \A k \in 1 .. Len(rt) : rt[k].ext => rt[k].idx < Len(mt)
ASSUME UnwindInputAssumption

VARIABLES
  entries,  \* the __compact_unwind section contents
  relocs,   \* its relocations
  records,  \* ObjectFile::unwind_records
  unwind,   \* subsection id -> [off |-> unwind_offset, n |-> nunwind]
  ustage    \* "wait" until parse_compact_unwind has run, "done" or "fatal"

uvars == <<entries, relocs, records, unwind, ustage>>
allVars == <<vars, uvars>>

-----------------------------------------------------------------------------
(* find_symbol: the first extern entry of mach_syms whose value is addr,  *)
(* whatever its type; 0 for nullptr.                                       *)
FindSymbol(addr) ==
  LET hits == {j \in 1 .. Len(msyms) : msyms[j].ext /\ msyms[j].value = addr}
  IN IF hits = {} THEN 0 ELSE MinOf(hits)

(* The last __LD,__compact_unwind header parse_sections saw (unwind_sec).  *)
UnwindSects == {i \in 1 .. Len(sects) : sects[i].kind = "unwind"}
UnwindSect == CHOOSE i \in UnwindSects : \A k \in UnwindSects : k <= i

(* A record as emplace_back(code_len, encoding) leaves it: no subsection, *)
(* no personality, no LSDA.                                                *)
EmptyRec == [subsec |-> 0, offset |-> 0, personality |-> 0, lsda |-> 0, lsdaOff |-> 0]

(* Mutant: an extern personality takes the symbol after r_symbolnum.       *)
PersonalityOf_NextSym(r) == r.idx + 2

(* dst.personality = this->syms[r.idx], as a 1-based symbol index.         *)
PersonalityOf(r) == r.idx + 1

(* One turn of the relocation loop over the records so far, on the new    *)
(* subsections ss.  Every `error()` and Fatal sets fatal; nothing after a  *)
(* Fatal happens, so a fatal accumulator is passed on as it is.            *)
RelocStep(ss, hsize, acc, r) ==
  LET idx == r.offset \div EntrySize + 1
      e == entries[idx]
      fail == [acc EXCEPT !.fatal = TRUE]
      at(addr) == FindSubsection(ss, addr)
  IN IF acc.fatal THEN acc
     ELSE IF r.offset >= hsize THEN fail
     ELSE IF r.pcrel \/ r.p2size # 3 \/ r.type # 0 THEN fail
     ELSE CASE r.offset % EntrySize = CodeStartOff ->
                 IF r.ext \/ at(e.codeStart) = 0 THEN fail
                 ELSE [acc EXCEPT !.recs[idx].subsec = at(e.codeStart),
                                  !.recs[idx].offset =
                                     e.codeStart - SubsecById(ss, at(e.codeStart)).addr]
            [] r.offset % EntrySize = PersonalityOff ->
                 IF r.ext THEN [acc EXCEPT !.recs[idx].personality = PersonalityOf(r)]
                 ELSE IF FindSymbol(e.personality) = 0 THEN fail
                 ELSE [acc EXCEPT !.recs[idx].personality = FindSymbol(e.personality)]
            [] r.offset % EntrySize = LsdaOff ->
                 IF r.ext \/ at(e.lsda) = 0 THEN fail
                 ELSE [acc EXCEPT !.recs[idx].lsda = at(e.lsda),
                                  !.recs[idx].lsdaOff =
                                     e.lsda - SubsecById(ss, at(e.lsda)).addr]
            [] OTHER -> fail

(* The relocation loop, from num_entries empty records.                    *)
ReadRelocs(ss, hsize) ==
  LET n == hsize \div EntrySize
      acc[k \in 0 .. Len(relocs)] ==
        IF k = 0 THEN [recs |-> [i \in 1 .. n |-> EmptyRec], fatal |-> FALSE]
        ELSE RelocStep(ss, hsize, acc[k - 1], relocs[k])
  IN acc[Len(relocs)]

(* Mutant: the records are compared by offset alone.                       *)
RecLess_OffsetOnly(ss, a, b) == a.offset < b.offset

(* std::tuple(a.subsec->input_addr, a.offset) < the same of b.             *)
RecLess(ss, a, b) ==
  LET aa == SubsecById(ss, a.subsec).addr
      ba == SubsecById(ss, b.subsec).addr
  IN aa < ba \/ (aa = ba /\ a.offset < b.offset)

(* mold's sort() with that comparator, stable like SortByAddr.             *)
SortRecords(ss, rs) ==
  LET pos(j) == 1 + Cardinality({k \in 1 .. Len(rs) :
                                   \/ RecLess(ss, rs[k], rs[j])
                                   \/ ~RecLess(ss, rs[j], rs[k]) /\ k < j})
  IN [p \in 1 .. Len(rs) |-> rs[CHOOSE j \in 1 .. Len(rs) : pos(j) = p]]

(* The association loop: each maximal run of records with one subsection  *)
(* sets that subsection's unwind_offset (0-based) and nunwind; when a      *)
(* subsection has several runs the last one is what stays.                 *)
RunStart(rs, i) == i = 1 \/ rs[i].subsec # rs[i - 1].subsec
RunEnd(rs, i) ==
  MinOf({j \in i + 1 .. Len(rs) + 1 : j = Len(rs) + 1 \/ rs[j].subsec # rs[i].subsec})
Associate(rs) ==
  [s \in {rs[i].subsec : i \in 1 .. Len(rs)} |->
     LET i == CHOOSE i \in 1 .. Len(rs) :
                /\ RunStart(rs, i) /\ rs[i].subsec = s
                /\ \A k \in i + 1 .. Len(rs) : RunStart(rs, k) => rs[k].subsec # s
     IN [off |-> i - 1, n |-> RunEnd(rs, i) - i]]

(* parse_compact_unwind on the subsections ss the split produced; without *)
(* a __compact_unwind section it is not called.                            *)
CompactUnwind(ss) ==
  IF UnwindSects = {}
  THEN records' = << >> /\ unwind' = [s \in {} |-> 0] /\ ustage' = "done"
  ELSE LET hsize == sects[UnwindSect].size
           acc == ReadRelocs(ss, hsize)
           rs == SortRecords(ss, acc.recs)
       IN IF \/ hsize % EntrySize # 0
             \/ acc.fatal
             \/ \E i \in DOMAIN acc.recs : acc.recs[i].subsec = 0
          THEN ustage' = "fatal" /\ UNCHANGED <<records, unwind>>
          ELSE records' = rs /\ unwind' = Associate(rs) /\ ustage' = "done"

-----------------------------------------------------------------------------
UInit ==
  /\ Init
  /\ entries \in EntryTabs
  /\ relocs \in RelocTabs
  /\ records = << >>
  /\ unwind = [s \in {} |-> 0]
  /\ ustage = "wait"

(* ObjectFile::parse, each outcome of the split followed by                *)
(* parse_compact_unwind; the corrupt-__cstring Fatal stops before it.      *)
UParseViaSymbols ==
  ParseViaSymbols /\ CompactUnwind(subsections') /\ UNCHANGED <<entries, relocs>>
UParseBySections ==
  ParseBySections /\ CompactUnwind(subsections') /\ UNCHANGED <<entries, relocs>>
UParseCorrupt == ParseCorrupt /\ UNCHANGED uvars

UNext == UParseViaSymbols \/ UParseBySections \/ UParseCorrupt

USpec == UInit /\ [][UNext]_allVars

-----------------------------------------------------------------------------
UnwindRecRec ==
  [subsec : Nat, offset : Nat, personality : Nat, lsda : Nat, lsdaOff : Nat]

(* Type invariant: once parse_compact_unwind has returned, every record   *)
(* names a subsection of the object, a personality that is 0 or an index  *)
(* of mach_syms, and an LSDA subsection or none.                           *)
UnwindTypeOK ==
  /\ TypeOK
  /\ entries \in EntryTabs /\ relocs \in RelocTabs
  /\ ustage \in {"wait", "done", "fatal"}
  /\ records \in Seq(UnwindRecRec)
  /\ ustage = "done" =>
       \A i \in 1 .. Len(records) :
         /\ records[i].subsec \in Ids
         /\ records[i].personality \in 0 .. Len(msyms)
         /\ records[i].lsda \in Ids \cup {0}

(* Section 8, "unwind attach", after parse_compact_unwind: the records of *)
(* each subsection s are exactly [unwind_offset, unwind_offset + nunwind)  *)
(* and are sorted by offset -- the sort and the association loop together *)
(* must leave no subsection with its records in two runs.                 *)
UnwindAttach ==
  ustage = "done" =>
    \A s \in Ids :
      LET mine == {i \in 1 .. Len(records) : records[i].subsec = s}
      IN /\ mine = IF s \in DOMAIN unwind
                   THEN unwind[s].off + 1 .. unwind[s].off + unwind[s].n
                   ELSE {}
         /\ \A i, j \in mine : i < j => records[i].offset <= records[j].offset

(* Section 4.3: code_start and the LSDA address are located in the         *)
(* subsection containing them, so a record's offset and lsda_offset fall   *)
(* inside its subsection -- for code_start and LSDA addresses that some    *)
(* subsection covers (find_subsection checks no size: hazard 442).         *)
RecordInSubsec ==
  ustage = "done" =>
    \A i \in 1 .. Len(records) :
      /\ records[i].offset < Sub(records[i].subsec).size
      /\ records[i].lsda # 0 => records[i].lsdaOff < Sub(records[i].lsda).size

(* Section 4.3: a local personality reference resolves to the extern      *)
(* symbol defined at the address it holds, and parse fails when there is  *)
(* none.  find_symbol compares msym.value alone, so an undefined extern    *)
(* (value 0) or a common one (value = its size) matches too.              *)
PersonalityLocalDefined ==
  ustage = "done" =>
    \A k \in 1 .. Len(relocs) :
      (~relocs[k].ext /\ relocs[k].offset % EntrySize = PersonalityOff) =>
        \E j \in 1 .. Len(msyms) :
          /\ msyms[j].ext /\ msyms[j].type \in {"sect", "abs"}
          /\ msyms[j].value = entries[relocs[k].offset \div EntrySize + 1].personality
=============================================================================
