----------------------------- MODULE MC_Dylib -----------------------------
(***************************************************************************)
(* Dylib instances.  Names are built from the letters 1 and 2.  libbar is  *)
(* a binary dylib whose export trie holds 1 (strong) and 12 (weak), and    *)
(* which reexports /usr/lib/libfoo.dylib and libbaz.tbd; libfoo reexports  *)
(* libbaz too, so libbaz is reached twice.  The file system varies: which  *)
(* roots hold libfoo (as a stub or a binary), and whether libbaz is a      *)
(* dylib at all.                                                           *)
(***************************************************************************)
EXTENDS Dylib, TLC

MCRoots == << "/sdk1", "/sdk2" >>
MCCwd == "."

Path(abs, stem, ext) == [abs |-> abs, stem |-> stem, ext |-> ext]
FooPath == Path(TRUE, "/usr/lib/libfoo", "dylib")
BazPath == Path(FALSE, "libbaz", "tbd")

(* A node without a terminal, and a terminal node with its flags.         *)
Inner(kids) == [size |-> 0, flags |-> 0, kids |-> kids]
Term(flags, kids) == [size |-> 3, flags |-> flags, kids |-> kids]
Kid(sfx, off) == [sfx |-> sfx, off |-> off]

(* 1 is a terminal with flags 0, 12 one with the weak-definition flag.     *)
BarTrie ==
  (0 :> Inner(<< Kid(<< 1 >>, 1) >>)) @@
  (1 :> Term(0, << Kid(<< 2 >>, 2) >>)) @@
  (2 :> Term(WeakDefFlag, << >>))

(* 2 is thread-local (flags 1), 21 weak.                                   *)
FooTrie ==
  (0 :> Inner(<< Kid(<< 2 >>, 1) >>)) @@
  (1 :> Term(1, << Kid(<< 1 >>, 2) >>)) @@
  (2 :> Term(WeakDefFlag, << >>))

Bar ==
  [kind |-> "dylib",
   cmds |-> << [cmd |-> "id", name |-> "libbar"],
               [cmd |-> "info", off |-> 8, trie |-> BarTrie],
               [cmd |-> "reexport", path |-> FooPath],
               [cmd |-> "reexport", path |-> BazPath] >>]

FooStub ==
  [kind |-> "tapi", install |-> "libfoo", reexports |-> << BazPath >>,
   exports |-> {<< 2 >>}, weak |-> {<< 1 >>, << 2, 1 >>}]

FooBinary ==
  [kind |-> "dylib",
   cmds |-> << [cmd |-> "info", off |-> 0, trie |-> BarTrie],
               [cmd |-> "trie", trie |-> FooTrie],
               [cmd |-> "id", name |-> "libfoo"],
               [cmd |-> "reexport", path |-> BazPath] >>]

(* libbaz exports 12 strongly, which libbar only weak-exports.              *)
BazStub ==
  [kind |-> "tapi", install |-> "libbaz", reexports |-> << >>,
   exports |-> {<< 1, 2 >>}, weak |-> {<< 1 >>}]

NotADylib == [kind |-> "other"]

BarFile == << ".", "libbar", << "dylib" >> >>
BazFile == << ".", "libbaz", << "tbd" >> >>

MCFileSystems ==
  { (BarFile :> Bar) @@ (BazFile :> baz) @@ foo1 @@ foo2 :
      baz \in {BazStub, NotADylib},
      foo1 \in {<< >>, << "/sdk1", "/usr/lib/libfoo", << "tbd" >> >> :> FooStub,
                << "/sdk1", "/usr/lib/libfoo", << "dylib", "tbd" >> >> :> FooStub},
      foo2 \in {<< >>, << "/sdk2", "/usr/lib/libfoo", << "dylib" >> >> :> FooBinary,
                << "/sdk2", "/usr/lib/libfoo", << "tbd" >> >> :> FooStub} }

Req(file, weak, needed) == [file |-> file, weak |-> weak, needed |-> needed, reexport |-> FALSE]

MCTopLibs == << Req(BarFile, TRUE, FALSE), Req(BazFile, FALSE, TRUE) >>

(* Cycles: libbar reexports libfoo, which reexports libbar; and a trie     *)
(* whose node 1 has node 0 as a child.                                     *)
CyclicFoo ==
  [FooStub EXCEPT !.reexports = << Path(FALSE, "libbar", "dylib") >>]

LoopTrie ==
  (0 :> Inner(<< Kid(<< 1 >>, 1) >>)) @@
  (1 :> Term(0, << Kid(<< 2 >>, 0) >>))

CycleFileSystems ==
  { (BarFile :> Bar) @@ (BazFile :> BazStub) @@
      (<< "/sdk1", "/usr/lib/libfoo", << "tbd" >> >> :> CyclicFoo),
    (BarFile :> [Bar EXCEPT !.cmds[2].trie = LoopTrie]) @@ (BazFile :> BazStub) @@
      (<< "/sdk1", "/usr/lib/libfoo", << "tbd" >> >> :> FooStub) }
=============================================================================
