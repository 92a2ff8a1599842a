--------------------------- MODULE ResolutionSpec ---------------------------
(***************************************************************************)
(* What global resolution promises (spec sections 2 and 4.7), with no      *)
(* threads and no locks: a first round gives every name to its best       *)
(* definer among all files, ranked with the files' initial liveness; the  *)
(* mark-live sweep makes live exactly the least set of files, closed under *)
(* "a live object needs the owner of this name", that contains the files  *)
(* live from the start; a second round gives every name to its best live   *)
(* definer.  Each of the three is one atomic step.                         *)
(*                                                                         *)
(* A rank is the pair <<kind, priority>> of the precedence table, compared *)
(* lexicographically.                                                      *)
(***************************************************************************)
EXTENDS Naturals, Sequences, FiniteSets

CONSTANTS Objs, Dylibs, Names, NoFile, Prio, ArchiveMembers, StrippedDylibs,
          WeakDylibs, ObjTab, DylibTab

Files == Objs \cup Dylibs

NumEntries(f) == IF f \in Objs THEN Len(ObjTab[f]) ELSE Len(DylibTab[f])

(* The files live before the sweep: command-line objects and the dylibs    *)
(* -dead_strip_dylibs does not strip.                                      *)
InitLive == (Objs \ ArchiveMembers) \cup (Dylibs \ StrippedDylibs)

(* Entry i of f defines n: an extern, non-undefined entry of an object or  *)
(* an export of a dylib; what the winner records is weak and common.       *)
DefinesAt(f, i, n) ==
  IF f \in Objs
  THEN ObjTab[f][i].name = n /\ ObjTab[f][i].ext /\ ObjTab[f][i].type # "undef"
  ELSE DylibTab[f][i].name = n
WeakAt(f, i) ==
  IF f \in Objs THEN ObjTab[f][i].weakDef ELSE f \in WeakDylibs \/ DylibTab[f][i].weak
CommonAt(f, i) == f \in Objs /\ ObjTab[f][i].type = "common"

(* The precedence table, for a file live or not: each test is read only   *)
(* when the ones before it failed.                                         *)
Kind(f, i, live) ==
  IF CommonAt(f, i) THEN (IF f \in live THEN 5 ELSE 6)
  ELSE IF f \in Dylibs \/ f \notin live THEN (IF WeakAt(f, i) THEN 4 ELSE 3)
  ELSE IF WeakAt(f, i) THEN 2 ELSE 1

RankLess(a, b) == a[1] < b[1] \/ (a[1] = b[1] /\ a[2] < b[2])

(* The definitions of n by the files of S, as <<file, entry>> pairs.       *)
Defs(n, S) ==
  UNION {{<< f, i >> : i \in {j \in 1 .. NumEntries(f) : DefinesAt(f, j, n)}} : f \in S}
RankOf(d, live) == << Kind(d[1], d[2], live), Prio[d[1]] >>

NoOwner == [file |-> NoFile, common |-> FALSE]

(* The owner of n when the files of S compete with liveness live: the     *)
(* definition of least rank (the first entry of its file among equals).   *)
Best(n, S, live) ==
  IF Defs(n, S) = {} THEN NoOwner
  ELSE LET d == CHOOSE d \in Defs(n, S) :
                  \A e \in Defs(n, S) :
                    \/ RankLess(RankOf(d, live), RankOf(e, live))
                    \/ RankOf(d, live) = RankOf(e, live) /\ d[2] <= e[2]
       IN [file |-> d[1], common |-> CommonAt(d[1], d[2])]

(* A live object's extern entry needs the owner's definition: an undefined *)
(* reference, or a common that lost to a non-common definition.            *)
Needs(o, n, own) ==
  \E i \in 1 .. Len(ObjTab[o]) :
    /\ ObjTab[o][i].name = n /\ ObjTab[o][i].ext
    /\ \/ ObjTab[o][i].type = "undef"
       \/ ObjTab[o][i].type = "common" /\ ~own[n].common

(* The least set that contains InitLive and the owner of every name one   *)
(* of its objects needs.                                                   *)
Closure(own) ==
  LET step(S) == S \cup {own[n].file : n \in {m \in Names :
                           own[m].file # NoFile /\ \E o \in S \cap Objs : Needs(o, m, own)}}
      c[k \in 0 .. Cardinality(Files)] == IF k = 0 THEN InitLive ELSE step(c[k - 1])
  IN c[Cardinality(Files)]

VARIABLES stage, live, owner

Init ==
  /\ stage = "round1"
  /\ live = InitLive
  /\ owner = [n \in Names |-> NoOwner]

Round1 ==
  /\ stage = "round1"
  /\ owner' = [n \in Names |-> Best(n, Files, live)]
  /\ stage' = "mark"
  /\ UNCHANGED live

Mark ==
  /\ stage = "mark"
  /\ live' = Closure(owner)
  /\ owner' = [n \in Names |-> NoOwner]
  /\ stage' = "round2"

Round2 ==
  /\ stage = "round2"
  /\ owner' = [n \in Names |-> Best(n, live, live)]
  /\ stage' = "done"
  /\ UNCHANGED live

Next == Round1 \/ Mark \/ Round2

Spec == Init /\ [][Next]_<<stage, live, owner>>
=============================================================================
