--------------------------- MODULE MC_PostResolve ---------------------------
(***************************************************************************)
(* A link line for PostResolve.  o1 and o2 are on the command line, o3 and *)
(* o4 are archive members, d1 is a needed dylib.                           *)
(***************************************************************************)
EXTENDS PostResolve, TLC

CONSTANTS o1, o2, o3, o4, d1, nofile, x, y, z, w, v, u

Ext(n, t) ==
  [name |-> n, ext |-> TRUE, type |-> t,
   weakDef |-> FALSE, weakRef |-> FALSE, pext |-> FALSE]
WeakExt(n, t) == [Ext(n, t) EXCEPT !.weakDef = TRUE]
Local(n, t) == [Ext(n, t) EXCEPT !.ext = FALSE]
Export(n) == [name |-> n, weak |-> FALSE]

(* Command-line order: o1, o2, d1, the archive (o3, o4).                   *)
PostPrio == (o1 :> 1) @@ (o2 :> 2) @@ (d1 :> 3) @@ (o3 :> 4) @@ (o4 :> 5)

(* x is defined strongly by o1 and o2 (a duplicate) and by d1; y is common *)
(* in o1 (twice: two symbol-table entries of one name) and in o2; w is    *)
(* weak in o2 and strong in o3, which is loaded for z;                     *)
(* v is common in o3 and exported by d1; o4 defines x and has the only   *)
(* common u, which it wins in the first round, but stays dead.            *)
PostObjTab ==
  (o1 :> << Ext(x, "sect"), Ext(y, "common"), Ext(z, "undef"),
            Ext(y, "common") >>) @@
  (o2 :> << Ext(y, "common"), Ext(x, "abs"), WeakExt(w, "sect"),
            Local(v, "sect") >>) @@
  (o3 :> << Ext(z, "sect"), Ext(w, "sect"), Ext(v, "common") >>) @@
  (o4 :> << Ext(x, "sect"), Ext(y, "common"), Ext(u, "common") >>)

PostDylibTab == d1 :> << Export(v), Export(x) >>
=============================================================================
