---------------------------- MODULE MC_Resolver ----------------------------
(***************************************************************************)
(* Small link lines for Resolver.  o1 is on the command line; o2, o3, o4   *)
(* are members of one archive and start dead; d1 is a needed dylib, d2 a  *)
(* dylib that -dead_strip_dylibs leaves dead until referenced.             *)
(***************************************************************************)
EXTENDS Resolver, TLC

CONSTANTS o1, o2, o3, o4, d1, d2, nofile, x, y, z, w, v

(* A MachSym entry: extern unless stated otherwise.                        *)
Ext(n, t) ==
  [name |-> n, ext |-> TRUE, type |-> t,
   weakDef |-> FALSE, weakRef |-> FALSE, pext |-> FALSE]
WeakExt(n, t) == [Ext(n, t) EXCEPT !.weakDef = TRUE]
Local(n, t) == [Ext(n, t) EXCEPT !.ext = FALSE]
Export(n) == [name |-> n, weak |-> FALSE]
WeakExport(n) == [name |-> n, weak |-> TRUE]

MCObjs == {o1, o2, o3, o4}
MCDylibs == {d1, d2}
MCNames == {x, y, z, w, v}

(* Command-line order: o1, d1, the archive (o2, o3, o4), d2.               *)
MCPrio == (o1 :> 1) @@ (d1 :> 2) @@ (o2 :> 3) @@ (o3 :> 4) @@
          (d2 :> 5) @@ (o4 :> 6)

(* o1 needs x and has a common y; o2 defines x and needs z and y; o3       *)
(* defines y, and z as a weak, weak-referenced (hence private) definition, *)
(* and needs v from d2; o4 is never needed.                                *)
MCObjTab ==
  (o1 :> << Ext(x, "undef"), Ext(y, "common"), Local(w, "sect") >>) @@
  (o2 :> << Ext(x, "sect"), Ext(z, "undef"), Ext(y, "undef") >>) @@
  (o3 :> << Ext(y, "sect"),
            [WeakExt(z, "sect") EXCEPT !.weakRef = TRUE],
            Ext(v, "undef") >>) @@
  (o4 :> << Ext(w, "abs"), Ext(x, "common") >>)

MCDylibTab ==
  (d1 :> << Export(z) >>) @@
  (d2 :> << Export(x), Export(v) >>)

(* The -weak-l question: d1 exports x as a weak definition, d2 exports it  *)
(* strongly, and o1 needs x.                                               *)
WeakObjTab ==
  (o1 :> << Ext(x, "undef") >>) @@ (o2 :> << >>) @@ (o3 :> << >>) @@
  (o4 :> << >>)

WeakDylibTab ==
  (d1 :> << WeakExport(x) >>) @@ (d2 :> << Export(x) >>)
=============================================================================
