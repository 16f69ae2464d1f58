------------------------- MODULE MCKitDecomposition -------------------------
(* Two tasks of one message with two kits, and a task of another message.  *)
EXTENDS KitDecomposition, TLC

CONSTANTS m1, m2, m3, t1, t2, t3, t4, kitA, kitB, kitC, c1, c2

MCMessageOf == (t1 :> m1) @@ (t2 :> m1) @@ (t3 :> m2) @@ (t4 :> m3)
MCKitLines == (m1 :> {kitA, kitB}) @@ (m2 :> {kitC}) @@ (m3 :> {})
Uses(a, b) == c1 :> a @@ c2 :> b
MCNeeds == kitA :> Uses(1, 1) @@ kitB :> Uses(0, 2) @@ kitC :> Uses(1, 0)
MCOpening == Uses(1, 2)
=============================================================================
