----------------------------- MODULE MCRouting ------------------------------
(* Model-checking instances of Routing. *)
EXTENDS Routing, TLC

CONSTANTS a, b, c, d

\* A triangle that closes late: a only knows b, and c is heard of by a and b
\* when it greets them, perhaps after a search for it has started.
TriangleReference == (a :> {b}) @@ (b :> {}) @@ (c :> {a, b})
TriangleFlow == {<<a, c>>}

\* The line a - b - c: the outer nodes know b from their command lines.
LineReference == (a :> {b}) @@ (b :> {}) @@ (c :> {b})
LineFlow == {<<a, c>>}

\* The line a - b - c - d.
Line4Reference == (a :> {b}) @@ (b :> {c}) @@ (c :> {d}) @@ (d :> {})
Line4Flow == {<<a, d>>}
=============================================================================
