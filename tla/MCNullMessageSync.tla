--------------------------- MODULE MCNullMessageSync ---------------------------
(* Small instances of NullMessageSync for TLC.                             *)
EXTENDS NullMessageSync, TLC

CONSTANTS r1, r2, r3, a, b

\* Three ranks in a row, the second link the slower.
RowEnds == (a :> {r1, r2}) @@ (b :> {r2, r3})
RowDelay == (a :> 3) @@ (b :> 4)
RowApps == (r1 :> {}) @@ (r2 :> {0}) @@ (r3 :> {})
RowSends == (r1 :> 1) @@ (r2 :> 2) @@ (r3 :> 0)

\* Two ranks joined by two links.
TwinEnds == (a :> {r1, r2}) @@ (b :> {r1, r2})
TwinDelay == (a :> 3) @@ (b :> 3)
TwinSends == (r1 :> 2) @@ (r2 :> 0)
TwinApps == (r1 :> {1}) @@ (r2 :> {})
=============================================================================
