---------------------------- MODULE MCLiveEngine ----------------------------
(* Small instances of LiveEngine: one held symbol for the engine's own     *)
(* behaviour, two for what the portfolio makes of them.                    *)
EXTENDS LiveEngine

CONSTANTS a, b

OneSymbol == {a}
\* A loss beyond the limit, or a gain.
UpOrDown == {-2, 2}
TwoSymbols == {a, b}
=============================================================================
