----------------------------- MODULE MCStatsFile -----------------------------
(***************************************************************************)
(* Two processes with placeholders of their own, for placeholders are made *)
(* with a key of the process; some reports are empty, some count one twice.*)
(***************************************************************************)
EXTENDS StatsFile, TLC

CONSTANTS p1, p2, a, b, c

Of(x, y, z) == a :> x @@ b :> y @@ c :> z
MCReports(p) ==
    IF p = p1 THEN {Of(0, 0, 0), Of(1, 0, 0), Of(2, 0, 1)} ELSE {Of(0, 1, 0)}
=============================================================================
