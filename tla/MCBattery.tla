------------------------------ MODULE MCBattery ------------------------------
(***************************************************************************)
(* Instances of Battery for TLC. The percentages are chosen so that every  *)
(* mean of two packs, and the rounding of one, is told apart from every    *)
(* single sample.                                                          *)
(***************************************************************************)
EXTENDS Battery

Sample(mv, ma, pct, dc) == [mv |-> mv, ma |-> ma, pct |-> pct, dc |-> dc]

MCWhole == { Sample(15, -3, 90, 0), Sample(14, -4, 70, 0) }
MCPacks == { Sample(16, -2, 61, 250), Sample(13, -1, 40, 260) }

OneWhole == { Sample(15, -3, 90, 0) }
OnePack == { Sample(16, -2, 61, 250) }

=============================================================================
