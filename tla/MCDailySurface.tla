--------------------------- MODULE MCDailySurface ---------------------------
(* Two touches whose windows end together, the second of which a short arc *)
(* leaves out; days enough for a snooze, the windows, the grace and beyond. *)
EXTENDS DailySurface
MCTouches == 1 .. 2
MCOpens   == <<0, 1>>
MCCloses  == <<1, 1>>
MCShort   == {2}
=============================================================================
