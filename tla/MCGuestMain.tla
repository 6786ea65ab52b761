---------------------------- MODULE MCGuestMain -----------------------------
(***************************************************************************)
(* Small instance of GuestMain: two models and two images that could be    *)
(* confused, of 2 by 2 pixels, a clock that may tick at any four points of *)
(* the run, and three classes with scores below, at and above zero.        *)
(***************************************************************************)
EXTENDS GuestMain

MCModels == {"mobilenetv2", "other"}
MCImages == {"dog", "cat"}
MCScores == {-1, 0, 1}
=============================================================================
