----------------------------- MODULE MCSession -----------------------------
(* Two windows and two requests at a time, of the same window or of both. *)
EXTENDS Session

CONSTANTS w1, w2, s1, s2
=============================================================================
