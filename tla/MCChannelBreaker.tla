-------------------------- MODULE MCChannelBreaker --------------------------
(* Small instances of ChannelBreaker.  Callers exceed the probe budget and *)
(* the threshold, so that late results of several calls can pile up.       *)
EXTENDS ChannelBreaker

CONSTANTS c1, c2, c3

Three == {c1, c2, c3}
NoPanic == {"ok", "fail", "empty"}
NoOperators == {}
=============================================================================
