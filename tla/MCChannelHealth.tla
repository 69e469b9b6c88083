--------------------------- MODULE MCChannelHealth --------------------------
(* The gateway's store with a recorder and a reader, and a second store on  *)
(* the same file.                                                           *)
EXTENDS ChannelHealth, TLC

CONSTANTS gateway, service, p1, p2, p3, chA, chB

BothStores == {gateway, service}
ThreeProcs == {p1, p2, p3}
ServiceIsP3 == [p \in ThreeProcs |-> IF p = p3 THEN service ELSE gateway]

TwoChannels == {chA, chB}
=============================================================================
