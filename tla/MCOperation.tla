----------------------------- MODULE MCOperation -----------------------------
(* Instances of Operation for TLC. *)
EXTENDS Operation

Group(kinds, any, ranged, stoppable, rounds) ==
  [kinds |-> kinds, any |-> any, ranged |-> ranged, stoppable |-> stoppable,
   rounds |-> rounds]

MCSetups ==
  {Group(<<"single", "multi", "zerocopy">>, TRUE, FALSE, FALSE, 2),
   Group(<<"multi", "zerocopy">>, TRUE, FALSE, TRUE, 1),
   Group(<<"zerocopy">>, TRUE, FALSE, TRUE, 2),
   Group(<<"single", "single">>, TRUE, TRUE, TRUE, 2),
   Group(<<>>, FALSE, TRUE, TRUE, 2),
   Group(<<"single", "zerocopy">>, FALSE, FALSE, TRUE, 2)}
=============================================================================
