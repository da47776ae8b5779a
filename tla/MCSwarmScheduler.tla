--------------------------- MODULE MCSwarmScheduler ---------------------------
(* SwarmScheduler with the values of its configurations.                   *)
EXTENDS SwarmScheduler

(* Either the attempts or the batch are limited in time, never both.       *)
EitherLimit == {<<2, 0>>, <<0, 5>>}

AttemptLimit == {<<3, 0>>}
=============================================================================
