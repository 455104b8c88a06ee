---------------------------- MODULE MCOperations ----------------------------
(* Operations with two servers.  Both download into the cache; the directions *)
(* of the first also go through every other kind of operation.                *)
EXTENDS Operations, TLC
CONSTANTS p1, p2

MCPlans == p1 :> {<<"mkdir", "move">>, <<"command">>, <<"mojangdl">>, <<"forgedl">>,
                  <<"spongeforgedl">>, <<"writefile", "unknown">>, <<"download">>}
        @@ p2 :> {<<"forgedl">>, <<"spongeforgedl">>}
=============================================================================
