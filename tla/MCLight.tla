------------------------------ MODULE MCLight ------------------------------
EXTENDS Light

MCKinds ==
    {<<"dimmer">>, <<"warm">>, <<"dimmer", "warm">>, <<"cold", "warm">>, <<"dimmer", "cold", "warm">>,
     <<"temp">>, <<"dimmer", "temp">>, <<"warm", "temp">>,
     <<"red", "green", "blue">>, <<"dimmer", "red", "green", "blue">>,
     <<"red", "green", "blue", "warm">>,
     <<"red", "green", "blue", "cold", "warm">>,
     <<"red", "green", "blue", "warm", "temp">>,
     <<"dimmer", "red", "green", "blue", "temp">>}
MCColors == {<<255, 0, 0>>, <<0, 100, 50>>, <<255, 0, 0, 0>>, <<0, 0, 0, 255>>, <<0, 100, 0, 50, 255>>}
=============================================================================
