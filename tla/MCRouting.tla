----------------------------- MODULE MCRouting -----------------------------
(* Routing for TLC: "a" begins "ab" as a text but not as a segment, "a//b"  *)
(* and "/a/" are other spellings, and interfaces and services overlap.      *)
EXTENDS Routing

MCChars == {"a", "b", "/"}

MCInterfaceTexts ==
  {<< >>, <<"a">>, <<"/", "a", "/">>, <<"a", "/", "b">>, <<"a", "b">>, <<"a", "/", "/", "b">>}

MCServiceTexts == {<< >>, <<"b">>, <<"b", "/">>, <<"b", "/", "a">>, <<"b", "a">>}

MCLocations ==
  {<< >>, <<"/", "a">>, <<"/", "a", "b">>, <<"/", "b", "/">>, <<"/", "a", "/", "b">>,
   <<"/", "a", "/", "b", "a">>, <<"/", "a", "/", "b", "/", "a">>,
   <<"/", "a", "/", "b", "/", "b", "/", "a", "/">>, <<"/", "a", "/", "/", "b">>,
   <<"/", "a", "b", "/", "b", "/", "a">>}
=============================================================================
