----------------------------- MODULE MCStringList -----------------------------
(***************************************************************************)
(* Three keys, one the beginning of another; values that are empty, that    *)
(* look like a text themselves, with a NUL in the middle, and with a        *)
(* newline, which resolved may read as two texts, as another, or as none.   *)
(***************************************************************************)
EXTENDS StringList, SequencesExt

MCKey   == {<<"a">>, <<"b">>, <<"a", "b">>}
MCValue == {<<>>, <<"b">>, <<"b", Eq, "a">>, <<"a", Nul, "b">>, <<"a", "newline">>}

MCMisread == {<<>>, <<<<"b", Eq>>>>, <<<<"a", Eq, "a">>, <<"b">>>>}

\* Up to two texts; a repeated key, a bare one and a value with "=" among them.
MCMeant == {<<<<"a">>, <<"b", Eq, "a">>>>, <<<<"a">>, None>>, <<<<"a", "b">>, <<>>>>,
            <<<<"b">>, <<"b">>>>}
MCLists == BoundedSeq(MCMeant, 2)
===============================================================================
