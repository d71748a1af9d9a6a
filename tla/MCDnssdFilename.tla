---------------------------- MODULE MCDnssdFilename ---------------------------
(***************************************************************************)
(* Names of up to three characters, and types of one or two labels, some    *)
(* with a hyphen, a subtype or a character that is dropped.                 *)
(***************************************************************************)
EXTENDS DnssdFilename

MCNames == BoundedSeq(Char, 3)

MCTypes == {<<"_", "a", ".", "_", "b">>, <<"_", "b", ".", "_", "b">>,
            <<"_", "a", "-", "b", ".", "_", "b">>, <<"_", "a", ".", "_", "b", "-", "b">>,
            <<"_", "a", ".", "_", "a", ".", "_", "b">>, <<"/", " ", "a">>}
===============================================================================
