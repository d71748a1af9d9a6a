--------------------------- MODULE MCServiceResolver ---------------------------
(***************************************************************************)
(* Instances of ServiceResolver for TLC: addresses, ports and what is       *)
(* announced for each name.                                                 *)
(***************************************************************************)
EXTENDS ServiceResolver, TLC

CONSTANTS a4, b4, a6, n1, n2

Protos == a4 :> "INET" @@ b4 :> "INET" @@ a6 :> "INET6"

Entry(p, as) == [port |-> p, addresses |-> as]

\* n1 is on a host with both families that may have no address yet; n2 is
\* answered with nothing, with an entry of its own, with one without a port, or
\* with one for port 0 behind it.
TwoNames ==
  n1 :> {<<Entry(80, <<a4, a6>>)>>, <<Entry(80, <<>>)>>} @@
  n2 :> {<<>>, <<Entry(8080, <<b4>>)>>, <<Entry(None, <<b4>>)>>,
         <<Entry(8080, <<b4>>), Entry(0, <<b4>>)>>}

Setting(n, p) == [name |-> n, aprotocol |-> p]

\* The application looks up either name, n1 also over IPv6.
ThreeSettings ==
  {Setting(n1, "UNSPEC"), Setting(n1, "INET6"), Setting(n2, "UNSPEC")}

OneSetting == {Setting(n1, "UNSPEC")}

\* A service with two SRV entries, one of which has no address yet.
TwoEntries ==
  n1 :> {<<Entry(80, <<a4>>), Entry(8080, <<>>)>>}
================================================================================
