---------------------------- MODULE MCWifiSession ----------------------------
(* Small instances of a Wi-Fi session: an address that changes and comes   *)
(* back, a second holder, and a second Connect.                            *)
EXTENDS WifiSession

CONSTANTS h1, h2, c1, c2

MCHolders == {h1, h2}

MCConns == {c1, c2}

MCScenarios ==
  {[who |-> {h1, c1}, leases |-> 3],
   [who |-> {h1, h2, c1}, leases |-> 1],
   [who |-> {h1, c1, c2}, leases |-> 0]}
=============================================================================
