----------------------------- MODULE HostKeyTrustMC -----------------------------
(***************************************************************************)
(* HostKeyTrust for TLC: hosts, keys, handshakes and requests are model    *)
(* values that nothing tells apart.                                        *)
(***************************************************************************)
EXTENDS HostKeyTrust, TLC

CONSTANTS h1, h2, k1, k2, d1, d2, u1

MCHost == {h1, h2}
MCKey == {k1, k2}
MCHandshake == {d1, d2}
MCRequest == {u1}

Symmetry ==
  Permutations(MCHost) \cup Permutations(MCKey) \cup Permutations(MCHandshake)
=============================================================================
