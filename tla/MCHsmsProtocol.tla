--------------------------- MODULE MCHsmsProtocol ---------------------------
(* Small instances of HsmsProtocol for TLC.                                *)
EXTENDS HsmsProtocol, TLC

CONSTANTS ct1, ct2

MCThreads  == {ct1, ct2}
MCSymmetry == Permutations(MCThreads)

\* What the peer sends unasked, per run.
MCAllTypes == Types
MCNoTypes  == {}
MCSelect   == {"select.req", "separate.req"}
=============================================================================
