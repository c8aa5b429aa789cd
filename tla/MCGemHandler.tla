----------------------------- MODULE MCGemHandler -----------------------------
(* Small instances of GemHandler for TLC.                                  *)
EXTENDS GemHandler, TLC

CONSTANTS h1, h2, a1, a2

MCBothRoles  == {"host", "equipment"}
MCEquipmentOffline == {"EQUIPMENT_OFFLINE"}

MCHandshakes   == {h1, h2}
MCOneHandshake == {h1}
MCAttempts     == {a1, a2}
MCOneAttempt   == {a1}
MCSymmetry     == Permutations(MCHandshakes) \cup Permutations(MCAttempts)
=============================================================================
