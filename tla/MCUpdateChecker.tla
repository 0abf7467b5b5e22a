-------------------------- MODULE MCUpdateChecker --------------------------
(***************************************************************************)
(* The instance of UpdateChecker for TLC: an installation that runs a      *)
(* prerelease, after an older release; then upstream names the prerelease  *)
(* its latest, and later the release.                                      *)
(***************************************************************************)
EXTENDS UpdateChecker

(* The comparison agrees with the standard on all versions considered,     *)
(* prerelease identifiers of both kinds and different lengths included.    *)
ASSUME VersionOrder == OrdersAsStandard(SemanticVersions)

TwoCores == {<<0, 1, 0>>, <<1, 0, 0>>}

Version(major, pre) == [core |-> IF major = 0 THEN <<0, 1, 0>> ELSE <<1, 0, 0>>, prerelease |-> pre]

Identifier(value) == [numeric |-> value > 0, value |-> value]
Prerelease == Version(1, <<Identifier(0), Identifier(1)>>)
Published == <<Version(0, <<>>), Prerelease, Version(1, <<>>)>>
=============================================================================
