--------------------------- MODULE MCServerStartup ---------------------------
(***************************************************************************)
(* Two servers, a doctor and offline maintenance on a database of two      *)
(* pages.                                                                  *)
(***************************************************************************)
EXTENDS ServerStartup, TLC

CONSTANTS s1, s2, doctor, keeper, d1, d2

MCServers == {s1, s2}
MCDoctors == {doctor}
MCKeepers == {keeper}
MCDirs == {d1, d2}

ServersAndDirs == Permutations(MCServers) \cup Permutations(MCDirs)
=============================================================================
