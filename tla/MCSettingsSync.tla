--------------------------- MODULE MCSettingsSync ---------------------------
(* Values of the constants of SettingsSync that a cfg cannot write.        *)
EXTENDS SettingsSync

CONSTANTS s1, s2, mtuLow, mtuGood

MCOneServer  == <<s1>>
MCTwoServers == <<s1, s2>>
=============================================================================
