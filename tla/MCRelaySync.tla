----------------------------- MODULE MCRelaySync -----------------------------
(* Values of the constants of RelaySync that a cfg cannot write.           *)
EXTENDS RelaySync

MCLocations == {<<"se">>, <<"se", "got">>}
MCAnyConstraints == Constraints

=============================================================================
