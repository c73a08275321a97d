----------------------------- MODULE MCSettings -----------------------------
(* An instance of Settings: four rates of the driver, among them the one   *)
(* that is "not configured", and one it does not know, two words for the   *)
(* filter, two configuration files.                                        *)
EXTENDS Settings

MCRates == {10, 125, 500, 800, 40}
MCWords == {"all", "some"}
MCModes == {0, 218, 250}
MCOutcVal == 218
MCFiles == {[baud |-> 125, code |-> "all", mask |-> "all", outc |-> 0],
            [baud |-> 500, code |-> "some", mask |-> "all", outc |-> 250]}
=============================================================================
