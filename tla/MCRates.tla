------------------------------ MODULE MCRates ------------------------------
(* Rates for TLC: two network devices.                                      *)
EXTENDS Rates

MCNetdevs == <<"eth0", "eth1">>
============================================================================
