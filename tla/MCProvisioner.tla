---------------------------- MODULE MCProvisioner ----------------------------
(* Model checking of Provisioner.                                          *)
EXTENDS Provisioner, TLC

===============================================================================
