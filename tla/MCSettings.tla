---------------------------- MODULE MCSettings ----------------------------
(* The constants of Settings that a configuration file cannot write.       *)
EXTENDS Settings

PortSizeLogin == <<"port", "size", "login">>
=============================================================================
