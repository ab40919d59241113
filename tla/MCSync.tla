-------------------------------- MODULE MCSync --------------------------------
(***************************************************************************)
(* Values of Sync's constants for TLC.                                     *)
(***************************************************************************)
EXTENDS SyncProperties

TwoBodies == {<<"!notify", "test">>, <<"hello">>}
================================================================================
