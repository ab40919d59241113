----------------------------- MODULE MCKeyShare -----------------------------
(***************************************************************************)
(* Values of KeyShare's constants for TLC: the bot with its sending device *)
(* and another one, and a peer.                                            *)
(***************************************************************************)
EXTENDS KeyShareProperties

CONSTANTS bot, peer, own, tablet, phone

TwoUsers == {bot, peer}
ThreeDevices == {own, tablet, phone}
Ownership == [u \in TwoUsers |-> IF u = bot THEN {own, tablet} ELSE {phone}]
=============================================================================
