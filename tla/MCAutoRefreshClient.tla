-------------------------- MODULE MCAutoRefreshClient --------------------------
(* A small instance of AutoRefreshClient for TLC. *)
EXTENDS AutoRefreshClient

CONSTANTS u1, phone

MCUsers == {u1}
MCDevices == {phone}
MCClientSlot == <<u1, phone>>
=============================================================================
