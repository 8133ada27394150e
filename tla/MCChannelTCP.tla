---------------------------- MODULE MCChannelTCP ----------------------------
(* Small instances of ChannelTCP.                                          *)
EXTENDS ChannelTCP
=============================================================================
