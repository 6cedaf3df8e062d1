--------------------------- MODULE MCEmbedChannel ---------------------------
(* The instance of EmbedChannel: two channels, one of them that of the      *)
(* environment. Messages are kept in the order of sending, so nothing is    *)
(* symmetric but the channels that are not the default: there is only one.  *)
EXTENDS EmbedChannel
=============================================================================
