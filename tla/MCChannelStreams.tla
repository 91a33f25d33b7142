-------------------------- MODULE MCChannelStreams --------------------------
(***************************************************************************)
(* A small instance of the stream supervisor: one channel, four            *)
(* configurations (s and t run as streams, x is a stream its provider      *)
(* cannot run here, w asks for the webhook), two requests h1 and h2.       *)
(***************************************************************************)
EXTENDS ChannelStreams, TLC

CONSTANTS c1, c2, s, t, x, w, h1, h2
=============================================================================
