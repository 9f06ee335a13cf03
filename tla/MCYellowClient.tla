---------------------------- MODULE MCYellowClient ----------------------------
(***************************************************************************)
(* A small instance of YellowClient: a request and a login, two sockets,   *)
(* one reconnect attempt between two successful openings.                  *)
(***************************************************************************)
EXTENDS YellowClient

CONSTANTS call, login
=============================================================================
