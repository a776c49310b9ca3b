---------------------------- MODULE MCWebSession ----------------------------
(* WebSession with two sign-ins; the cfg files name the requests.          *)
EXTENDS WebSession, TLC

=============================================================================
