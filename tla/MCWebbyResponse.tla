-------------------------- MODULE MCWebbyResponse -------------------------
(* Model-checking instances of WebbyResponse.                              *)
EXTENDS WebbyResponse
=============================================================================
