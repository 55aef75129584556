------------------------- MODULE MCResponseContext -------------------------
(***************************************************************************)
(* Model values for ResponseContext: coroutine handles and threads.        *)
(***************************************************************************)
EXTENDS ResponseContext

CONSTANTS h1, h2, h3, w1, w2, w3
=============================================================================
