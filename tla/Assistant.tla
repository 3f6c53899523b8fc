----------------------------- MODULE Assistant -----------------------------
(***************************************************************************)
(* What the modules about one assistant share: its draft (Canvas) and its  *)
(* versions (VersionReview) are changed by requests to the API.            *)
(***************************************************************************)

CONSTANTS
  Handlers,  \* API requests being served at one time
  None
=============================================================================
