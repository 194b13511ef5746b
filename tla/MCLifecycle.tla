---------------------------- MODULE MCLifecycle -----------------------------
(***************************************************************************)
(* Lifecycle with keys of both players, a key to quit and a word that is   *)
(* no key, in events of three types.                                       *)
(***************************************************************************)
EXTENDS Lifecycle

MCCodes == {"W", "D", "UP", "ESCAPE", "other"}
MCEventTypes == {"SDL_QUIT", "SDL_KEYDOWN", "SDL_MOUSEMOTION"}
MCBytes == {0, 255}

=============================================================================
