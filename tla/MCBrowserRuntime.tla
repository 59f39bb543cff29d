--------------------------- MODULE MCBrowserRuntime ---------------------------
(* One URL of each kind; the expected url_contains matches the public one. *)
EXTENDS BrowserRuntime

MCFixture == {"fixture"}
MCAllowed == {"allowed"}
MCRefused == {"refused"}
MCWanted == {"allowed"}
=============================================================================
