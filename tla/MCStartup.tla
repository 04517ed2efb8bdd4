----------------------------- MODULE MCStartup -----------------------------
EXTENDS Startup

(* For the run about paths alone: a start is followed until the paths are  *)
(* made, and begins anew from there on or before.                          *)
UntilPathsAreMade == main \in {"down", "new", "setNotify", "setUser", "makePath", "setGroup"}
=============================================================================
