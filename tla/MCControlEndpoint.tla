--------------------------- MODULE MCControlEndpoint ---------------------------
(* Four clients of one owner: a signal of each kind, a command that reuses  *)
(* the id of one of them, and a handoff.                                    *)
EXTENDS ControlEndpoint, TLC

MCRequests == {"creation", "focus", "unlock", "handoff"}
MCIds      == {"c", "f", "h"}
MCIdOf     == "creation" :> "c" @@ "focus" :> "f" @@ "unlock" :> "f" @@ "handoff" :> "h"
MCKind     == "creation" :> "creation" @@ "focus" :> "focus" @@ "unlock" :> "mutate"
              @@ "handoff" :> "handoff"
================================================================================
