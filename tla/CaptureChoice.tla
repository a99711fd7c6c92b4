---------------------------- MODULE CaptureChoice ----------------------------
(***************************************************************************)
(* Which protocol captures (backend/capture.rs in                          *)
(* linux/crates/od-sender/src).                                            *)
(***************************************************************************)
EXTENDS Option

Paths == {"ext", "wlr"}
OtherPath(p) == IF p = "ext" THEN "wlr" ELSE "ext"

\* An explicit choice is honoured or refused; auto takes the backend's
\* preference, the standard protocol without one, else the other.
SelectPath(choice, preference, offered) ==
    LET wanted == IF choice # "auto" THEN choice
                  ELSE IF preference # None THEN preference ELSE "ext"
    IN  IF wanted \in offered THEN wanted
        ELSE IF choice = "auto" /\ OtherPath(wanted) \in offered THEN OtherPath(wanted)
        ELSE None
=============================================================================
