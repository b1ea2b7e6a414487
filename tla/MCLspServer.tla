----------------------------- MODULE MCLspServer -----------------------------
(***************************************************************************)
(* One package directory, in which the server was started: two source       *)
(* files, a test file, and a scratch buffer.  One name, which a text        *)
(* declares or uses.                                                        *)
(***************************************************************************)
EXTENDS LspServer

CONSTANTS a, b, atest, untitled, pkg, n

MCFile    == {a, b, atest}
MCDirOf   == [f \in MCFile |-> pkg]
MCText    == {"declares", "uses"}

MCDeclares(t) == IF t = "declares" THEN {n} ELSE {}
MCUses(t)     == IF t = "uses" THEN {n} ELSE {}

(* a needs what b declares, and so does the test file. *)
MCDisk == {[f \in MCFile |-> IF f = b THEN "declares" ELSE "uses"]}

MCPosition(f) == CASE f = a -> 1 [] f = atest -> 2 [] f = b -> 3 [] OTHER -> 0
MCBefore(f, g) == MCPosition(f) < MCPosition(g)

=============================================================================
