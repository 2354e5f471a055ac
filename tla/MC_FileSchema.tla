--------------------------- MODULE MC_FileSchema ---------------------------
(***************************************************************************)
(* Statements of one and of two rows for model checking FileSchema: two    *)
(* rows show how the triggers of one row meet the next.                    *)
(***************************************************************************)
EXTENDS FileSchema

MCBatches == {{r, s} : r, s \in Row}

=============================================================================
