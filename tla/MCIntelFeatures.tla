--------------------------- MODULE MCIntelFeatures ---------------------------
(***************************************************************************)
(* Instances of IntelFeatures: which processors refuse.                    *)
(***************************************************************************)
EXTENDS IntelFeatures

\* The first thread of the first socket, which every batch has an operation on.
FirstRefuses == {{0}}

=============================================================================
