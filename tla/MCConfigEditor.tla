--------------------------- MODULE MCConfigEditor ---------------------------
(* A small instance of ConfigEditor: two windows and one section. *)
EXTENDS ConfigEditor
=============================================================================
