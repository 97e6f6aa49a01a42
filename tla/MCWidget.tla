------------------------------ MODULE MCWidget ------------------------------
EXTENDS Widget

(* Cutting CR LF CR LF gives all the buffers that cutting LF LF gives. *)
MCLineEnds == { <<"CR", "LF">> }

=============================================================================
