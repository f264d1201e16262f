-------------------------------- MODULE Absent --------------------------------
(* Option::None: what a document, a snapshot or a call does not give.        *)
CONSTANT None
==============================================================================
