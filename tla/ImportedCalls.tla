--------------------------- MODULE ImportedCalls ---------------------------
(* The calls of an imported document, under names that a client's own calls *)
(* leave free.                                                              *)

CONSTANTS Nothing, Specs

VARIABLES spec, compiled, given, sent

documentVars == <<spec, compiled, given, sent>>

Api == INSTANCE OpenApiCalls
           WITH action <- compiled, args <- given, request <- sent, Absent <- Nothing

ASSUME DocumentsAssumption == Api!DocumentsAssumption

\* A call of an imported operation is the request its document describes.
CallFitsTheSpec == Api!CallFitsTheSpec
=============================================================================
