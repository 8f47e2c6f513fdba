----------------------------- MODULE MCHlsViewer -----------------------------
(* Instances of HlsViewer for TLC.                                         *)
EXTENDS HlsViewer

NoVariants == {<<>>}

(* Different orders, equal bandwidths, one stream, a bandwidth that is not *)
(* a number (atoi gives 0).                                                *)
AnyMaster  == {<<>>, <<800, 200, 400>>, <<200, 800>>, <<200, 400, 200>>, <<800, 0>>}
=============================================================================
