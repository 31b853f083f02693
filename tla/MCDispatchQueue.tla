--------------------------- MODULE MCDispatchQueue --------------------------
(* Batches for checking DispatchQueue: none, one run of each kind, and runs  *)
(* in the orders the reducer emits: a metric before the ordered effects, a   *)
(* redraw after them, and both.                                              *)
EXTENDS DispatchQueue

MCBatches ==
  {<<>>, <<"ordered">>, <<"metrics">>, <<"redraw">>,
   <<"metrics", "ordered">>, <<"ordered", "redraw">>,
   <<"metrics", "ordered", "redraw">>}
=============================================================================
