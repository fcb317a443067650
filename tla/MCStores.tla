------------------------------ MODULE MCStores ------------------------------
(* Two profiles; tables of one and of two columns. *)
EXTENDS StoresProofs
CONSTANTS orders, billing
Names == {orders, billing}

SomeRows ==
  {<<>>,
   <<<<"text">>, <<"empty">>, <<"null">>>>,
   <<<<"time", "null">>, <<"big", "text">>>>}
=============================================================================
