--------------------------- MODULE MCWarehouseStock ---------------------------
(***************************************************************************)
(* Small instances of WarehouseStock: levels up to 3, of which 2 is not    *)
(* low; an order asks for one unit of the first item, or for all there is, *)
(* and the user takes two units of either item out again.                  *)
(***************************************************************************)
EXTENDS WarehouseStock

Of(i, q) == [item |-> i, quantity |-> q]

OneItem == {<<Of(1, 1)>>, <<Of(1, 3)>>}
ATakeback == {-2}
=============================================================================
