------------------------------ MODULE MCBasket ------------------------------
(***************************************************************************)
(* Small baskets: a dataset with files of different sizes, and one dataset *)
(* that is only shown on maps.                                             *)
(***************************************************************************)
EXTENDS Basket, TLC

CONSTANTS small, medium, series, map

MCChildrenOf == [p \in {series} |-> Files]
MCSizeOf == [d \in Items |-> (small :> 1 @@ medium :> 2 @@ map :> 0)[d]]
MCLists == {<<map, series>>, <<small, series, map>>}
Symmetry == Permutations(Slots)
=============================================================================
