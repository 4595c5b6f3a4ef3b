----------------------------- MODULE MCRecipes -----------------------------
(* A small instance of the recipes: one dish and one modifier, two         *)
(* requests, and two new items whose confirms may meet in either order.    *)
EXTENDS Recipes, TLC

CONSTANTS dish, mod, r1, r2

OneDish     == {dish}
OneModifier == {mod}
TwoRequests == {r1, r2}

(* Salt in two spellings, oil, and flour by the cup, a unit that is there  *)
(* with another type.                                                      *)
FourLines == {"salt", "Salt", "oil", "flour"}
FourNames ==
  [i \in FourLines |-> CASE i = "oil"   -> "oil item"
                        [] i = "flour" -> "flour item"
                        [] OTHER       -> "salt item"]
FourUnits ==
  [i \in FourLines |-> CASE i = "oil"   -> "ml"
                        [] i = "flour" -> "cup"
                        [] OTHER       -> "g"]
Savable  == [t \in Things |-> {{"salt", "oil"},
                               IF t = dish THEN {"salt", "Salt"} ELSE {"flour"}}]
AllUnits == {"g", "ml", "cup"}
OnlyCup  == {"cup"}
=============================================================================
