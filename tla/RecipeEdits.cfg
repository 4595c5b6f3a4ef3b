CONSTANTS
  dish = dish
  mod = mod
  r1 = r1
  r2 = r2
  NoThing = NoThing
  Dishes <- OneDish
  Modifiers <- OneModifier
  Requests <- TwoRequests
  Ingredients <- FourLines
  ItemOf <- FourNames
  UnitOf <- FourUnits
  Lists <- Savable
  Known <- AllUnits
  WrongUnits <- OnlyCup
  MaxDrafts = 3
SPECIFICATION RecipesFairSpec
INVARIANTS RecipesTypeOK VersionsWhole ConfirmedIsPublished
PROPERTIES RecipeEditsKept ReopenedFromLive RequestsEnd
