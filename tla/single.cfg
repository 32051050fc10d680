SPECIFICATION Spec
CONSTANTS
    Nil = Nil
    d1 = d1
    d2 = d2
    d3 = d3
    dairy = dairy
    soy = soy
    DinnerList <- ThreeDinners
    Allergens = {dairy, soy}
    AllergensOf <- Every
    CardCounts = {1, 3}
    DefaultCards = 2
    CountOfVisibleCards = 2
    MaxKills = 2
INVARIANTS
    TypeOK
    
    DuplicatesComeFromKills
    FilterIsSaved
    ListIsFromTheDeck
PROPERTY
    DrawnDecksPassTheFilter
