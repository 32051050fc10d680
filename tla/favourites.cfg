SPECIFICATION Spec
CONSTANTS
    Nil = Nil
    d1 = d1
    d2 = d2
    d3 = d3
    Dinners = {d1, d2, d3}
INVARIANTS
    TypeOK
    TableShowsTheStoredList
    NoFavouriteTwice
    RowsAreThere
PROPERTY
    DeletionTakesTheShownRow
