SPECIFICATION Spec
CONSTANTS
    None = None
    austin = austin
    boston = boston
    villa = villa
    loft = loft
    us = us
    emirates = emirates
    Country = {us, emirates}
    Served = {us}
    Bare <- MCBare
    Inside <- MCInside
    CountryOfTown <- MCCountryOfTown
    CountryAlias <- MCCountryAlias
    Cue <- MCCue
    City = {austin, boston}
    PropertyType = {villa, loft}
    Amenity = {"pool", "wifi", "parking"}
    Listings <- MCListings
    ResultLimit = 2
    SummaryThreshold = 2
    RerankLimit = 2
    Numeral <- MCNumeral
    CityName <- MCCityName
    CityAlias <- MCCityAlias
    CityResemblance <- MCCityResemblance
    TypeName <- MCTypeName
    TypeAlias <- MCTypeAlias
    TypeLikeness <- MCTypeLikeness
    Message <- MCMessage
    Displays <- MCDisplays
    PageSize = 1
    MaxPageSize = 2
INVARIANTS TypeOK WindowCoherent ResultsMatch ResumeCoherent FiltersAsAsked CuesTakenAsMeant
PROPERTIES SelectionAsShown RejectionKeepsWindow BookingKeepsSearch
