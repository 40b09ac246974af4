SPECIFICATION LocationSpec
CONSTANTS
    CountryTexts <- MCCountryTexts
    CityTexts <- MCCityTexts
    Radio <- MCRadio
    Chevron <- MCChevron
    RelayLists <- MCRelayLists
    SettingsValues <- MCSettings
    Queries <- MCQueries
    Letters <- MCLetters
    Height = 6
    PAGE_STEP_ROWS = 2
    MaxOpen = 1
    MaxHeld = 1
INVARIANTS
    LocationTypeOK
    RadioStandsForItsRow
    FocusStaysInView
PROPERTIES
    LandsOnTheSelection
