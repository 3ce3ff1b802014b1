\* Lists of up to three entries of a pool, and the bundles of the catalogue.
CONSTANTS
    Registry <- AllComponents
    Capabilities <- capabilities_for
    Solutions <- KnownSolutions
    Profiles <- SomeProfiles
    Packages <- SomePackages
    Slug <- SomeSlugs
    Configs <- AllConfigs
SPECIFICATION Spec
CHECK_DEADLOCK TRUE
INVARIANTS
    SelectionSound
    EntityIdsResolve
    PinsGranted
    DependenciesFirst
    CatalogueAccepted
PROPERTIES
    StepsRunOut
