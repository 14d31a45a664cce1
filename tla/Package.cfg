\* Twenty configuration files, four disks; one release, and one crash or failed copy.
SPECIFICATION Spec
CONSTANTS
    Base <- MCBase
    Confs <- MCConfs
    Masters <- MCMasters
    Disks <- MCDisks
    Options <- MCOptions
    Size <- MCSize
    BusyTexts <- MCBusyTexts
    MaxReleases = 1
    MaxMishaps = 1
INVARIANTS
    TypeOK
    NeverTorn
    Converged
    RebootTold
    WinnerDecides
PROPERTIES
    OnlyItsOwn
    Settles
