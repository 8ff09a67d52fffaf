CONSTANTS
    SearchPaths <- MCSearchPaths
    Installable <- MCInstallable
    Manifests <- MCManifests
    Updates <- MCUpdates
    Bundles <- MCBundles
    Platforms <- MCPlatforms
    Arguments <- MCArguments
    SampleVersions <- MCSampleVersions
    MaxLaunches = 2
    MaxForeign = 1
SPECIFICATION FairSpec
INVARIANTS TypeOK HostHasItsDependencies InstalledStaysInstalled SortIsWellDefined
PROPERTIES InstallSuffices LaunchEnds
CHECK_DEADLOCK FALSE
