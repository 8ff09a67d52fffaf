CONSTANTS
    SearchPaths <- MCSearchPaths
    Installable <- MCInstallable
    Manifests <- MCManifests
    Updates <- MCUpdates
    Bundles <- MCBundles
    Platforms = {"linux"}
    Arguments <- MCArguments
    SampleVersions <- MCSampleVersions
    MaxLaunches = 2
    MaxForeign = 0
SPECIFICATION FairSpec
PROPERTIES CancelledUpdateStartsApplication
CHECK_DEADLOCK FALSE
