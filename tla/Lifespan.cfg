SPECIFICATION Spec
CONSTANTS
    e1 = e1
    e2 = e2
    Events = {e1, e2}
    QueueSize = 1
    MaxConfig = 2
    ManifestSets <- SmallManifests
    RouteTables <- SmallRoutes
    PeerScan <- SmallPeer
CHECK_DEADLOCK FALSE
INVARIANTS HooksInOrder OrderlyShutdown NoAcceptedEventLost EventsAnsweredOnce RegistryServed
