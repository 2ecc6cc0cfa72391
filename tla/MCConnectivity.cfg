SPECIFICATION FairSpec
INVARIANTS
    RecordedLossNeedsNewRows
    OwedLogsAreDraining
    CrashReportedBeforeBoot
PROPERTIES
    RefinesMqttSession
    ScreenAdmitsLoss
