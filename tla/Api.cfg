SPECIFICATION ApiSpec
INVARIANTS ApiTypeOK AcceptedIsVerified SourceSolvedOnce ShortageFailsClosed PolicyGoverns QualityIsOfThePolicy SolveReports
