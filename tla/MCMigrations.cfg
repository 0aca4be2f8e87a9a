\* Both revisions pushed in any order, any number of times.
SPECIFICATION MigrationSpec
INVARIANTS
    SchemaIsWhole
    UpgradeGoesThrough
    NewCodeIsNotRefused
    ApiKnowsAssets
