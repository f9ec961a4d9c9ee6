SPECIFICATION MetadataSpec
CONSTANTS
    SecCrates = {"c"}
    MaxVersion = 1
    History <- ChangingAdvisories
    RustsecIds = {"R1"}
    HasRustsecDb = TRUE
    Syncers = {"task", "job"}
    MaxSecFaults = 1
    GitCrates = {1, 2, 3, 4, 5}
    Url <- MixedUrls
    Tags = {"v1", "v2", "draft"}
    Drafts = {"draft"}
    PassLimit = 4
    CloneDepth = 1
    MaxGitFaults = 2
INVARIANTS
    SecTypeOK
    ReportFaithful
    GithubTypeOK
PROPERTIES
    AdvisoriesSettle
    GithubReaches
