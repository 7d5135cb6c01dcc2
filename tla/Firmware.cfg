SPECIFICATION FairSpec
CONSTANT Releases <- AllReleases
INVARIANTS RebootMeansInstalled TornOnlyByStop AnswersMeanFailure
PROPERTY GoodReleaseInstalls
CHECK_DEADLOCK FALSE
