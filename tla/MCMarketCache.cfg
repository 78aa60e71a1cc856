CONSTANTS
    Request = {r1, r2}
    Primer = Primer
    NoOne = NoOne
SPECIFICATION Spec
INVARIANTS TypeOK CallbacksDoNotOverlap FlagMeansLoading RequestsLoadOnlyStale AnswersAfterAnAttempt
PROPERTIES ListSurvivesFailures EveryRequestAnswered
