SPECIFICATION Spec
CONSTANTS
    Configs <- SomeConfigs
    Fds = {TRUE, FALSE}
    Methods = {0, 1, 2}
INVARIANTS CookieRestored ErrorRecorded NoAbort AlwaysAnswers DescribedOnce
PROPERTY Termination
