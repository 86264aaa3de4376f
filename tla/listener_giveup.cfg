SPECIFICATION Spec
CONSTANTS
    Watches = {}
    Statements = {}
    Malformed <- MCMalformed
    NotifySize = 2
    MaxAttempts = 3
    MaxNotifications = 1
INVARIANT GivesUpAfterFailuresInARow
