CONSTANTS
    TopicNames = {news}
    Actions = {"subscribe", "unsubscribe"}
    MaxOperations = 3
    MaxFailures = 0
SPECIFICATION TopicsSpec
INVARIANT LastWordWins
CHECK_DEADLOCK FALSE
