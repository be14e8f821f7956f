CONSTANTS
    Lines <- MCLines
    MaxText = 5
SPECIFICATION Spec
INVARIANT PromptTrue
PROPERTIES BatchComplete PromptReturns
