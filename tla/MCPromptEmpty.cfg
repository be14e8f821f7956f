CONSTANTS
    Lines <- MCLines
    MaxText = 3
SPECIFICATION Spec
PROPERTY BackToPrompt
