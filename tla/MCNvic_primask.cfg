SPECIFICATION Spec
CONSTANTS
  Internal = {15}
  External = {22, 53}
  Uarts = {53}
  Priorities = {16, 32}
  StirValues = {15}
PROPERTIES MaskedNotTaken
CHECK_DEADLOCK FALSE
