SPECIFICATION Spec
CONSTANTS
  Debounce = 2
  Delay = 4
  Hold = 9
PROPERTY RestartInSoftap
