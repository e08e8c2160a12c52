SPECIFICATION DisplaySpec
CONSTANTS
  Keys = {0, 1, 2, 3, 4, 5, 6, 7, 8, 9, 10, 11, 12, 13, 14, 15}
  MaxPressed = 2
  XNums = {0, 11}
  Window = 5
PROPERTIES DigitsFollow KeyLights FirstKeyStays GlitchFiltered
