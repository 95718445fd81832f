CONSTANTS
  Length = 40
  U8Max = 255
  TokenTypes = {1, 2, 3, 4, 5, 6, 7, 8, 9, 10, 11, 12, 13}
  Predefined <- MCPredefined
  Chars <- MCChars
  MaxText = 4
  Junk = 99
  Instructions <- MCInstructions
  Styles = {"ATT", "INTEL", "MASM"}
  Settings = {}
  Hookable <- MCHooks
  Verdicts = {"SUCCESS", "SKIP_TOKEN", "FAILED"}
  MaxSettings = 2
  MaxSkips = 2
  Glyphs <- MCGlyphs
SPECIFICATION FormatterSpec
INVARIANTS StringIsKept PrintsTheSentence
