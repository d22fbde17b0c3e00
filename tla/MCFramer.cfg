SPECIFICATION Spec
CONSTANTS
  Chars = {a, b}
  EOL = eol
  Noise = noise
  ALARMDECODER_MAX_MESSAGE_SIZE = 4
  ErrorWrap = 3
  Chunks <- MCChunks
PROPERTIES
  AssemblesLines
