\* A status byte of each length and each kind, two channels of which the app listens
\* to one, a zero velocity.
SPECIFICATION ParserSpec
CONSTANTS
  Data = {0, 60}
  Status = {128, 144, 145, 160, 176, 192, 208, 224, 240, 242, 243, 246, 247}
  Realtime = {248, 250, 251, 252, 254}
  Accepted = {0}
INVARIANT ParserTypeOK
INVARIANT InStep
PROPERTY Delivers
