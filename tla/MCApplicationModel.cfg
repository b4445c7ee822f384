SPECIFICATION FairSpec
CONSTANTS
  piano = piano
  organ = organ
  Plugins = {piano, organ}
  None = None
  Notes = {1, 2}
  MaxOpening = 2
INVARIANTS TypeOK InitializedMeansOpen CrashOnlyByHaste LastUsedIsDefault
PROPERTIES NoteOffsSent
