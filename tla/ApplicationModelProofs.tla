----------------------- MODULE ApplicationModelProofs -----------------------
(***************************************************************************)
(* The client's flag and the saved settings, for any plugins, any number   *)
(* of notes and of unanswered openDevice calls.                            *)
(***************************************************************************)
EXTENDS ApplicationModel, TLAPS

(* The preferences are the settings, and the user's choices if not lost.   *)
Saved ==
  /\ written = [plugin |-> specifiedInstrument, midi2 |-> useMidi2Protocol]
  /\ ~lost => written = chosen

PreferencesOK ==
  /\ known \in SUBSET Plugins
  /\ written \in Preferences /\ disk \in Preferences /\ chosen \in Preferences
  /\ specifiedInstrument \in known \cup {None} /\ useMidi2Protocol \in BOOLEAN

SettingsInv == PreferencesOK /\ Saved

LEMMA SettingsInit == Init => SettingsInv
<1> SUFFICES ASSUME Init PROVE SettingsInv
  OBVIOUS
<1>1. /\ written = [plugin |-> None, midi2 |-> FALSE] /\ disk = written /\ chosen = written
      /\ specifiedInstrument = None /\ known \in SUBSET Plugins
  BY DEF Init
<1>2. useMidi2Protocol = FALSE
  BY Zenon DEF Init
<1>3. written \in Preferences
  BY <1>1 DEF Preferences
<1> QED BY <1>1, <1>2, <1>3 DEF SettingsInv, PreferencesOK, Saved

LEMMA SettingsStep == SettingsInv /\ [Next]_vars => SettingsInv'
<1> SUFFICES ASSUME SettingsInv, [Next]_vars PROVE SettingsInv'
  OBVIOUS
<1> USE DEF SettingsInv, PreferencesOK, Saved
<1>1. ASSUME NEW p \in Plugins, SetSpecifiedInstrument(p) PROVE SettingsInv'
  <2>1. /\ specifiedInstrument' = p /\ written' = [written EXCEPT !.plugin = p]
        /\ chosen' = [plugin |-> p, midi2 |-> useMidi2Protocol]
        /\ UNCHANGED <<known, useMidi2Protocol, disk>>
    BY <1>1 DEF SetSpecifiedInstrument
  <2>2. written' \in Preferences /\ chosen' \in Preferences
    BY <2>1 DEF Preferences
  <2>3. p \in known
    BY <1>1 DEF SetSpecifiedInstrument
  <2> QED BY <2>1, <2>2, <2>3 DEF Preferences
<1>2. ASSUME NEW v \in BOOLEAN, SetUseMidi2Protocol(v) PROVE SettingsInv'
  <2>1. /\ useMidi2Protocol' = v /\ written' = [written EXCEPT !.midi2 = v]
        /\ chosen' = [chosen EXCEPT !.midi2 = v]
        /\ UNCHANGED <<known, specifiedInstrument, disk>>
    BY <1>2 DEF SetUseMidi2Protocol
  <2>2. lost' = lost
    BY <1>2, Zenon DEF SetUseMidi2Protocol
  <2>3. written' \in Preferences /\ chosen' \in Preferences
    BY <2>1 DEF Preferences
  <2>4. written' = [plugin |-> specifiedInstrument, midi2 |-> v]
    BY <2>1
  <2>5. Saved'
    BY <2>1, <2>2, <2>4
  <2> QED BY <2>1, <2>3, <2>5
<1>3. ASSUME NEW k \in SUBSET Plugins \ {{}}, Restart(k) PROVE SettingsInv'
  <2> DEFINE last == LastUsedInstrument(k)
  <2>1. /\ known' = k /\ specifiedInstrument' = last /\ useMidi2Protocol' = disk.midi2
        /\ written' = [plugin |-> last, midi2 |-> disk.midi2]
        /\ UNCHANGED <<disk, chosen>>
    BY <1>3 DEF Restart
  <2>2. lost' = (lost \/ disk # written \/ chosen.plugin \notin k \cup {None})
    BY <1>3, Zenon DEF Restart
  <2>3. last \in k \cup {None}
    BY DEF LastUsedInstrument
  <2>4. written' \in Preferences
    BY <2>1, <2>3 DEF Preferences
  <2>5. ASSUME ~lost' PROVE disk = chosen /\ last = chosen.plugin
    BY <2>2, <2>5, NoneAssumption DEF LastUsedInstrument, Preferences
  <2>6. Saved'
    <3> SUFFICES ASSUME ~lost'
                 PROVE  written' = chosen'
      BY <2>1 DEF Saved
    <3>1. disk = chosen /\ last = chosen.plugin
      BY <2>5
    <3>2. [plugin |-> chosen.plugin, midi2 |-> chosen.midi2] = chosen
      BY DEF Preferences
    <3> QED BY <2>1, <3>1, <3>2
  <2>7. disk.midi2 \in BOOLEAN
    BY DEF Preferences
  <2> QED BY <2>1, <2>3, <2>4, <2>6, <2>7
<1>4. CASE Flush
  BY <1>4 DEF Flush, settings
<1>5. CASE UNCHANGED <<settings, disk>>
  BY <1>5 DEF settings
<1>6. ASSUME InitializeMidi \/ OnDeviceOpened \/ TerminateMidi \/ Recompose
      PROVE  UNCHANGED <<settings, disk>>
  BY <1>6 DEF InitializeMidi, OnDeviceOpened, TerminateMidi, Recompose
<1>7. ASSUME NEW n \in Notes, PlayNote(n) \/ Coroutine(n)
      PROVE  UNCHANGED <<settings, disk>>
  BY <1>7 DEF PlayNote, Coroutine, NoteOn, NoteOff, Crash
<1>8. CASE UNCHANGED vars
  BY <1>8, <1>5 DEF vars
<1> QED BY <1>1, <1>2, <1>3, <1>4, <1>5, <1>6, <1>7, <1>8 DEF Next

(* "save instrument as the last used one, so that it can be the default":  *)
(* for any history of choices, writes, restarts and missing plugins.       *)
THEOREM LastUsedSurvives == Spec => []LastUsedIsDefault
<1>1. SettingsInv => LastUsedIsDefault
  BY DEF SettingsInv, PreferencesOK, Saved, LastUsedIsDefault, Instrument
<1> QED BY <1>1, SettingsInit, SettingsStep, PTL DEF Spec
-----------------------------------------------------------------------------
(***************************************************************************)
(* The port.  Only an answer opens it, and only if it is not open.         *)
(***************************************************************************)
ClientInv ==
  /\ midiManagerInitialized \in BOOLEAN /\ portOpen \in BOOLEAN
  /\ midiManagerInitialized <=> portOpen

LEMMA ClientInit == Init => ClientInv
BY Zenon DEF Init, ClientInv

LEMMA ClientStep == ClientInv /\ [Next]_vars => ClientInv'
<1> SUFFICES ASSUME ClientInv, [Next]_vars PROVE ClientInv'
  OBVIOUS
<1>1. CASE UNCHANGED <<midiManagerInitialized, portOpen>>
  BY <1>1, Zenon DEF ClientInv
<1>2. CASE OnDeviceOpened
  <2>1. \/ midiManagerInitialized' = midiManagerInitialized /\ portOpen' = portOpen
        \/ portOpen' = TRUE /\ midiManagerInitialized' = TRUE
    BY <1>2, Zenon DEF OnDeviceOpened
  <2>2. CASE portOpen' = TRUE /\ midiManagerInitialized' = TRUE
    BY <2>2, Zenon DEF ClientInv
  <2> QED BY <2>1, <2>2, <1>1
<1>3. CASE TerminateMidi
  <2>1. \/ midiManagerInitialized' = midiManagerInitialized /\ portOpen' = portOpen
        \/ portOpen' = FALSE /\ midiManagerInitialized' = FALSE
    BY <1>3, Zenon DEF TerminateMidi
  <2>2. CASE portOpen' = FALSE /\ midiManagerInitialized' = FALSE
    BY <2>2, Zenon DEF ClientInv
  <2> QED BY <2>1, <2>2, <1>1
<1>4. ASSUME NEW k \in SUBSET Plugins \ {{}}, Restart(k) PROVE ClientInv'
  <2>1. portOpen' = FALSE /\ midiManagerInitialized' = FALSE
    BY <1>4, Zenon DEF Restart
  <2> QED BY <2>1, Zenon DEF ClientInv
<1>5. ASSUME NEW p \in Plugins, SetSpecifiedInstrument(p)
      PROVE  UNCHANGED <<midiManagerInitialized, portOpen>>
  BY <1>5 DEF SetSpecifiedInstrument, client
<1>6. ASSUME NEW v \in BOOLEAN, SetUseMidi2Protocol(v)
      PROVE  UNCHANGED <<midiManagerInitialized, portOpen>>
  BY <1>6 DEF SetUseMidi2Protocol, client
<1>7. ASSUME Flush \/ InitializeMidi \/ Recompose
      PROVE  UNCHANGED <<midiManagerInitialized, portOpen>>
  BY <1>7 DEF Flush, InitializeMidi, Recompose, client
<1>8. ASSUME NEW n \in Notes, PlayNote(n) \/ Coroutine(n)
      PROVE  UNCHANGED <<midiManagerInitialized, portOpen>>
  BY <1>8 DEF PlayNote, Coroutine, NoteOn, NoteOff, Crash, client
<1>9. CASE UNCHANGED vars
  BY <1>9, <1>1 DEF vars, client
<1> QED BY <1>1, <1>2, <1>3, <1>4, <1>5, <1>6, <1>7, <1>8, <1>9 DEF Next

(* The flag tells whether the client has a port: initializeMidi cannot     *)
(* leave one open behind it, and terminateMidi closes the one there is.    *)
THEOREM FlagTellsPort == Spec => []InitializedMeansOpen
<1>1. ClientInv => InitializedMeansOpen
  BY Zenon DEF ClientInv, InitializedMeansOpen
<1> QED BY <1>1, ClientInit, ClientStep, PTL DEF Spec
-----------------------------------------------------------------------------
(***************************************************************************)
(* The types that are left: the client, the coroutines, what has happened. *)
(***************************************************************************)
NoteStates == [pc : {"idle", "launched", "on"}, midi2 : BOOLEAN]

FlagTypes ==
  /\ midiManagerInitialized \in BOOLEAN /\ portOpen \in BOOLEAN
  /\ button \in BOOLEAN /\ lost \in BOOLEAN /\ hasty \in BOOLEAN

MusicTypes ==
  /\ opening \in Nat
  /\ note \in [Notes -> NoteStates] /\ owed \in SUBSET Notes
  /\ fault \in {"none", "openInputPort", "send"}

LEMMA FlagTypesInit == Init => FlagTypes
BY Zenon DEF Init, FlagTypes

LEMMA FlagTypesStep == FlagTypes /\ [Next]_vars => FlagTypes'
<1> SUFFICES ASSUME FlagTypes, [Next]_vars PROVE FlagTypes'
  OBVIOUS
<1> USE DEF FlagTypes
<1>1. CASE UNCHANGED <<midiManagerInitialized, portOpen, button, hasty, lost>>
  BY <1>1, Zenon
<1>2. ASSUME NEW p \in Plugins, SetSpecifiedInstrument(p) PROVE FlagTypes'
  <2>1. lost' = FALSE /\ UNCHANGED client
    BY <1>2, Zenon DEF SetSpecifiedInstrument
  <2>2. UNCHANGED <<midiManagerInitialized, portOpen, button, hasty>>
    BY <2>1 DEF client
  <2> QED BY <2>1, <2>2, Zenon
<1>3. ASSUME NEW v \in BOOLEAN, SetUseMidi2Protocol(v)
      PROVE  UNCHANGED <<midiManagerInitialized, portOpen, button, hasty, lost>>
  BY <1>3 DEF SetUseMidi2Protocol, client
<1>4. ASSUME NEW k \in SUBSET Plugins \ {{}}, Restart(k) PROVE FlagTypes'
  <2>1. /\ midiManagerInitialized' = FALSE /\ portOpen' = FALSE /\ button' = FALSE /\ hasty' = FALSE
        /\ lost' = (lost \/ disk # written \/ chosen.plugin \notin k \cup {None})
    BY <1>4, Zenon DEF Restart
  <2> QED BY <2>1, Zenon
<1>5. CASE InitializeMidi
  <2>1. button' = TRUE /\ hasty' = (hasty \/ opening > 0)
    BY <1>5, Zenon DEF InitializeMidi
  <2>2. UNCHANGED <<midiManagerInitialized, portOpen, lost>>
    BY <1>5 DEF InitializeMidi, settings
  <2> QED BY <2>1, <2>2, Zenon
<1>6. CASE OnDeviceOpened
  <2>1. \/ portOpen' = TRUE /\ midiManagerInitialized' = TRUE
        \/ UNCHANGED <<midiManagerInitialized, portOpen>>
    BY <1>6, Zenon DEF OnDeviceOpened
  <2>2. UNCHANGED <<button, hasty, lost>>
    BY <1>6 DEF OnDeviceOpened, settings
  <2> QED BY <2>1, <2>2, Zenon
<1>7. CASE TerminateMidi
  <2>1. button' = FALSE /\ hasty' = (hasty \/ \E n \in Notes : note[n].pc # "idle")
    BY <1>7, Zenon DEF TerminateMidi
  <2>2. \/ portOpen' = FALSE /\ midiManagerInitialized' = FALSE
        \/ UNCHANGED <<midiManagerInitialized, portOpen>>
    BY <1>7, Zenon DEF TerminateMidi
  <2>3. UNCHANGED lost
    BY <1>7 DEF TerminateMidi, settings
  <2> QED BY <2>1, <2>2, <2>3, Zenon
<1>8. CASE Recompose
  <2>1. button' = midiManagerInitialized
    BY <1>8, Zenon DEF Recompose
  <2>2. UNCHANGED <<midiManagerInitialized, portOpen, hasty, lost>>
    BY <1>8 DEF Recompose, settings
  <2> QED BY <2>1, <2>2, Zenon
<1>9. CASE Flush
  BY <1>9, <1>1 DEF Flush, settings, client
<1>10. ASSUME NEW n \in Notes, PlayNote(n) \/ Coroutine(n)
       PROVE  UNCHANGED <<midiManagerInitialized, portOpen, button, hasty, lost>>
  BY <1>10 DEF PlayNote, Coroutine, NoteOn, NoteOff, Crash, settings, client
<1>11. CASE UNCHANGED vars
  BY <1>11, <1>1 DEF vars, settings, client
<1> QED BY <1>1, <1>2, <1>3, <1>4, <1>5, <1>6, <1>7, <1>8, <1>9, <1>10, <1>11 DEF Next

LEMMA MusicTypesInit == Init => MusicTypes
BY DEF Init, MusicTypes, NoteStates, Idle

LEMMA MusicTypesStep ==
  SettingsInv /\ MusicTypes /\ [Next]_vars => MusicTypes'
<1> SUFFICES ASSUME SettingsInv, MusicTypes, [Next]_vars PROVE MusicTypes'
  OBVIOUS
<1> USE DEF MusicTypes, NoteStates
<1>1. CASE UNCHANGED <<opening, note, owed, fault>>
  BY <1>1
<1>2. ASSUME NEW n \in Notes, note' = [note EXCEPT ![n] = Idle]
      PROVE  note' \in [Notes -> NoteStates]
  BY <1>2 DEF Idle
<1>3. CASE OnDeviceOpened
  <2>1. opening > 0 /\ opening' = opening - 1 /\ UNCHANGED note
    BY <1>3 DEF OnDeviceOpened, MayAnswer
  <2>2. \/ UNCHANGED <<owed, fault>>
        \/ fault' = "openInputPort" /\ owed' = {}
    BY <1>3 DEF OnDeviceOpened
  <2> QED BY <2>1, <2>2
<1>4. CASE InitializeMidi
  <2>1. opening' = opening \/ opening' = opening + 1
    BY <1>4 DEF InitializeMidi
  <2>2. UNCHANGED <<note, owed, fault>>
    BY <1>4 DEF InitializeMidi, music
  <2> QED BY <2>1, <2>2
<1>5. CASE TerminateMidi
  <2>1. UNCHANGED <<opening, note, owed, fault>>
    BY <1>5 DEF TerminateMidi, music
  <2> QED BY <2>1
<1>6. ASSUME NEW k \in SUBSET Plugins \ {{}}, Restart(k) PROVE MusicTypes'
  <2>1. opening' = 0 /\ note' = [n \in Notes |-> Idle] /\ owed' = {} /\ fault' = "none"
    BY <1>6 DEF Restart
  <2> QED BY <2>1 DEF Idle
<1>7. ASSUME NEW n \in Notes, PlayNote(n) PROVE MusicTypes'
  <2>1. note' = [note EXCEPT ![n].pc = "launched"]
    BY <1>7 DEF PlayNote
  <2>2. note' \in [Notes -> NoteStates]
    BY <2>1
  <2>3. UNCHANGED <<opening, owed, fault>>
    BY <1>7 DEF PlayNote, client
  <2> QED BY <2>2, <2>3
<1>8. ASSUME Crash("send") PROVE MusicTypes'
  BY <1>8 DEF Crash, client
<1>9. ASSUME NEW n \in Notes, NoteOn(n) PROVE MusicTypes'
  <2> SUFFICES ASSUME ~Crash("send") PROVE MusicTypes'
    BY <1>8
  <2>1. note' = [note EXCEPT ![n] = [pc |-> "on", midi2 |-> useMidi2Protocol]]
    BY <1>9 DEF NoteOn
  <2>2. useMidi2Protocol \in BOOLEAN
    BY DEF SettingsInv, PreferencesOK
  <2>3. note' \in [Notes -> NoteStates]
    BY <2>1, <2>2
  <2>4. owed' = owed \cup {n} /\ UNCHANGED <<opening, fault>>
    BY <1>9 DEF NoteOn, client
  <2> QED BY <2>3, <2>4
<1>10. ASSUME NEW n \in Notes, NoteOff(n) PROVE MusicTypes'
  <2> SUFFICES ASSUME ~Crash("send") PROVE MusicTypes'
    BY <1>8
  <2>1. note' \in [Notes -> NoteStates]
    BY <1>2, <1>10 DEF NoteOff
  <2>2. owed' = owed \ {n} /\ UNCHANGED <<opening, fault>>
    BY <1>10 DEF NoteOff, client
  <2> QED BY <2>1, <2>2
<1>11. ASSUME NEW p \in Plugins, SetSpecifiedInstrument(p)
       PROVE  UNCHANGED <<opening, note, owed, fault>>
  BY <1>11 DEF SetSpecifiedInstrument, client, music
<1>12. ASSUME NEW v \in BOOLEAN, SetUseMidi2Protocol(v)
       PROVE  UNCHANGED <<opening, note, owed, fault>>
  BY <1>12 DEF SetUseMidi2Protocol, client, music
<1>13. CASE Flush \/ Recompose
  BY <1>13, <1>1 DEF Flush, Recompose, client, music
<1>14. CASE UNCHANGED vars
  BY <1>14, <1>1 DEF vars, client, music
<1> QED BY <1>1, <1>3, <1>4, <1>5, <1>6, <1>7, <1>9, <1>10, <1>11, <1>12, <1>13, <1>14
        DEF Next, Coroutine

(* No press, answer, choice, coroutine or restart takes a variable of the  *)
(* model out of its type; the specified instrument is always an installed  *)
(* one, also when what the disk names was removed.                         *)
THEOREM TypeCorrect == Spec => []TypeOK
<1>1. Init => SettingsInv /\ FlagTypes /\ MusicTypes
  BY SettingsInit, FlagTypesInit, MusicTypesInit
<1>2. SettingsInv /\ FlagTypes /\ MusicTypes /\ [Next]_vars
        => (SettingsInv /\ FlagTypes /\ MusicTypes)'
  BY SettingsStep, FlagTypesStep, MusicTypesStep
<1>3. SettingsInv /\ FlagTypes /\ MusicTypes => TypeOK
  BY Zenon DEF SettingsInv, PreferencesOK, FlagTypes, MusicTypes, NoteStates, TypeOK
<1> QED BY <1>1, <1>2, <1>3, PTL DEF Spec
-----------------------------------------------------------------------------
(***************************************************************************)
(* Without haste at most one openDevice call is unanswered, and none with  *)
(* the port open; and the port is open as long as a note is under way.     *)
(***************************************************************************)
OneOpening ==
  /\ opening \in {0, 1}
  /\ opening = 1 => ~portOpen

NotesHavePort == \A n \in Notes : note[n].pc # "idle" => portOpen

HasteInv == ~hasty => Running /\ OneOpening /\ NotesHavePort

LEMMA HasteInit == Init => HasteInv
<1> SUFFICES ASSUME Init PROVE HasteInv
  OBVIOUS
<1>1. fault = "none" /\ opening = 0 /\ note = [n \in Notes |-> Idle]
  BY DEF Init
<1>2. \A n \in Notes : note[n].pc = "idle"
  BY <1>1 DEF Idle
<1> QED BY <1>1, <1>2 DEF HasteInv, Running, OneOpening, NotesHavePort

LEMMA HasteStep ==
  ClientInv /\ MusicTypes /\ HasteInv /\ [Next]_vars => HasteInv'
<1> SUFFICES ASSUME ClientInv, MusicTypes, HasteInv, [Next]_vars, ~hasty'
             PROVE  Running' /\ OneOpening' /\ NotesHavePort'
  BY DEF HasteInv
<1>1. CASE UNCHANGED <<client, note, fault>>
  <2>1. UNCHANGED <<hasty, opening, portOpen, note, fault>>
    BY <1>1 DEF client
  <2> QED BY <2>1 DEF HasteInv, Running, OneOpening, NotesHavePort
<1>2. ASSUME NEW k \in SUBSET Plugins \ {{}}, Restart(k)
      PROVE  Running' /\ OneOpening' /\ NotesHavePort'
  <2>1. fault' = "none" /\ opening' = 0 /\ note' = [n \in Notes |-> Idle]
    BY <1>2 DEF Restart
  <2>2. \A n \in Notes : note'[n].pc = "idle"
    BY <2>1 DEF Idle
  <2> QED BY <2>1, <2>2 DEF Running, OneOpening, NotesHavePort
<1>3. CASE InitializeMidi
  <2>1. hasty' = (hasty \/ opening > 0) /\ UNCHANGED <<portOpen, note, fault>>
    BY <1>3 DEF InitializeMidi, music
  <2>a. ~hasty /\ ~(opening > 0)
    BY <2>1, Zenon
  <2>2. opening = 0
    BY <2>a DEF MusicTypes
  <2>3. opening' = IF midiManagerInitialized THEN 0 ELSE 1
    BY <1>3, <2>2 DEF InitializeMidi
  <2>4. OneOpening'
    <3>1. CASE midiManagerInitialized
      BY <2>3, <3>1 DEF OneOpening
    <3>2. CASE ~midiManagerInitialized
      <4>1. ~portOpen
        BY <3>2, Zenon DEF ClientInv
      <4> QED BY <2>1, <2>3, <3>2, <4>1 DEF OneOpening
    <3> QED BY <3>1, <3>2
  <2> QED BY <2>1, <2>a, <2>4 DEF HasteInv, Running, NotesHavePort
<1>4. CASE OnDeviceOpened
  <2>1. UNCHANGED <<hasty, note>> /\ opening > 0 /\ opening' = opening - 1
    BY <1>4 DEF OnDeviceOpened, MayAnswer
  <2>2. Running /\ OneOpening /\ NotesHavePort
    BY <2>1 DEF HasteInv
  <2>3. opening = 1 /\ ~portOpen /\ opening' = 0
    BY <2>1, <2>2 DEF OneOpening
  <2>4. UNCHANGED fault
    BY <1>4, <2>3 DEF OnDeviceOpened
  <2>5. \A n \in Notes : note[n].pc = "idle"
    BY <2>2, <2>3 DEF NotesHavePort
  <2> QED BY <2>1, <2>2, <2>3, <2>4, <2>5 DEF Running, OneOpening, NotesHavePort
<1>5. CASE TerminateMidi
  <2>1. /\ hasty' = (hasty \/ \E n \in Notes : note[n].pc # "idle")
        /\ UNCHANGED <<opening, note, fault>>
    BY <1>5 DEF TerminateMidi, music
  <2>2. ~hasty /\ \A n \in Notes : note[n].pc = "idle"
    BY <2>1
  <2>3. portOpen' = FALSE \/ UNCHANGED portOpen
    BY <1>5 DEF TerminateMidi
  <2> QED BY <2>1, <2>2, <2>3 DEF HasteInv, Running, OneOpening, NotesHavePort
<1>6. CASE Recompose
  <2>1. UNCHANGED <<hasty, opening, portOpen, note, fault>>
    BY <1>6 DEF Recompose, music
  <2> QED BY <2>1 DEF HasteInv, Running, OneOpening, NotesHavePort
<1>7. ASSUME NEW n \in Notes, PlayNote(n) PROVE Running' /\ OneOpening' /\ NotesHavePort'
  <2>1. UNCHANGED <<hasty, opening, portOpen, fault>>
    BY <1>7 DEF PlayNote, client
  <2>2. midiManagerInitialized
    BY <1>7 DEF PlayNote
  <2>3. portOpen
    BY <2>2, Zenon DEF ClientInv
  <2> QED BY <2>1, <2>3 DEF HasteInv, Running, OneOpening, NotesHavePort
<1>8. ASSUME NEW n \in Notes, Coroutine(n) PROVE Running' /\ OneOpening' /\ NotesHavePort'
  <2>1. UNCHANGED <<hasty, opening, portOpen>>
    BY <1>8 DEF Coroutine, NoteOn, NoteOff, Crash, client
  <2>2. Running /\ OneOpening /\ NotesHavePort
    BY <2>1 DEF HasteInv
  <2>3. note[n].pc # "idle"
    BY <1>8 DEF Coroutine, NoteOn, NoteOff
  <2>4. portOpen
    BY <2>2, <2>3 DEF NotesHavePort
  <2>5. UNCHANGED fault
    BY <1>8, <2>4 DEF Coroutine, NoteOn, NoteOff
  <2> QED BY <2>1, <2>2, <2>4, <2>5 DEF Running, OneOpening, NotesHavePort
<1>9. ASSUME NEW p \in Plugins, SetSpecifiedInstrument(p) PROVE UNCHANGED <<client, note, fault>>
  BY <1>9 DEF SetSpecifiedInstrument, music
<1>10. ASSUME NEW v \in BOOLEAN, SetUseMidi2Protocol(v) PROVE UNCHANGED <<client, note, fault>>
  BY <1>10 DEF SetUseMidi2Protocol, music
<1>11. ASSUME Flush \/ UNCHANGED vars PROVE UNCHANGED <<client, note, fault>>
  BY <1>11 DEF Flush, music, vars
<1> QED BY <1>1, <1>2, <1>3, <1>4, <1>5, <1>6, <1>7, <1>8, <1>9, <1>10, <1>11 DEF Next

(* Neither openInputPort nor send() throws, for any number of notes and of *)
(* openings, unless Start is pressed while openDevice has not answered or  *)
(* Stop with a note under way.                                             *)
THEOREM OnlyHasteCrashes == Spec => []CrashOnlyByHaste
<1>1. Init => SettingsInv /\ ClientInv /\ MusicTypes /\ HasteInv
  BY SettingsInit, ClientInit, MusicTypesInit, HasteInit
<1>2. SettingsInv /\ ClientInv /\ MusicTypes /\ HasteInv /\ [Next]_vars
        => (SettingsInv /\ ClientInv /\ MusicTypes /\ HasteInv)'
  BY SettingsStep, ClientStep, MusicTypesStep, HasteStep
<1>3. HasteInv => CrashOnlyByHaste
  BY DEF HasteInv, CrashOnlyByHaste
<1> QED BY <1>1, <1>2, <1>3, PTL DEF Spec
=============================================================================
