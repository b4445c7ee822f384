-------------------------- MODULE ApplicationModel --------------------------
(***************************************************************************)
(* The app's model of itself (ApplicationModel.kt) and the screen that     *)
(* drives it (App.kt): the settings with the preferences they are kept in, *)
(* and the app's own MIDI client.                                          *)
(*                                                                         *)
(* openDevice answers on the main thread some time after it was called; a  *)
(* note is a coroutine on another thread that sleeps between its two       *)
(* messages; the preferences are written to disk some time after apply().  *)
(* An exception nobody catches kills the process, and so may Android: the  *)
(* model is then made anew from what the disk has.                         *)
(***************************************************************************)
EXTENDS Integers

CONSTANTS Plugins,      \* instruments
          None,         \* null
          Notes,        \* coroutines of playNote
          MaxOpening    \* bound: no "Start" with so many calls of openDevice unanswered

ASSUME NoneAssumption == None \notin Plugins
ASSUME MaxOpeningAssumption == MaxOpening \in Nat

VARIABLES
  known,                         \* allPlugins, queried when the process starts
  specifiedInstrument, useMidi2Protocol,
  written, disk,                 \* the preferences in memory and on disk
  midiManagerInitialized, portOpen, opening,
  button,                        \* midiManagerInitializedState: "Stop" is shown
  note, owed,                    \* the coroutines; notes on that were not sent off
  fault,                         \* the exception that killed the process
  chosen, lost,                  \* history: the user's last choices, unless lost
  hasty                          \* history: a press too early, in this process

settings == <<known, specifiedInstrument, useMidi2Protocol, written, chosen, lost>>
client == <<midiManagerInitialized, portOpen, opening, button, hasty>>
music == <<note, owed>>
vars == <<settings, disk, client, music, fault>>

Preferences == [plugin : Plugins \cup {None}, midi2 : BOOLEAN]
Idle == [pc |-> "idle", midi2 |-> FALSE]
Running == fault = "none"

Init ==
  /\ known \in SUBSET Plugins \ {{}}
  /\ specifiedInstrument = None /\ useMidi2Protocol = FALSE
  /\ written = [plugin |-> None, midi2 |-> FALSE] /\ disk = written
  /\ midiManagerInitialized = FALSE /\ portOpen = FALSE /\ opening = 0 /\ button = FALSE
  /\ note = [n \in Notes |-> Idle] /\ owed = {}
  /\ fault = "none" /\ chosen = written /\ lost = FALSE /\ hasty = FALSE

Crash(exception) ==
  /\ fault' = exception /\ owed' = {}
  /\ UNCHANGED <<settings, disk, client, note>>
-----------------------------------------------------------------------------
(* Plausible bugs in the code below; no action of Next uses them.          *)

(* The last used instrument taken without a look at what is installed.     *)
LastUsedUnchecked(k) == disk.plugin

(* initializeMidi that does not wait for the answer.                       *)
InitializedAtOnce ==
  /\ Running /\ ~button /\ opening < MaxOpening
  /\ button' = TRUE /\ midiManagerInitialized' = TRUE
  /\ opening' = IF midiManagerInitialized THEN opening ELSE opening + 1
  /\ UNCHANGED <<settings, disk, portOpen, hasty, music, fault>>

(* initializeMidi without its check of midiManagerInitialized.             *)
InitializeAgain ==
  /\ Running /\ ~button /\ opening < MaxOpening
  /\ button' = TRUE /\ opening' = opening + 1
  /\ hasty' = (hasty \/ opening > 0)
  /\ UNCHANGED <<settings, disk, midiManagerInitialized, portOpen, music, fault>>

(* playNote that looks at the protocol again for the note-off.             *)
NoteOffRereads(n) ==
  /\ Running /\ note[n].pc = "on"
  /\ \/ ~portOpen /\ Crash("send")
     \/ /\ portOpen
        /\ note' = [note EXCEPT ![n] = Idle]
        /\ owed' = IF useMidi2Protocol = note[n].midi2 THEN owed \ {n} ELSE owed
        /\ UNCHANGED <<settings, disk, client, fault>>

(* The setter that forgets to save.                                        *)
SelectWithoutSaving(p) ==
  /\ Running /\ p \in known
  /\ specifiedInstrument' = p
  /\ chosen' = [plugin |-> p, midi2 |-> useMidi2Protocol] /\ lost' = FALSE
  /\ UNCHANGED <<known, useMidi2Protocol, written, disk, client, music, fault>>
-----------------------------------------------------------------------------
(* The settings.                                                           *)

SetSpecifiedInstrument(p) ==
  /\ Running /\ p \in known
  /\ specifiedInstrument' = p /\ written' = [written EXCEPT !.plugin = p]
  /\ chosen' = [plugin |-> p, midi2 |-> useMidi2Protocol] /\ lost' = FALSE
  /\ UNCHANGED <<known, useMidi2Protocol, disk, client, music, fault>>

SetUseMidi2Protocol(v) ==
  /\ Running
  /\ useMidi2Protocol' = v /\ written' = [written EXCEPT !.midi2 = v]
  /\ chosen' = [chosen EXCEPT !.midi2 = v]
  /\ UNCHANGED <<known, specifiedInstrument, lost, disk, client, music, fault>>

(* Android writes the preferences.                                         *)
Flush ==
  /\ Running
  /\ disk' = written
  /\ UNCHANGED <<settings, client, music, fault>>

Instrument ==
  IF specifiedInstrument # None THEN specifiedInstrument ELSE CHOOSE p \in known : TRUE

LastUsedInstrument(k) == IF disk.plugin \in k THEN disk.plugin ELSE None

(* A new process, with the plugins that are installed by then.  The init   *)
(* block reads the preferences through the setters, which write them back. *)
Restart(k) ==
  /\ known' = k
  /\ specifiedInstrument' = LastUsedInstrument(k) /\ useMidi2Protocol' = disk.midi2
  /\ written' = [plugin |-> LastUsedInstrument(k), midi2 |-> disk.midi2]
  /\ lost' = (lost \/ disk # written \/ chosen.plugin \notin k \cup {None})
  /\ midiManagerInitialized' = FALSE /\ portOpen' = FALSE /\ opening' = 0 /\ button' = FALSE
  /\ hasty' = FALSE
  /\ note' = [n \in Notes |-> Idle] /\ owed' = {}
  /\ fault' = "none"
  /\ UNCHANGED <<disk, chosen>>
-----------------------------------------------------------------------------
(* The MIDI client.  `hasty` remembers Start pressed while openDevice has   *)
(* not answered, and Stop pressed with a note under way.                   *)

InitializeMidi ==
  /\ Running /\ ~button /\ opening < MaxOpening
  /\ button' = TRUE
  /\ opening' = IF midiManagerInitialized THEN opening ELSE opening + 1
  /\ hasty' = (hasty \/ opening > 0)
  /\ UNCHANGED <<settings, disk, midiManagerInitialized, portOpen, music, fault>>

MayAnswer == Running /\ opening > 0

(* An input port that is open cannot be opened again: openInputPort then   *)
(* returns null.                                                           *)
OnDeviceOpened ==
  /\ MayAnswer
  /\ opening' = opening - 1
  /\ \/ UNCHANGED <<midiManagerInitialized, portOpen, owed, fault>>
     \/ /\ ~portOpen
        /\ portOpen' = TRUE /\ midiManagerInitialized' = TRUE
        /\ UNCHANGED <<owed, fault>>
     \/ /\ portOpen
        /\ fault' = "openInputPort" /\ owed' = {}
        /\ UNCHANGED <<midiManagerInitialized, portOpen>>
  /\ UNCHANGED <<settings, disk, button, hasty, note>>

(* Whether the service stops the synth with the port, and whether it hears *)
(* a note-off, is its own affair: `owed` is about what the client sends.   *)
TerminateMidi ==
  /\ Running /\ button
  /\ button' = FALSE
  /\ IF midiManagerInitialized
       THEN portOpen' = FALSE /\ midiManagerInitialized' = FALSE
       ELSE UNCHANGED <<portOpen, midiManagerInitialized>>
  /\ hasty' = (hasty \/ \E n \in Notes : note[n].pc # "idle")
  /\ UNCHANGED <<settings, disk, opening, music, fault>>

(* The screen is built again, for example after a rotation.                *)
Recompose ==
  /\ Running
  /\ button' = midiManagerInitialized
  /\ UNCHANGED <<settings, disk, midiManagerInitialized, portOpen, opening, hasty, music, fault>>

PlayNote(n) ==
  /\ Running /\ midiManagerInitialized /\ note[n].pc = "idle"
  /\ note' = [note EXCEPT ![n].pc = "launched"]
  /\ UNCHANGED <<settings, disk, client, owed, fault>>

(* send() on a closed port throws.                                         *)
NoteOn(n) ==
  /\ Running /\ note[n].pc = "launched"
  /\ \/ ~portOpen /\ Crash("send")
     \/ /\ portOpen
        /\ note' = [note EXCEPT ![n] = [pc |-> "on", midi2 |-> useMidi2Protocol]]
        /\ owed' = owed \cup {n}
        /\ UNCHANGED <<settings, disk, client, fault>>

NoteOff(n) ==
  /\ Running /\ note[n].pc = "on"
  /\ \/ ~portOpen /\ Crash("send")
     \/ /\ portOpen
        /\ note' = [note EXCEPT ![n] = Idle]
        /\ owed' = owed \ {n}
        /\ UNCHANGED <<settings, disk, client, fault>>
-----------------------------------------------------------------------------
Coroutine(n) == NoteOn(n) \/ NoteOff(n)

Next ==
  \/ \E p \in Plugins : SetSpecifiedInstrument(p)
  \/ \E v \in BOOLEAN : SetUseMidi2Protocol(v)
  \/ Flush
  \/ \E k \in SUBSET Plugins \ {{}} : Restart(k)
  \/ InitializeMidi \/ OnDeviceOpened \/ TerminateMidi \/ Recompose
  \/ \E n \in Notes : PlayNote(n) \/ Coroutine(n)

Spec == Init /\ [][Next]_vars

(* A coroutine is scheduled and its delay ends.                            *)
FairSpec == Spec /\ \A n \in Notes : WF_vars(Coroutine(n))
-----------------------------------------------------------------------------
(* Types of the settings, of the client and of the coroutines; the chosen  *)
(* instrument is one that is installed.                                    *)
TypeOK ==
  /\ known \in SUBSET Plugins
  /\ specifiedInstrument \in known \cup {None} /\ useMidi2Protocol \in BOOLEAN
  /\ written \in Preferences /\ disk \in Preferences /\ chosen \in Preferences
  /\ midiManagerInitialized \in BOOLEAN /\ portOpen \in BOOLEAN /\ opening \in Nat
  /\ button \in BOOLEAN /\ lost \in BOOLEAN /\ hasty \in BOOLEAN
  /\ note \in [Notes -> [pc : {"idle", "launched", "on"}, midi2 : BOOLEAN]]
  /\ owed \in SUBSET Notes
  /\ fault \in {"none", "openInputPort", "send"}

(* However the answers of openDevice and the presses of the button mix,    *)
(* the flag that guards the client tells whether it has a port.            *)
InitializedMeansOpen == Running => (midiManagerInitialized <=> portOpen)

(* "it is not implemented to be restartable yet" (ApplicationModel.kt:82), *)
(* and nobody catches what openInputPort and send() throw: nothing else    *)
(* than a press too early makes them throw, however the answers, the       *)
(* coroutines and the screen's own idea of the state interleave.           *)
CrashOnlyByHaste == ~hasty => Running

(* "save instrument as the last used one, so that it can be the default":  *)
(* it is, in every later process, unless the process died before the write *)
(* or the plugin was missing at one start.                                 *)
LastUsedIsDefault ==
  ~lost => /\ chosen.plugin # None => Instrument = chosen.plugin
           /\ useMidi2Protocol = chosen.midi2

(* After a note-on the coroutine sends the note-off in the same protocol,  *)
(* whatever the user sets, stops and starts meanwhile, unless the process  *)
(* dies, and the service with the synth in it.                             *)
NoteOffsSent == \A n \in Notes : n \in owed ~> n \notin owed
=============================================================================
