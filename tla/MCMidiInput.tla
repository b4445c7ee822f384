---------------------------- MODULE MCMidiInput -----------------------------
(***************************************************************************)
(* A MIDI 1.0 session; the layout of MIDI 2.0 has one field less.          *)
(***************************************************************************)
EXTENDS MidiInputBuffer
=============================================================================
