----------------------------- MODULE MCReceiver -----------------------------
(***************************************************************************)
(* Two plugins, an instrument and a plugin that the native host does not   *)
(* take for one, each in a service of its own.                             *)
(***************************************************************************)
EXTENDS AudioPluginMidiReceiver

CONSTANTS synth, effect, synthService, effectService

MCServiceOf == [p \in {synth, effect} |-> IF p = synth THEN synthService ELSE effectService]
=============================================================================
