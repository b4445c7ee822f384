-------------------------- MODULE MCMidiEventTime ---------------------------
(* The callback with messages timed against it; a second has 8 parts and a *)
(* cycle 4 of them.  The clock passes the end of a second, then jumps to   *)
(* where the time since a process() may be more than a long of 17 holds.   *)
EXTENDS MidiEventTime
=============================================================================
