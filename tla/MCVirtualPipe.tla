---------------------------- MODULE MCVirtualPipe ----------------------------
(* Small instances of VirtualPipe for TLC.                                 *)
EXTENDS VirtualPipe, TLC

CONSTANTS r1, r2, w1, w2

MCReaders == {r1, r2}
MCWriters == {w1, w2}
MCOneWriter == {w1}
=============================================================================
