---------------------------- MODULE MCSpinRWMutex ----------------------------
(***************************************************************************)
(* SpinRWMutex for TLC.                                                    *)
(***************************************************************************)
EXTENDS SpinRWMutex, TLC
==============================================================================
