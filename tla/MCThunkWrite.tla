---------------------------- MODULE MCThunkWrite ----------------------------
(***************************************************************************)
(* Three writers and two thunk ids: two writers of one id race while a     *)
(* third is independent, in every assignment of jobs.                      *)
(***************************************************************************)
EXTENDS ThunkWrite
=============================================================================
