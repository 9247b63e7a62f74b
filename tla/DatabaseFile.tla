---------------------------- MODULE DatabaseFile ----------------------------
(***************************************************************************)
(* What acquisition promises of one database's path: nothing there, or a   *)
(* whole build its provider published and the guard admits, replaced in    *)
(* one step and never by an older one.                                     *)
(***************************************************************************)
EXTENDS Integers

CONSTANTS
  Build,   \* the builds a provider may publish, numbered from 1
  Unfit    \* those the format check or the guard refuses

VARIABLES
  published,  \* the newest build the provider serves
  file        \* the build at the path, 0 for none

vars == <<published, file>>

Init == published = 1 /\ file = 0

PublishBuild ==
  /\ published + 1 \in Build
  /\ published' = published + 1
  /\ UNCHANGED file

(* A download passes every check and is renamed into place.                *)
Install(b) ==
  /\ b \notin Unfit
  /\ b <= published
  /\ b >= file
  /\ file' = b
  /\ UNCHANGED published

Next == PublishBuild \/ \E b \in Build : Install(b)

Spec == Init /\ [][Next]_vars
=============================================================================
