---------------------------- MODULE TemplateList ----------------------------
(***************************************************************************)
(* What the program promises about its list of templates.  The sensor      *)
(* changes what it stores; the list follows, later.  It is never two       *)
(* changes behind: before the sensor enrols again the list is up to date,  *)
(* and while templates go the list still has all that are left.  Whenever  *)
(* the list changes it becomes what is stored at that moment.  A program   *)
(* may lose track, and then knows nothing until it says so again.          *)
(* "FPDSystem" implements it, see FPDSystemListProofs.                     *)
(***************************************************************************)
CONSTANTS Templates, Lost

VARIABLES
  stored,   \* the templates in the sensor
  listed    \* those on the list, or Lost

templateVars == <<stored, listed>>

Init == stored \in SUBSET Templates /\ listed = Lost

Enrol(template) ==
  /\ listed \in {stored, Lost}
  /\ template \notin stored
  /\ stored' = stored \union {template}
  /\ UNCHANGED listed

Remove(template) ==
  /\ listed = Lost \/ stored \subseteq listed
  /\ stored' = stored \ {template}
  /\ UNCHANGED listed

Update == listed' = stored /\ UNCHANGED stored

LoseTrack == listed' = Lost /\ UNCHANGED stored

Next ==
  \/ \E template \in Templates : Enrol(template) \/ Remove(template)
  \/ Update
  \/ LoseTrack

Spec == Init /\ [][Next]_templateVars
=============================================================================
