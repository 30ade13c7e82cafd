------------------------------ MODULE MCReminders ------------------------------
(* Three reminders: one that is never due, one due behind it, and one that is  *)
(* added or deleted while the loop holds the other two.                        *)
EXTENDS Reminders
=============================================================================
