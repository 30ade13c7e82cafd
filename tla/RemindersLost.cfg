SPECIFICATION Spec
CONSTANTS
  MaxReminders = 2
  ReadsFail = FALSE
INVARIANT NoReminderLost
