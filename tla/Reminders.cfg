SPECIFICATION Spec
CONSTANTS
  MaxReminders = 3
  ReadsFail = TRUE
INVARIANT SpokenAtMostOnce
INVARIANT StoreMatchesCommands
PROPERTY DueReminderIsTaken
