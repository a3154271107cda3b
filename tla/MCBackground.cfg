SPECIFICATION BackgroundSpec
CONSTANTS
  s1 = s1
  s2 = s2
  r1 = r1
  None = None
  Files = {1, 2, 3, 4}
  Large = {2, 4}
  Refused = {4}
  Broken = {1}
  Content <- MCContent
  Scanners = {s1, s2}
  Readers = {r1}
  Batch = 2
  MaxFaults = 1
  Notes = {1, 2}
  Senders = {s1, s2}
  Others = {"SMS"}
  MailBatch = 2
  MaxMailFaults = 1
  MaxEdits = 1
INVARIANTS OnlyCleanIsServed RowsHaveObjects TimelineIsTrue
INVARIANTS MailTellsTheTruth CopiesArePaidFor
PROPERTIES DecidedOnce EverythingIsSettled
CHECK_DEADLOCK FALSE
