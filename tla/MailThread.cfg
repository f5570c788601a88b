SPECIFICATION MCSpec
CONSTANTS
  m1 = m1
  m2 = m2
  Messages = {m1, m2}
  Clicks = {1, 2}
  Cancels = {1, 2}
  Keys = {key}
  key = key
  NoKey = NoKey
  MaxAttempts = 3
  MaxDrafts = 1
  MaxLost = 2
  MaxInterrupts = 1
  first = first
  answer = answer
  Mail = {first, answer}
  NoMail = NoMail
  ReplyTo <- MCReplyTo
  Conversation <- MCShared
  Kinds = {"email", "bounce", "refused"}
  RetryAttempts = 2
  Lookback = 2
  Second = 2
  PageCap = 2
  MaxInstant = 5
  MaxTroubles = 2
  HookInstant = 3
  HookTroubles = 1
  BounceInstant = 4
  t1 = t1
  t2 = t2
  Reminders = {1, 2}
  Threads = {t1, t2}
  NoThread = NoThread
  Requests = {1, 2}
  Processes = {1, 2}
  MaxDates = 2
  PerTick = 1
  MaxFailures = 1
INVARIANT ThreadsHaveARoot
CHECK_DEADLOCK FALSE
