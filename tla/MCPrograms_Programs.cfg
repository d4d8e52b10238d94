SPECIFICATION Spec
CONSTANTS
  AheadSize = 3
  Exit = "^]"
  MaxTalk = 1
  MaxAsk = 2
  Plain <- AllKeys
  Sessions <- AllSessions
  Reads <- AllReads
  Jobs <- AllJobs
  ChunkSize = 4
  Mails <- AllMails
  NoFile = NoFile
  NoName = NoName
  NoEntry = NoEntry
  Callers = 2
  Requests <- AllRequests
  Confs <- AllConfs
  Proxies <- SomeProxies
  AllowRules <- Allow
  DenyRules <- Deny
  Accounts = {"bob", "mail", "eve"}
  TaskFiles = {"SHOW"}
INVARIANTS KeysInOrder LineAsEdited TaskOutput MailSettled EntryHonoured
PROPERTIES KeysArrive EveryAnswered
CHECK_DEADLOCK FALSE
