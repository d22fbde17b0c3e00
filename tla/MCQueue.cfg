SPECIFICATION FairSpec
CONSTANTS
  Accounts = {1, 2}
  NotifyLists <- TwoLists
  Components = {"twilio", "pushover"}
  Settable = {1}
  InitialType <- CallAndMessage
  HTTP_SEND_QUEUE_SIZE = 2
  MaxRequests = 3
INVARIANTS RequestsAreHandledOnce
PROPERTIES RequestsAreServed
