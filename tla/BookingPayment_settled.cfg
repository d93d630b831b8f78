SPECIFICATION FairSpec
CONSTANTS
  Methods    = {vnpay, zalopay}
  Amounts    = {1}
  Handlers   = {h1}
  Operations = {"pay", "ipn", "recon", "update"}
  BatchSize  = 2
  MaxOthers  = 1
  NoKey      = NoKey
  NoJob      = NoJob
CHECK_DEADLOCK FALSE
PROPERTIES FinishedOrderIsSettled
