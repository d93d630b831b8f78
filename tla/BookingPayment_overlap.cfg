SPECIFICATION Spec
CONSTANTS
  Methods    = {vnpay}
  Amounts    = {1}
  Handlers   = {h1, h2}
  Operations = {"pay", "ipn", "recon", "admin", "cancel", "void", "refund", "update"}
  BatchSize  = 1
  MaxOthers  = 1
  NoKey      = NoKey
  NoJob      = NoJob
SYMMETRY Symmetry
INVARIANTS TypeOK InitiatorOwnsRow ConfirmedIsPaid PaidBookingIsWhole
PROPERTIES SettledNeverReopens PaymentFollowsPolicy OthersFollowBookingPolicy
