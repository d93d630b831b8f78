SPECIFICATION Spec
CONSTANTS
  Handlers = {h1, h2}
  RefundIds = {r1, r2}
  Tickets = {t1}
  Price = 1
  Amounts = {1}
  MaxNotices = 2
SYMMETRY Symmetry
INVARIANTS TypeOK RefundsWithinPayment OneVoucher ConfirmedIsWhole
PROPERTIES RefundsFollowTransitions OthersKeepSeats UsedIsNotCancelled
