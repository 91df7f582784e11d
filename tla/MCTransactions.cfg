SPECIFICATION MCSpec
CONSTANTS
  Utxos = {1, 2, 3}
  Amount <- MCAmount
  FirstOwned <- MCFirstOwned
  Garbage = Garbage
  GarbageAmounts = {9}
  Wanted = {3}
  MaxNumUtxos = 3
  BufferLen = 5
  PartLen = 3
  MaxRequests = 2
  MaxChanges = 1
  MaxAdds = 1
  Transactions <- MCTransactionSet
  MaxLost = 2
INVARIANTS NoWritePastTable OneResultEach
PROPERTIES TransactionIsSound BroadcastIsWhole SentIsAnswered
CHECK_DEADLOCK FALSE
