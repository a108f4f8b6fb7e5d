SPECIFICATION JournalSpec
CONSTANTS
  nativeCard = nativeCard
  planApproval = planApproval
  providerMessage = providerMessage
  EffectIds <- MCEffectIds
  KindOf <- MCKindOf
  Receipts = {r1, r2}
  NoReceipt = NoReceipt
  MaxEffects = 2
INVARIANTS CallsBounded CallsRecorded RecordAlwaysLoads
PROPERTIES RecordOnlyAdvances
