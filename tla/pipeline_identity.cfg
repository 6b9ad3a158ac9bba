SPECIFICATION Spec
CONSTANTS
  plain1 = plain1
  twin1 = twin1
  plain2 = plain2
  hit2 = hit2
  other3 = other3
  m1 = m1
  m2 = m2
  m3 = m3
  offer1 = offer1
  offer2 = offer2
  r1 = r1
  r2 = r2
  NoOffer = NoOffer
  NoPosting = NoPosting
  NoRecipient = NoRecipient
  Posting = {plain1, twin1, plain2, other3}
  Message = {m1, m2, m3}
  Signature = {plain1, twin1, other3}
  Offer = {offer1, offer2}
  Recipient = {r1}
  Task = {t1, t2}
  MessageOf <- MCMessageOf
  SignatureOf <- MCSameText
  OfferOf <- MCOfferOf
  TargetHit <- MCTargetHit
  Wants <- MCWants
  Budget <- MCBudget
  MaxId = 2
  NotifyAttempts = 1
  Locks = 1
  Refusals = 0
  Timeouts = 0
  Crashes = 1
  Deletions = 1
  Edits = 0
  Repeats = 1
  Agings = 0
CHECK_DEADLOCK FALSE
INVARIANTS SeenMeansKnown SuppressedStaysGone SoleSender
PROPERTIES VerdictIsFinal
