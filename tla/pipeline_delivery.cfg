SPECIFICATION Spec
CONSTANTS
  plain1 = plain1
  twin1 = twin1
  plain2 = plain2
  hit2 = hit2
  other3 = other3
  m1 = m1
  m2 = m2
  m3 = m3
  offer1 = offer1
  offer2 = offer2
  r1 = r1
  r2 = r2
  NoOffer = NoOffer
  NoPosting = NoPosting
  NoRecipient = NoRecipient
  Posting = {plain1, hit2}
  Message = {m1, m2, m3}
  Signature = {plain1, hit2}
  Offer = {offer1, offer2}
  Recipient = {r1, r2}
  Task = {t1, t2}
  MessageOf <- MCMessageOf
  SignatureOf <- MCSignatureOf
  OfferOf <- MCOfferOf
  TargetHit <- MCTargetHit
  Wants <- MCWants
  Budget <- MCBudget
  MaxId = 2
  NotifyAttempts = 2
  Locks = 1
  Refusals = 2
  Timeouts = 1
  Crashes = 1
  Deletions = 0
  Edits = 1
  Repeats = 0
  Agings = 0
CHECK_DEADLOCK FALSE
INVARIANTS AtMostOnceUnlessBlind SentIsHonest OutcomeAccounted
PROPERTIES KeepsPromise
