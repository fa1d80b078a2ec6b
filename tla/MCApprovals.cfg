SPECIFICATION FairSpec
CONSTANTS
  MaxRequests = 2
  Works = {pre, post}
  PostWorks = {post}
  Runs = {r1, r2}
  Waiters = {w1}
  Retain = 1
INVARIANTS
  Authorised
  AnswersStand
  NoSecondRequest
PROPERTIES
  DecidedOnce
  WaitersAreAnswered
