SPECIFICATION FairSpec
CONSTANTS
  MaxQuestions = 2
  Recoveries = 1
  MaxFaults = 1
  Faults = {"crash", "lost", "response", "rejected", "run", "silent", "newer", "card_read"}
INVARIANTS
  AnswerSentOnce
  JulesHearsTheCard
  OneReviewerAtWork
PROPERTIES
  QuestionIsSettled
