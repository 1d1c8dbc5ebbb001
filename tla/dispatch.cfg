SPECIFICATION FairSpec
CONSTANTS
  Hosts = {h1, h2}
  Requests = {r1}
  Actions = {"reboot", "checkin"}
  MaxChanges = 1
  MaxLosses = 1
INVARIANTS
  AnsweredMeansLogged
  NotDoneMeansNotDone
  StoriesAreInOrder
PROPERTIES
  RequestsAreAnswered
