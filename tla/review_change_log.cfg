SPECIFICATION ReviewSpec
CONSTANTS
  Products = {t1}
  Reviewers = {r1}
  Changes = {"named", "safe", "accepted", "retired"}
  Failures = {}
INVARIANTS
  PublishedIsLogged
