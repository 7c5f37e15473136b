\* A check and a comment on two pull requests; two derived rules, one of which a
\* post-mortem names too.
SPECIFICATION KSpec
CONSTANTS
  ci = ci
  comment = comment
  lint = lint
  docs = docs
  wA = wA
  Finding = {ci, comment}
  Check = {ci}
  PrOf <- TwoPrs
  Rule = {lint, docs}
  Derivable = {lint, docs}
  Wave = {wA}
  Slug <- OneSlug

  
PROPERTIES
  GateKeepsTriage
  ActiveStays
CHECK_DEADLOCK FALSE
