SPECIFICATION Spec
CONSTANTS
  Handles = {h1, h2}
  OtherTypes = {space}
  Session = session
  Names = {n1, n2}
  NoName = NoName
  Labels = {l1, l2}
  NoLabel = NoLabel
  GivenNames = {NoName, given}
  Messages <- MCMessages
  CountRange = 256
  MaxLabels = 2
  given = given
  sent = sent
INVARIANT SubmittedLikeLogged
