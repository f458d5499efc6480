SPECIFICATION Spec
CONSTANTS
  Requests = {r1, r2}
  Calls <- MCCalls
  NoCall = NoCall
  Users = {ann, bob}
  Items = {hat}
  Lists = {DefaultList, shared}
  Scores = {0, 7}
  DefaultList = DefaultList
  DefaultUser = DefaultUser
  Everyone = Everyone
  Unborn = Unborn
  Gone = Gone
  ErrorReply = ErrorReply
  Undefined = Undefined
  ann = ann
  bob = bob
  hat = hat
  shared = shared
INVARIANTS TypeOK EveryPickVotes NothingOutlivesItsList
PROPERTIES OnlyScoresChangePower OnlyTheOwner
