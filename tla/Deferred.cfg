SPECIFICATION Spec
CONSTANTS
  MaxCalls = 4
  MaxPlainCalls = 5
  MaxDeferreds = 3
  MaxThrows = 1
  UserDeferreds = 2
  PlainOptions <- MCPlainOptions
INVARIANTS
  TypeOK
  FiresWhatIsDue
  AllCalled
  FollowersFollow
  MasterFollowsAll
PROPERTY
  PromiseImplemented
