\* Runs killed up to twice, on versions with and without each anchor.
SPECIFICATION PatchSpec
CONSTANTS
  Upstreams <- MCUpstreams
  MaxKills = 2
INVARIANTS PatchTypeOK NeverTwice SuccessIsComplete
PROPERTY Converges
