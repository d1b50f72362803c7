SPECIFICATION Spec
CONSTANTS
  r1 = r1
  r2 = r2
  r3 = r3
  Nil = Nil
  Call = {r1, r2, r3}
  Op = {"Prepare", "Accept", "SynchronizeLog", "SendHeartbeat", "ListLog", "Set", "TryElectSelf"}
  PeerSlot = {1}
  Id = {1, 2}
  AtOnce = 2
SYMMETRY Calls
INVARIANTS
  TypeOK
  HangsOnlyByReentry
  GrantsAreRecorded
  EntriesAreWhole
  SuccessesStayListed
  SuccessesHaveOwnSlots

  
CHECK_DEADLOCK FALSE
