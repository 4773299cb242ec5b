SPECIFICATION PassiveSpec
CONSTANTS
    MaxSequence = 9
    MaxDialogue = 8
    UrbSeqNums = {0, 1}
    Endpoints = {0, 15, 16}
    MaxUrbTransfer = 2
    MaxProduced = 4
INVARIANTS
    AcceptedIsLegal
    RepliesTakeTurns
    DataFollowsGrantedImport
    RequestsMeanTheSame
    RepliesKeepTheirMeaning
    OnlyRejectionsAreLost
    DataBelongsToEvent
CHECK_DEADLOCK FALSE
